----------------------------- MODULE JstrReserve -----------------------------
(***************************************************************************)
(* jstr_reserve, jstr_reservealways and jstr_reserveexact of builder.h one  *)
(* step of the doubling loop at a time, in the size_t arithmetic of a       *)
(* machine whose words have Width bits.  JstrBuilder takes the outcome of   *)
(* this loop in one step; here it is computed, and may wrap around.  The    *)
(* names are other than those of JstrBuilder, so that the two can be        *)
(* reasoned about together.                                                 *)
(***************************************************************************)
EXTENDS JstrMem

CONSTANTS
  Width,    (* bits of a size_t *)
  Limit     (* the largest block the allocator grants: at most PTRDIFF_MAX *)

Modulus == 2^Width
SizeT == 0..(Modulus - 1)

ASSUME WidthAssumption == Width \in Nat \ {0} /\ Modulus \in Nat \ {0}
ASSUME MinCapAssumption == MinCap \in SizeT \ {0}
ASSUME LimitAssumption == Limit \in Nat /\ Growth * Limit < Modulus

VARIABLES
  pc,        (* "idle" between calls, "loop" in the doubling loop *)
  cap,       (* *cap *)
  new_cap,   (* the argument of the last call *)
  old_cap,   (* the loop variable of jstr_reservealways *)
  first_cap, (* its value on entry *)
  ret        (* what the last call returned *)

loopVars == <<pc, cap, new_cap, old_cap, first_cap, ret>>

LoopInit ==
  /\ pc = "idle"
  /\ cap = 0
  /\ new_cap = 0
  /\ old_cap = 0
  /\ first_cap = 0
  /\ ret = "SUCC"

(* The caller frees the string after an error, so a call follows a success. *)
AtRest == pc = "idle" /\ ret = "SUCC"

(* Mutated form: without JSTR_MAX. *)
EnterLoopFromCap(need) ==
  /\ pc' = "loop"
  /\ new_cap' = need
  /\ first_cap' = cap
  /\ old_cap' = first_cap'
  /\ UNCHANGED <<cap, ret>>

EnterLoop(need) ==
  /\ pc' = "loop"
  /\ new_cap' = need
  /\ first_cap' = IF cap > MinCap THEN cap ELSE MinCap
  /\ old_cap' = first_cap'
  /\ UNCHANGED <<cap, ret>>

(* Mutated form: off by one in the comparison with the capacity. *)
CallReserveOneLess ==
  /\ AtRest
  /\ \E need \in SizeT :
       \/ /\ need <= cap + 1
          /\ new_cap' = need
          /\ UNCHANGED <<pc, cap, old_cap, first_cap, ret>>
       \/ need > cap + 1 /\ EnterLoop(need)

CallReserve ==
  /\ AtRest
  /\ \E need \in SizeT :
       \/ /\ need <= cap
          /\ new_cap' = need
          /\ UNCHANGED <<pc, cap, old_cap, first_cap, ret>>
       \/ need > cap /\ EnterLoop(need)

CallReserveAlways == AtRest /\ \E need \in SizeT : EnterLoop(need)

(* Mutated form: one iteration more. *)
DoubleOnceMore ==
  /\ pc = "loop"
  /\ old_cap <= new_cap
  /\ old_cap' = (old_cap * Growth) % Modulus
  /\ UNCHANGED <<pc, cap, new_cap, first_cap, ret>>

Double ==
  /\ pc = "loop"
  /\ old_cap < new_cap
  /\ old_cap' = (old_cap * Growth) % Modulus
  /\ UNCHANGED <<pc, cap, new_cap, first_cap, ret>>

AskAllocator ==
  /\ pc = "loop"
  /\ old_cap >= new_cap
  /\ pc' = "idle"
  /\ \/ old_cap <= Limit /\ cap' = old_cap /\ ret' = "SUCC"
     \/ cap' = cap /\ ret' = "ERR"
  /\ UNCHANGED <<new_cap, old_cap, first_cap>>

(* The capacity is stored first, whether or not the allocator grants it. *)
CallReserveExact ==
  /\ AtRest
  /\ \E need \in SizeT :
       /\ new_cap' = need
       /\ IF need < cap \/ need = 0
          THEN UNCHANGED <<cap, ret>>
          ELSE /\ cap' = need
               /\ ret' \in {"ERR"} \cup (IF need <= Limit THEN {"SUCC"} ELSE {})
  /\ UNCHANGED <<pc, old_cap, first_cap>>

(* jstr_free, and the string is used again. *)
CallFree ==
  /\ pc = "idle"
  /\ cap' = 0
  /\ new_cap' = 0
  /\ ret' = "SUCC"
  /\ UNCHANGED <<pc, old_cap, first_cap>>

LoopNext ==
  \/ CallReserve \/ CallReserveAlways \/ CallReserveExact \/ CallFree
  \/ Double \/ AskAllocator

(* A call that has started runs: nothing but the loop itself can delay it. *)
LoopSpec == LoopInit /\ [][LoopNext]_loopVars /\ WF_loopVars(Double \/ AskAllocator)

(***************************************************************************)
(* Properties.                                                             *)
(***************************************************************************)

LoopTypeOK ==
  /\ pc \in {"idle", "loop"}
  /\ {cap, new_cap, old_cap, first_cap} \subseteq SizeT
  /\ ret \in {"SUCC", "ERR"}

(* A call that reports success leaves a capacity of at least what was asked *)
(* for, however the loop's multiplication wrapped.                          *)
SuccessCovers == (pc = "idle" /\ ret = "SUCC") => cap >= new_cap

(* What the allocator grants to the doubling loop never went through a wrap *)
(* of the multiplication, and is the first doubling that suffices: this is  *)
(* the capacity that JstrMem, and with it JstrBuilder, takes in one step.   *)
GrantedIsFirstDoubling ==
  [][(pc = "loop" /\ pc' = "idle" /\ ret' = "SUCC")
       => Doubled(cap, cap', new_cap)]_loopVars

(* Every request up to half of the address space ends the loop, so a call   *)
(* that asks for too much memory returns an error: it is the allocator that *)
(* refuses it, whatever capacity the string had.                            *)
FeasibleReturns ==
  (pc = "loop" /\ new_cap <= 2^(Width - 1)) ~> (pc = "idle")
==============================================================================
