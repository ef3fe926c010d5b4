------------------------------- MODULE JstrMem -------------------------------
(***************************************************************************)
(* The heap block behind a jstr_ty, byte by byte, and the copying helpers  *)
(* of stdstring.h the library writes it with.                              *)
(*                                                                         *)
(* A block of n bytes is a function with domain 0..n-1; the NULL pointer   *)
(* is the block of 0 bytes.  A byte is a character, the terminator NUL, or *)
(* Junk: whatever malloc or realloc left in a byte nobody has written.     *)
(* Writes outside the block are dropped here; the modules that use these   *)
(* helpers keep the extent every call touches and compare it with the      *)
(* size of the block.  The capacities jstr_reservealways may choose are    *)
(* here too.                                                               *)
(***************************************************************************)
EXTENDS Naturals, Integers, Sequences

CONSTANTS
  Char,   (* the characters the callers' strings are made of *)
  NUL,    (* '\0' *)
  Junk,   (* an indeterminate byte *)
  MinCap, (* JSTR_MIN_CAP *)
  MaxCap  (* bound: no block larger than this is asked for *)

ASSUME BytesDistinct == NUL \notin Char /\ Junk \notin Char /\ NUL # Junk

ASSUME BoundsAssumption == MinCap \in Nat \ {0} /\ MaxCap \in Nat

Growth == 2

Byte == Char \cup {NUL, Junk}

Block(n) == [0..(n - 1) -> Byte]

Null == [i \in 0..(-1) |-> Junk]

(* realloc(m, n) of a block of old bytes, when it succeeds. *)
Realloc(m, old, n) == [i \in 0..(n - 1) |-> IF i < old THEN m[i] ELSE Junk]

(* memset(m + dst, c, n) *)
Fill(m, dst, c, n) ==
  [i \in DOMAIN m |-> IF dst <= i /\ i < dst + n THEN c ELSE m[i]]

(* memcpy(m + dst, src, Len(src)) from another object. *)
Copy(m, dst, src) ==
  [i \in DOMAIN m |->
     IF dst <= i /\ i < dst + Len(src) THEN src[i - dst + 1] ELSE m[i]]

(* memmove(m + dst, m + from, n) within the block. *)
Move(m, dst, from, n) ==
  [i \in DOMAIN m |->
     IF dst <= i /\ i < dst + n
     THEN IF i - dst + from \in DOMAIN m THEN m[i - dst + from] ELSE Junk
     ELSE m[i]]

(* Mutated form: the terminator is forgotten. *)
StrMoveOpen(m, dst, from, n) == Move(m, dst, from, n)

(* jstr_strmove_len / jstr_stpmove_len: memmove, then terminate. *)
StrMove(m, dst, from, n) == Fill(Move(m, dst, from, n), dst + n, NUL, 1)

(* jstr_strcpy_len / jstr_stpcpy_len: memcpy, then terminate. *)
StrCpy(m, dst, src) == Fill(Copy(m, dst, src), dst + Len(src), NUL, 1)

(* The first n bytes of the block, as a string. *)
Prefix(m, n) == [i \in 1..n |-> m[i - 1]]

(* Where find occurs within the bytes from..(to - 1): jstr_memmem_exec gives *)
(* the leftmost place, jstr_memrmem and jstr_memrchr the rightmost.          *)
Matches(m, find, from, to) ==
  {p \in from..(to - Len(find)) : \A k \in 1..Len(find) : m[p + k - 1] = find[k]}

Leftmost(p, S) == p \in S /\ \A q \in S : p <= q

Rightmost(p, S) == p \in S /\ \A q \in S : q <= p

(* c is where the doubling loop of jstr_reservealways stops: the first      *)
(* doubling of the old capacity, or of JSTR_MIN_CAP, that reaches need.      *)
Doubled(cap, c, need) ==
  LET start == IF cap > MinCap THEN cap ELSE MinCap
  IN  /\ c >= start
      /\ c >= need
      /\ c = start \/ c < Growth * need
      /\ \E k \in 0..MaxCap : c = start * Growth^k

(***************************************************************************)
(* A buffer is a block with its size and the capacity the library thinks   *)
(* it has.                                                                 *)
(***************************************************************************)

Resized(b, c) == [data |-> Realloc(b.data, b.alloc, c), alloc |-> c, cap |-> c]

(* Mutated form: realloc is given what is needed, the capacity is doubled. *)
ReservedAlwaysLess(b, need) ==
  {[Resized(b, need) EXCEPT !.cap = c] : c \in {d \in 1..MaxCap : Doubled(b.cap, d, need)}}

(* What jstr_reservealways can make of b when it succeeds. *)
ReservedAlways(b, need) ==
  {Resized(b, c) : c \in {d \in 1..MaxCap : Doubled(b.cap, d, need)}}

(* Mutated form: off by one in the comparison with the capacity. *)
ReservedOneLess(b, need) == IF need <= b.cap + 1 THEN {b} ELSE ReservedAlways(b, need)

(* What jstr_reserve can make of b when it succeeds, and when it can fail. *)
Reserved(b, need) == IF need <= b.cap THEN {b} ELSE ReservedAlways(b, need)

ReserveFails(b, need) == need > b.cap /\ need <= MaxCap
==============================================================================
