----------------------------- MODULE JstrObject -----------------------------
(***************************************************************************)
(* What the searches of jstring share: one call on one object in memory.   *)
(* The object is a string with its terminator or n bytes, at any           *)
(* alignment, and what lies around it is anything: a search that looks     *)
(* there must not be led by it.  The vectorised searches read whole        *)
(* aligned blocks, which is harmless as long as a block has a byte of the  *)
(* object: a page is either mapped or it is not.                           *)
(***************************************************************************)
EXTENDS JstrCtype, FiniteSets, FiniteSetsExt, Sequences

CONSTANTS
  Vec,        \* bytes of a vector register
  Reach,      \* bytes behind the object before the first NUL there at the latest
  Calls,      \* the calls to examine, as families of arguments
  Null        \* the null pointer

ASSUME VecAssumption == Vec \in Nat /\ Vec > 1

ASSUME ReachAssumption == Reach \in Nat /\ Reach >= 2 * Vec

(***************************************************************************)
(* A call is op, its name; s, the address of its object; text, the bytes   *)
(* of the object; n, the length it is given; c, its character; ne, its     *)
(* needle; around, the value of the bytes around the object, up to Reach   *)
(* behind it, where a NUL stops who reads on.  A family has sets of them;  *)
(* its objects are strings with a terminator or not, and the length is     *)
(* that of the text unless the family has others.                          *)
(***************************************************************************)

VARIABLES
  call,       \* the call under way
  mem,        \* the bytes of the object, changed by the calls that convert
  pc,         \* the loop the call is in
  l,          \* the variables of that loop
  block,      \* the address of the vector just loaded, or Null
  bytes,      \* the addresses of the bytes just read one by one
  ret         \* what the call returned

vars == <<call, mem, pc, l, block, bytes, ret>>

Object == call.s .. (call.s + Len(call.text) - 1)

End == call.s + call.n

Behind(a) == a - (call.s + Len(call.text))

At(a) ==
  CASE a \in Object -> mem[a - call.s + 1]
    [] a \notin Object /\ Behind(a) < Reach -> call.around
    [] OTHER -> Nul

AlignDown(a) == a - (a % Vec)

AlignUp(a) == AlignDown(a + Vec - 1)

Vector(b) == b .. (b + Vec - 1)

\* The bytes of a and of b that follow address p are the same under f.
SameAs(ne, p, f(_)) == \A i \in 1..Len(ne) : f(At(p + i - 1)) = f(ne[i])

Same(c) == c

Reads(a, b) == block' = Null /\ bytes' = a .. b

Loads(b) == block' = b /\ bytes' = {}

ReadsNothing == block' = Null /\ bytes' = {}

Return(r) ==
  /\ ret' = r
  /\ pc' = "done"
  /\ UNCHANGED l

Goto(loop, locals) ==
  /\ pc' = loop
  /\ l' = locals
  /\ UNCHANGED ret

ObjectInit ==
  /\ \E f \in Calls : \E op \in f.ops, s \in f.at, t \in f.texts, ne \in f.needles, o \in f.around :
       \E n \in IF f.lengths = {} THEN {Len(t)} ELSE f.lengths :
         call = [op |-> op, s |-> s, text |-> IF f.string THEN Append(t, Nul) ELSE t,
                 n |-> n, c |-> f.c, ne |-> ne, around |-> o]
  /\ mem = call.text
  /\ pc = "call"
  /\ l = [p |-> call.s]
  /\ block = Null
  /\ bytes = {}
  /\ ret = Null

(***************************************************************************)
(* Every vector loaded shares a byte with the object and every single byte *)
(* read is in it.                                                          *)
(***************************************************************************)
Touches ==
  /\ block # Null => Vector(block) \cap Object # {}
  /\ bytes \subseteq Object
=============================================================================
