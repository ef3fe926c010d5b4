----------------------------- MODULE JstrBuffer -----------------------------
(***************************************************************************)
(* What the functions of string.h, itoa.h and the paths of io.h share that *)
(* change or write a string: one call on one buffer.  The functions that   *)
(* work in place find their text in it, those that copy find it empty.     *)
(* What lies behind is junk, and far remembers how far a call has gone.    *)
(***************************************************************************)
EXTENDS JstrCtype, Sequences

CONSTANTS
  Calls,      \* the calls to examine, as families of arguments
  Room,       \* bytes of memory there are to look at
  Junk,       \* the value of the bytes nobody has written
  Null        \* the null pointer

(***************************************************************************)
(* A call is op, its name; text, the string it is about; arg, its second   *)
(* string (a needle, a set, a file name, the home directory); k, its       *)
(* number; base and bits, the base and the width of an integer.            *)
(***************************************************************************)

VARIABLES
  call,       \* the call under way
  mem,        \* the buffer
  far,        \* the highest address the call has written, or read in a query
  size,       \* the size, for the calls that are given a pointer to it
  room,       \* the bytes of the buffer that belong to the string
  pc,         \* the loop the call is in
  l,          \* the variables of that loop
  ret         \* what the call returned

vars == <<call, mem, far, size, room, pc, l, ret>>

n == Len(call.text)

Copying == {"revcpy_len", "revcpy_p", "repeatcpy_len_p", "thousepcpy_len_p", "unescapecpy_p"}

Succ == 0

Err == -1

Later(a, b) == IF a < b THEN b ELSE a

StrLenFrom(s) == (CHOOSE i \in s..(Room - 1) : mem[i] = Nul /\ \A j \in s..(i - 1) : mem[j] # Nul) - s

Unwritten == UNCHANGED <<mem, far>>

Unsized == UNCHANGED <<size, room>>

Store(i, c) ==
  /\ mem' = [mem EXCEPT ![i] = c]
  /\ far' = Later(far, i)

\* Writes text at d and a terminator behind it.
StrCpyAt(d, text) ==
  /\ mem' = [i \in DOMAIN mem |-> IF i \in d..(d + Len(text) - 1) THEN text[i - d + 1]
                                  ELSE IF i = d + Len(text) THEN Nul ELSE mem[i]]
  /\ far' = Later(far, d + Len(text))

\* The buffer after jstr_strmove_len of k bytes from s to d.
Moved(d, s, k) ==
  [i \in DOMAIN mem |-> IF i \in d..(d + k - 1) THEN mem[s + i - d]
                        ELSE IF i = d + k THEN Nul ELSE mem[i]]

Return(r) ==
  /\ ret' = r
  /\ pc' = "done"
  /\ UNCHANGED l

Goto(loop, locals) ==
  /\ pc' = loop
  /\ l' = locals
  /\ UNCHANGED ret

BufferInit(Provided(_)) ==
  /\ \E f \in Calls : \E op \in f.ops, t \in f.texts, a \in f.args, k \in f.ks, b \in f.bases, w \in f.bits :
       call = [op |-> op, text |-> t, arg |-> a, k |-> k, base |-> b, bits |-> w]
  /\ mem = [i \in 0..(Room - 1) |->
              IF i > n \/ call.op \in Copying THEN Junk
              ELSE IF i = n THEN Nul ELSE call.text[i + 1]]
  /\ far = -1
  /\ size = n
  /\ room = Provided(call)
  /\ pc = "call"
  /\ l = [s |-> 0]
  /\ ret = Null

Called(ops) == pc = "call" /\ call.op \in ops /\ UNCHANGED call

In(loop) == pc = loop /\ UNCHANGED call
=============================================================================
