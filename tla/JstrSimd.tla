------------------------------ MODULE JstrSimd ------------------------------
(***************************************************************************)
(* The vectorised loops of internal/simd.h that look for one character,    *)
(* count it, convert case or copy: one aligned vector per step.            *)
(***************************************************************************)
EXTENDS JstrObject

Scans == {"strchrnul", "strcasechrnul", "strnchr", "strncasechr", "memcasechr"}

\* The scans with a length; all but memcasechr also stop at the terminator.
Limited == {"strnchr", "strncasechr", "memcasechr"}

Walks ==
  {"countchr", "countchr_len", "tolowerstr_p", "tolowerstr_len",
   "toupperstr_p", "toupperstr_len", "stpcpy"}

\* The walks that are given a length and do not look for the terminator.
Measured == {"countchr_len", "tolowerstr_len", "toupperstr_len"}

-----------------------------------------------------------------------------
(* Looking for a character from the front.                                 *)

\* The values the masks are computed for.
Wanted ==
  (IF call.op \in {"strcasechrnul", "strncasechr", "memcasechr"}
   THEN {ToLower(call.c), ToUpper(call.c)} ELSE {call.c})
  \cup (IF call.op = "memcasechr" THEN {} ELSE {Nul})

Hits(b) == {a \in Vector(b) : At(a) \in Wanted}

\* jstr_*n*chr return what they find only before the end.
BeforeEnd(a) == IF call.op \in Limited /\ a >= End THEN Null ELSE a

\* The first vector may begin before the object: what precedes it is shifted
\* out of the mask.
ScanHead ==
  /\ pc = "call" /\ call.op \in Scans
  /\ ~(call.op \in Limited /\ call.n = 0)
  /\ LET b == AlignDown(call.s)
         m == {a \in Hits(b) : a >= call.s} IN
     /\ Loads(b)
     /\ IF m # {} THEN Return(BeforeEnd(Min(m))) ELSE Goto("scan", [p |-> b])
  /\ UNCHANGED <<call, mem>>

ScanNothing ==
  /\ pc = "call" /\ call.op \in Limited \cup {"memrchr"} /\ call.n = 0
  /\ ReadsNothing
  /\ Return(Null)
  /\ UNCHANGED <<call, mem>>

\* Mutated form: every scan loads before it asks for the end.
ScanBlockEager ==
  /\ pc = "scan" /\ call.op \in Scans
  /\ LET b == l.p + Vec
         past == call.op \in Limited /\ b >= End IN
     /\ Loads(b)
     /\ CASE past -> Return(Null)
          [] ~past /\ Hits(b) # {} -> Return(BeforeEnd(Min(Hits(b))))
          [] OTHER -> Goto("scan", [p |-> b])
  /\ UNCHANGED <<call, mem>>

\* memcasechr asks for the end before it loads, the others after.
ScanBlock ==
  /\ pc = "scan" /\ call.op \in Scans
  /\ LET b == l.p + Vec
         past == call.op \in Limited /\ b >= End IN
     /\ IF past /\ call.op = "memcasechr" THEN ReadsNothing ELSE Loads(b)
     /\ CASE past -> Return(Null)
          [] ~past /\ Hits(b) # {} -> Return(BeforeEnd(Min(Hits(b))))
          [] OTHER -> Goto("scan", [p |-> b])
  /\ UNCHANGED <<call, mem>>

-----------------------------------------------------------------------------
(* Looking for a character from the back.                                  *)

\* A vector of the reverse scan answers with its last hit, or with nothing
\* when that lies before the object.
RevAnswer(m) == IF Max(m) >= call.s THEN Max(m) ELSE Null

\* The last vector may run past the end: what follows the end is shifted out.
RevHead ==
  /\ pc = "call" /\ call.op = "memrchr" /\ call.n > 0
  /\ LET b == AlignUp(End - Vec)
         m == {a \in Vector(b) : a < End /\ At(a) = call.c} IN
     /\ Loads(b)
     /\ IF m # {} THEN Return(RevAnswer(m)) ELSE Goto("reverse", [p |-> b - Vec])
  /\ UNCHANGED <<call, mem>>

\* The loop goes on while the end of the vector reaches the object, which it
\* does when it only touches its first byte from below.
RevBlock ==
  /\ pc = "reverse"
  /\ IF l.p + Vec >= call.s
     THEN LET m == {a \in Vector(l.p) : At(a) = call.c} IN
          /\ Loads(l.p)
          /\ IF m # {} THEN Return(RevAnswer(m)) ELSE Goto("reverse", [p |-> l.p - Vec])
     ELSE ReadsNothing /\ Return(Null)
  /\ UNCHANGED <<call, mem>>

-----------------------------------------------------------------------------
(* Walking over the whole object: single bytes up to the first aligned     *)
(* address, whole vectors while they have no terminator or while enough is *)
(* left, single bytes to the end.                                          *)

\* Where the walk stops: at its length or at the terminator.
StopAt ==
  IF call.op \in Measured THEN End
  ELSE Min({a \in Object : mem[a - call.s + 1] = Nul})

\* The comparisons of vectors are signed.
Signed(c) == IF c > 127 THEN c - 256 ELSE c

tolower_vec(c) == IF Signed(c) > 64 /\ Signed(c) < 91 THEN c + 32 ELSE c

toupper_vec(c) == IF Signed(c) > 96 /\ Signed(c) < 123 THEN c - 32 ELSE c

Converted(c, wide) ==
  CASE call.op \in {"tolowerstr_p", "tolowerstr_len"} ->
         IF wide THEN tolower_vec(c) ELSE ToLower(c)
    [] call.op \in {"toupperstr_p", "toupperstr_len"} ->
         IF wide THEN toupper_vec(c) ELSE ToUpper(c)
    [] OTHER -> c

\* What the walk does with the bytes from a to b - 1, a vector at a time or
\* one by one: count, convert in place, or copy.
Treat(a, b, wide) ==
  /\ mem' = [i \in DOMAIN mem |->
               IF call.s + i - 1 \in a..(b - 1) THEN Converted(mem[i], wide) ELSE mem[i]]
  /\ l' = [p |-> b,
           cnt |-> l.cnt + Cardinality({x \in a..(b - 1) : At(x) = call.c}),
           out |-> l.out \o [i \in 1..(b - a) |-> At(a + i - 1)]]

\* The count, the copy with its terminator, or the address of the terminator.
WalkAnswer ==
  CASE call.op \in {"countchr", "countchr_len"} -> l'.cnt
    [] call.op = "stpcpy" -> Append(l'.out, Nul)
    [] OTHER -> StopAt

\* Bytes up to b - 1, and the terminator if that is where the walk stops.
ReadUpTo(a, b) ==
  Reads(a, IF b = StopAt /\ call.op \notin Measured THEN b ELSE b - 1)

WalkCall ==
  /\ pc = "call" /\ call.op \in Walks
  /\ ReadsNothing
  /\ Goto("head", [p |-> call.s, cnt |-> 0, out |-> <<>>])
  /\ UNCHANGED <<call, mem>>

WalkHead ==
  /\ pc = "head"
  /\ LET b == IF StopAt < AlignUp(call.s) THEN StopAt ELSE AlignUp(call.s) IN
     /\ Treat(call.s, b, FALSE)
     /\ IF b < AlignUp(call.s)
        THEN ReadUpTo(call.s, b) /\ ret' = WalkAnswer /\ pc' = "done"
        ELSE Reads(call.s, b - 1) /\ pc' = "vector" /\ UNCHANGED ret
  /\ UNCHANGED call

\* A vector is treated when it ends before the walk stops.
WalkVector ==
  /\ pc = "vector"
  /\ l.p + Vec <= StopAt
  /\ Loads(l.p)
  /\ Treat(l.p, l.p + Vec, TRUE)
  /\ UNCHANGED <<call, pc, ret>>

\* A string finds that out by loading the vector that has the terminator.
WalkLast ==
  /\ pc = "vector"
  /\ l.p + Vec > StopAt
  /\ IF call.op \in Measured THEN ReadsNothing ELSE Loads(l.p)
  /\ pc' = "tail"
  /\ UNCHANGED <<call, mem, l, ret>>

WalkTail ==
  /\ pc = "tail"
  /\ Treat(l.p, StopAt, FALSE)
  /\ ReadUpTo(l.p, StopAt)
  /\ ret' = WalkAnswer
  /\ pc' = "done"
  /\ UNCHANGED call

SimdNext ==
  \/ ScanHead \/ ScanNothing \/ ScanBlock
  \/ RevHead \/ RevBlock
  \/ WalkCall \/ WalkHead \/ WalkVector \/ WalkLast \/ WalkTail
=============================================================================
