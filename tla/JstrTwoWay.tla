----------------------------- MODULE JstrTwoWay -----------------------------
(***************************************************************************)
(* The two-way search of internal/musl/twoway.h, which string.h includes   *)
(* four times: with and without a haystack length, with and without        *)
(* folding case.  The needle is compiled once: which bytes it has, how far *)
(* the last of each is from its end, and a critical factorisation, from    *)
(* the maximal suffixes for both orders of the bytes.  Then a window moves *)
(* over the haystack and remembers how much of a periodic needle it has    *)
(* already matched.                                                        *)
(***************************************************************************)
EXTENDS JstrObject, SequencesExt, TLC

CONSTANTS
  FirstChunk, \* what the search for the end starts with: 512
  NextChunk   \* and goes on with: 2048, like the first a power of two

\* The calls that fold case, and those that look for the terminator.
Folding ==
  {"strcasestr_len", "strcasestr_len_exec", "strcasestr", "strcasestr_exec"}

CheckingEol == {"strcasestr", "strcasestr_exec", "strstr_exec", "count"}

Canon(c) == IF call.op \in Folding THEN ToLower(c) ELSE c

\* The needle and the window, indexed from 0 like in the code.
ne(i) == Canon(call.ne[i + 1])

hs(i) == Canon(At(l.h + i))

needle_len == Len(call.ne)

Occurs(a) == a + needle_len <= End /\ SameAs(call.ne, a, Canon)

-----------------------------------------------------------------------------
(* Compiling the needle.                                                   *)

\* Maximal suffix for one order: pass 1 takes the larger byte first, pass 2
\* the smaller one.
SuffixStart == [ms |-> -1, j |-> 0, k |-> 1, period |-> 1]

Compile == Goto("compile", [pass |-> 1, m |-> SuffixStart, first |-> SuffixStart] @@ l)

\* The loop index of the maximal suffix after comparing one more byte.
SuffixNext(m, pass) ==
  LET a == ne(m.ms + m.k)
      b == ne(m.j + m.k)
      better == IF pass = 1 THEN a > b ELSE a < b IN
  CASE better ->
         [m EXCEPT !.j = m.j + m.k, !.k = 1, !.period = m.j + m.k - m.ms]
    [] a = b /\ m.k = m.period -> [m EXCEPT !.j = m.j + m.period, !.k = 1]
    [] a = b /\ m.k # m.period -> [m EXCEPT !.k = m.k + 1]
    [] OTHER -> [ms |-> m.j, j |-> m.j + 1, k |-> 1, period |-> 1]

CompareSuffix ==
  /\ pc = "compile" /\ l.m.j + l.m.k < needle_len
  /\ ReadsNothing
  /\ Goto("compile", [l EXCEPT !.m = SuffixNext(l.m, l.pass)])
  /\ UNCHANGED <<call, mem>>

OtherOrder ==
  /\ pc = "compile" /\ l.m.j + l.m.k >= needle_len /\ l.pass = 1
  /\ ReadsNothing
  /\ Goto("compile", [l EXCEPT !.pass = 2, !.first = l.m, !.m = SuffixStart])
  /\ UNCHANGED <<call, mem>>

\* How far the window moves when its last byte is c: the needle's length less
\* the place of the last c in it, all of it when the needle has none.
Shift(c) == needle_len - Max({0} \cup {i + 1 : i \in {j \in 0..(needle_len - 1) : ne(j) = c}})

\* Mutated form: a needle that is not periodic is moved by its local period.
CompiledShort ==
  LET m == IF l.m.ms > l.first.ms THEN l.m ELSE l.first IN
  [suffix |-> m.ms, period |-> m.period, memory0 |-> needle_len - m.period]

\* The longer suffix of the two, and what a full match of it may be moved by:
\* the period, when the part before the suffix repeats with it.
Compiled ==
  LET m == IF l.m.ms > l.first.ms THEN l.m ELSE l.first
      periodic == \A i \in 0..m.ms : ne(i) = ne(i + m.period) IN
  IF periodic
  THEN [suffix |-> m.ms, period |-> m.period, memory0 |-> needle_len - m.period]
  ELSE [suffix |-> m.ms,
        period |-> Max({m.ms, needle_len - m.ms - 1}) + 1,
        memory0 |-> 0]

NotCompiled == [suffix |-> -1, period |-> 0, memory0 |-> 0]

CompileEnd ==
  /\ pc = "compile" /\ l.m.j + l.m.k >= needle_len /\ l.pass = 2
  /\ ReadsNothing
  /\ Goto("search", [start |-> l.start, from |-> l.from, cnt |-> l.cnt, t |-> Compiled])
  /\ UNCHANGED <<call, mem>>

-----------------------------------------------------------------------------
(* Searching with it.                                                      *)

\* n | chunk: the chunks have one bit.
OrChunk(n, chunk) == IF (n \div chunk) % 2 = 1 THEN n ELSE n + chunk

\* jstr_strnlen from a.
UpToNul(a, n) == Min({a + n, End})

FirstEnd(h) ==
  IF call.op \in CheckingEol THEN UpToNul(h, OrChunk(needle_len, FirstChunk)) ELSE End

Window(h) == Goto("window", [h |-> h, memory |-> 0, end |-> FirstEnd(h)] @@ l)

Fits == l.end - l.h >= needle_len

\* The string may go on after the part whose length is known.
ExtendEnd ==
  /\ pc = "window" /\ ~Fits /\ call.op \in CheckingEol
  /\ UpToNul(l.end, OrChunk(needle_len, NextChunk)) - l.h >= needle_len
  /\ Reads(l.end, UpToNul(l.end, OrChunk(needle_len, NextChunk)))
  /\ Goto("window", [l EXCEPT !.end = UpToNul(@, OrChunk(needle_len, NextChunk))])
  /\ UNCHANGED <<call, mem>>

Move(h, memory) == Goto("window", [l EXCEPT !.h = h, !.memory = memory])

\* What of the right half, then of the left one, does not match.
RightMismatches ==
  {k \in Max({l.h + l.t.suffix + 1, l.h + l.memory})..(l.h + needle_len - 1) :
     ne(k - l.h) # Canon(At(k))}

LeftMismatches == {k \in l.memory..l.t.suffix : ne(k) # hs(k)}

\* The last byte of the window first, which tells how far it is from the last
\* place the needle has it; a move shorter than what is remembered is made as
\* long.
MoveByLastByte ==
  /\ pc = "window" /\ Fits
  /\ LET k == Shift(hs(needle_len - 1)) IN
     /\ k > 0
     /\ Move(l.h + (IF k < l.memory /\ k < needle_len THEN l.memory ELSE k), 0)
  /\ Reads(l.h, l.h + needle_len - 1)
  /\ UNCHANGED <<call, mem>>

MovePastMismatch ==
  /\ pc = "window" /\ Fits
  /\ Shift(hs(needle_len - 1)) = 0
  /\ RightMismatches # {}
  /\ Move(Min(RightMismatches) - l.t.suffix, 0)
  /\ Reads(l.h, l.h + needle_len - 1)
  /\ UNCHANGED <<call, mem>>

MoveByPeriod ==
  /\ pc = "window" /\ Fits
  /\ Shift(hs(needle_len - 1)) = 0
  /\ RightMismatches = {} /\ LeftMismatches # {}
  /\ Move(l.h + l.t.period, l.t.memory0)
  /\ Reads(l.h, l.h + needle_len - 1)
  /\ UNCHANGED <<call, mem>>

Matched ==
  /\ pc = "window" /\ Fits
  /\ Shift(hs(needle_len - 1)) = 0
  /\ RightMismatches = {} /\ LeftMismatches = {}

Exhausted ==
  /\ pc = "window" /\ ~Fits
  /\ call.op \in CheckingEol =>
       UpToNul(l.end, OrChunk(needle_len, NextChunk)) - l.h < needle_len
=============================================================================
