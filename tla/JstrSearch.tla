----------------------------- MODULE JstrSearch -----------------------------
(***************************************************************************)
(* The searches of string.h for a string: how each call chooses its        *)
(* algorithm from the lengths, what it skips before it starts, and the     *)
(* algorithms, one position, one vector or one window per step.  A call    *)
(* that counts goes on after each match with the needle it has compiled.   *)
(***************************************************************************)
EXTENDS JstrSimd, JstrTwoWay

CONSTANTS
  Word,       \* needles up to this long are searched for in a word: 8
  UInt        \* the modulus of an unsigned int

ASSUME WordAssumption == Word \in Nat /\ UInt \in Nat /\ 2 < Word /\ Word < UInt

Needles ==
  {"memmem", "memmem_exec", "memrmem", "strcasestr_len", "strcasestr_len_exec",
   "strcasestr", "strcasestr_exec", "strstr_exec", "count_len", "count"}

\* The calls that have their needle compiled before they are given a haystack.
Precompiled ==
  {"memmem_exec", "strcasestr_len_exec", "strcasestr_exec", "strstr_exec",
   "count_len", "count"}

Counting == {"count_len", "count"}

-----------------------------------------------------------------------------
(* The choice of the algorithm, for a haystack of hs_len bytes.            *)

jstr_memmem(hs_len) ==
  CASE needle_len <= Vec -> "vector"
    [] needle_len > Vec /\ hs_len >= needle_len -> "twoway"
    [] OTHER -> "none"

jstr_memmem_exec == IF needle_len > Vec THEN "twoway" ELSE "vector"

jstr_memrmem(hs_len) ==
  CASE needle_len = 0 -> "end"
    [] needle_len > 0 /\ hs_len < needle_len -> "none"
    [] OTHER -> "backward"

HasLetter == \E i \in DOMAIN call.ne : IsAlpha(call.ne[i])

jstr_strcasestr_len(hs_len) ==
  CASE ~HasLetter -> jstr_memmem(hs_len)
    [] HasLetter /\ hs_len < needle_len -> "none"
    [] HasLetter /\ hs_len >= needle_len /\ needle_len <= Word -> "skip"
    [] OTHER -> "twoway"

jstr_strcasestr_len_exec(hs_len) ==
  CASE needle_len > 2 -> "twoway"
    [] needle_len = 2 -> IF hs_len < 2 THEN "none" ELSE "word"
    [] needle_len = 1 -> "char"
    [] needle_len = 0 -> "start"

\* Without a letter the C library's strstr, otherwise the first character is
\* skipped to, whatever the length.
jstr_strcasestr == IF HasLetter THEN "skip" ELSE "strstr"

jstr_strcasestr_exec ==
  CASE needle_len > 2 -> "twoway"
    [] needle_len = 2 -> "pair"
    [] needle_len = 1 -> "char"
    [] needle_len = 0 -> "start"

jstr_strstr_exec == IF needle_len <= Vec THEN "strstr" ELSE "twoway"

jstr_count_len_exec ==
  CASE needle_len = 1 -> "chars"
    [] needle_len = 0 -> "none"
    [] OTHER -> jstr_memmem_exec

jstr_count(hs_len) ==
  CASE needle_len = 1 -> "chars"
    [] needle_len = 0 \/ hs_len = 0 -> "none"
    [] OTHER -> jstr_strstr_exec

Algorithm ==
  LET hs_len == End - l.from IN
  CASE call.op = "memmem" -> jstr_memmem(hs_len)
    [] call.op = "memmem_exec" -> jstr_memmem_exec
    [] call.op = "memrmem" -> jstr_memrmem(hs_len)
    [] call.op = "strcasestr_len" -> jstr_strcasestr_len(hs_len)
    [] call.op = "strcasestr_len_exec" -> jstr_strcasestr_len_exec(hs_len)
    [] call.op = "strcasestr" -> jstr_strcasestr
    [] call.op = "strcasestr_exec" -> jstr_strcasestr_exec
    [] call.op = "strstr_exec" -> jstr_strstr_exec
    [] call.op = "count_len" -> jstr_count_len_exec
    [] call.op = "count" -> jstr_count(hs_len)

-----------------------------------------------------------------------------
(* Answers, and the searches for a single character.                       *)

\* A count goes on after the match; any other call returns it.
Answer(a) ==
  CASE call.op \notin Counting -> Return(a)
    [] call.op \in Counting /\ a = Null -> Return(l.cnt)
    [] OTHER -> Goto("search",
                     [start |-> a + needle_len, from |-> a + needle_len,
                      cnt |-> l.cnt + 1, t |-> l.t])

FirstIn(S) == IF S = {} THEN Null ELSE Min(S)

LastIn(S) == IF S = {} THEN Null ELSE Max(S)

\* Where the first character of the needle is before address b.
Starts(b) == {a \in l.from..(b - 1) : Canon(At(a)) = ne(0)}

SearchCall ==
  /\ pc = "call" /\ call.op \in Needles
  /\ ReadsNothing
  /\ Goto(IF call.op \in Precompiled THEN "comp" ELSE "search",
          [start |-> call.s, from |-> call.s, cnt |-> 0, t |-> NotCompiled])
  /\ UNCHANGED <<call, mem>>

\* The *_comp calls compile what the *_exec call will search for with it.
jstr_comp ==
  /\ pc = "comp"
  /\ ReadsNothing
  /\ IF Algorithm = "twoway" THEN Compile ELSE Goto("search", l)
  /\ UNCHANGED <<call, mem>>

SearchAtOnce ==
  /\ pc = "search"
  /\ \/ Algorithm = "none" /\ Answer(Null)
     \/ Algorithm = "start" /\ Answer(l.from)
     \/ Algorithm = "end" /\ Answer(End)
     \/ Algorithm = "char" /\ Answer(FirstIn(Starts(End)))
     \/ Algorithm = "chars" /\ Return(Cardinality(Starts(End)))
     \/ Algorithm = "strstr" /\ Answer(FirstIn({a \in l.from..End : Occurs(a)}))
  /\ ReadsNothing
  /\ UNCHANGED <<call, mem>>

\* The two-way search compiles its needle unless the call came with one.
SearchTwoWay ==
  /\ pc = "search"
  /\ Algorithm = "twoway" \/ (Algorithm = "skip" /\ l.t # NotCompiled)
  /\ ReadsNothing
  /\ IF l.t = NotCompiled THEN Compile ELSE Window(l.from)
  /\ UNCHANGED <<call, mem>>

TwoWayAnswer ==
  /\ \/ Matched /\ Reads(l.h, l.h + needle_len - 1) /\ Answer(l.h)
     \/ Exhausted /\ ReadsNothing /\ Answer(Null)
  /\ UNCHANGED <<call, mem>>

-----------------------------------------------------------------------------
(* Skipping to the first character, and sliding a word over the haystack.  *)

\* A skip looks as far as the needle can start, without a length to the end.
SkipTo ==
  FirstIn(Starts(IF call.op \in CheckingEol THEN End ELSE End - needle_len + 1))

SearchSkip ==
  /\ pc = "search" /\ Algorithm = "skip" /\ l.t = NotCompiled
  /\ ReadsNothing
  /\ CASE SkipTo = Null \/ needle_len = 1 -> Answer(SkipTo)
       [] SkipTo # Null /\ needle_len \in 2..Word -> Goto("slide", [h |-> SkipTo] @@ l)
       [] OTHER -> Goto("prefix", [l EXCEPT !.from = SkipTo])
  /\ UNCHANGED <<call, mem>>

\* A long needle is compared in place before it is compiled.
SearchPrefix ==
  /\ pc = "prefix"
  /\ LET differ == {i \in 0..(needle_len - 1) : ne(i) # Canon(At(l.from + i))}
         k == IF differ = {} THEN needle_len ELSE Min(differ) IN
     /\ Reads(l.from, l.from + (IF k = needle_len THEN k - 1 ELSE k))
     /\ CASE k = needle_len -> Answer(l.from)
          [] k \in 2..(needle_len - 1) /\ At(l.from + k) = Nul -> Answer(Null)
          [] OTHER -> Compile
  /\ UNCHANGED <<call, mem>>

SearchWord ==
  /\ pc = "search" /\ Algorithm \in {"word", "pair"}
  /\ ReadsNothing
  /\ Goto(IF Algorithm = "word" THEN "slide" ELSE "pair", [h |-> l.from] @@ l)
  /\ UNCHANGED <<call, mem>>

\* Without a length, only the second character of the pair is compared with
\* the terminator: of an empty string it already lies behind that.
SlidePair ==
  /\ pc = "pair"
  /\ Reads(l.h, l.h + 1)
  /\ CASE At(l.h + 1) = Nul -> Answer(Null)
       [] At(l.h + 1) # Nul /\ SameAs(call.ne, l.h, Canon) -> Answer(l.h)
       [] OTHER -> Goto("pair", [l EXCEPT !.h = @ + 1])
  /\ UNCHANGED <<call, mem>>

\* What is read when the needle does not fit any more.
LastRead == IF call.op = "strcasestr" THEN Reads(l.h, End) ELSE ReadsNothing

\* The *_lt8 loops, and the one for two characters with a length.
Slide ==
  /\ pc = "slide"
  /\ IF l.h + needle_len <= End THEN Reads(l.h, l.h + needle_len - 1) ELSE LastRead
  /\ CASE Occurs(l.h) -> Answer(l.h)
       [] l.h + needle_len > End -> Answer(Null)
       [] OTHER -> Goto("slide", [l EXCEPT !.h = @ + 1])
  /\ UNCHANGED <<call, mem>>

\* Where memrmem starts: at the last place the first character of the needle
\* is.
LastFirst == LastIn(Starts(End - needle_len + 1))

\* What the loops get of the length hs_len: the one for the longer needles
\* takes it as an unsigned int.
Passed(hs_len) == IF needle_len < Word THEN hs_len ELSE hs_len % UInt

\* The needle is counted off both the address and the length, which wraps if
\* it is an unsigned int that has become shorter than the needle.
SearchBackward ==
  /\ pc = "search" /\ Algorithm = "backward"
  /\ ReadsNothing
  /\ IF LastFirst = Null \/ needle_len = 1
     THEN Answer(LastFirst)
     ELSE LET hs_len == Passed(LastFirst + needle_len - l.from) IN
          Goto("slideback", [h |-> l.from + hs_len - needle_len,
                             left |-> Passed(hs_len - needle_len)] @@ l)
  /\ UNCHANGED <<call, mem>>

SlideBack ==
  /\ pc = "slideback"
  /\ Reads(l.h, l.h + needle_len - 1)
  /\ CASE SameAs(call.ne, l.h, Same) -> Answer(l.h)
       [] ~SameAs(call.ne, l.h, Same) /\ l.left = 0 -> Answer(Null)
       [] OTHER -> Goto("slideback", [l EXCEPT !.h = @ - 1, !.left = @ - 1])
  /\ UNCHANGED <<call, mem>>

-----------------------------------------------------------------------------
(* jstr_internal_simd_memmem: two vectors, one byte apart, are compared    *)
(* with two different neighbouring characters of the needle, and the       *)
(* needle is compared where both agree.  (That comparison loads a vector   *)
(* only when it stays in the page.)                                        *)

\* The first of the two: the last one of the run the needle starts with.
PairAt ==
  LET other == {i \in 1..(needle_len - 2) : call.ne[i + 1] # call.ne[1]} IN
  (IF other = {} THEN needle_len - 1 ELSE Min(other)) - 1

\* The last address the needle can start at.
LastStart == End - needle_len

VectorStart ==
  /\ pc = "search" /\ Algorithm = "vector"
  /\ ReadsNothing
  /\ CASE needle_len = 1 -> Answer(FirstIn(Starts(End)))
       [] needle_len = 0 -> Answer(l.from)
       [] needle_len > 1 /\ Starts(LastStart + 1) = {} -> Answer(Null)
       [] OTHER -> LET f == Min(Starts(LastStart + 1)) IN
                   Goto("vhead", [h |-> f + PairAt] @@ l)
  /\ UNCHANGED <<call, mem>>

\* Where the needle is for a pair at h + i, i in bits.
Matches(h, bits) ==
  {h + i - PairAt : i \in
     {i \in bits : /\ At(h + i) = call.ne[PairAt + 1]
                   /\ At(h + i + 1) = call.ne[PairAt + 2]
                   /\ SameAs(call.ne, h + i - PairAt, Same)}}

\* Mutated form: the next vector starts where the first ended, not one pair earlier.
VectorHeadApart ==
  /\ pc = "vhead"
  /\ LET b == AlignDown(l.h)
         m == Matches(l.h, {i \in 0..(Vec - 2) : /\ l.h + i + 1 < b + Vec
                                                 /\ i <= LastStart - (l.h - PairAt)}) IN
     /\ Loads(b)
     /\ IF m # {} THEN Answer(Min(m)) ELSE Goto("vblock", [l EXCEPT !.h = b + Vec])
  /\ UNCHANGED <<call, mem>>

\* The first vector is aligned down, so its last pair is out of reach, and the
\* next one starts there.
VectorHead ==
  /\ pc = "vhead"
  /\ LET b == AlignDown(l.h)
         m == Matches(l.h, {i \in 0..(Vec - 2) : /\ l.h + i + 1 < b + Vec
                                                 /\ i <= LastStart - (l.h - PairAt)}) IN
     /\ Loads(b)
     /\ IF m # {} THEN Answer(Min(m)) ELSE Goto("vblock", [l EXCEPT !.h = b + Vec - 1])
  /\ UNCHANGED <<call, mem>>

VectorBlock ==
  /\ pc = "vblock" /\ l.h - PairAt + Vec <= LastStart
  /\ block' = l.h + 1 /\ bytes' = {l.h}
  /\ LET m == Matches(l.h, 0..(Vec - 1)) IN
     IF m # {} THEN Answer(Min(m)) ELSE Goto("vblock", [l EXCEPT !.h = @ + Vec])
  /\ UNCHANGED <<call, mem>>

\* The last vector has places the needle does not fit in any more.
VectorTail ==
  /\ pc = "vblock" /\ l.h - PairAt + Vec > LastStart
  /\ IF l.h - PairAt <= LastStart
     THEN /\ block' = l.h + 1 /\ bytes' = {l.h}
          /\ Answer(FirstIn(Matches(l.h, 0..(LastStart - (l.h - PairAt)))))
     ELSE ReadsNothing /\ Answer(Null)
  /\ UNCHANGED <<call, mem>>

-----------------------------------------------------------------------------
Init == ObjectInit

Done == pc = "done" /\ UNCHANGED vars

Next ==
  \/ SimdNext
  \/ SearchCall \/ jstr_comp \/ SearchAtOnce \/ SearchTwoWay \/ TwoWayAnswer
  \/ SearchSkip \/ SearchPrefix \/ SearchWord \/ Slide \/ SlidePair
  \/ SearchBackward \/ SlideBack
  \/ VectorStart \/ VectorHead \/ VectorBlock \/ VectorTail
  \/ CompareSuffix \/ OtherOrder \/ CompileEnd
  \/ ExtendEnd \/ MoveByLastByte \/ MovePastMismatch \/ MoveByPeriod
  \/ Done

Spec == Init /\ [][Next]_vars

-----------------------------------------------------------------------------
\* The part of the haystack jstr_memrmem is to search backward in, and whether
\* its length is cut off, so that the search starts too early.
BackwardLen == LastFirst + needle_len - call.s

CutOff ==
  /\ call.op = "memrmem" /\ needle_len >= Word
  /\ LastFirst # Null /\ BackwardLen >= UInt

(***************************************************************************)
(* No search moves past a match: whatever the window, the vector or the    *)
(* word has left behind, by a shift, a period, a skip or a mask, the       *)
(* needle is not there; what a window remembers, it has; and the part of   *)
(* the haystack whose end is known does end in the haystack.  But for one: *)
(* jstr_memrmem leaves behind what an unsigned int cannot measure.         *)
(***************************************************************************)
SkipsNoMatch ==
  /\ pc = "prefix" => \A a \in l.start..(l.from - 1) : ~Occurs(a)
  /\ pc \in {"window", "slide", "pair", "vhead", "vblock"} =>
       LET behind == IF pc \in {"vhead", "vblock"} THEN l.h - PairAt ELSE l.h IN
       \A a \in l.start..(behind - 1) : ~Occurs(a)
  /\ pc = "slideback" /\ ~CutOff => \A a \in (l.h + 1)..End : ~Occurs(a)
  /\ pc = "window" => /\ l.end <= End
                      /\ l.h <= l.end
                      /\ \A i \in 0..(l.memory - 1) : ne(i) = hs(i)
=============================================================================
