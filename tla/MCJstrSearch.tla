---------------------------- MODULE MCJstrSearch ----------------------------
(***************************************************************************)
(* The searches with vectors of four bytes, words of three, and objects at *)
(* every alignment with misleading bytes around them, against what each    *)
(* search is to find.                                                      *)
(***************************************************************************)
EXTENDS JstrSearch

MCNull == -1

a == 97
A == 65
b == 98
x == 120

Addresses == 8..11

Strings(alphabet, lengths) == UNION {[1..n -> alphabet] : n \in lengths}

\* Strings of x with at most two other characters.
Sparse(alphabet, lengths) ==
  UNION {{[i \in 1..n |-> CASE i = p -> u [] i = q /\ q # p -> v [] OTHER -> x] :
            p \in 0..n, q \in 0..n, u \in alphabet, v \in alphabet} : n \in lengths}

Family(ops, string, texts, needles) ==
  [ops |-> ops, at |-> {8}, string |-> string, texts |-> texts, lengths |-> {},
   c |-> a, needles |-> needles, around |-> {a}]

\* The same, at every alignment and with misleading or harmless bytes around.
Anywhere(f) == [f EXCEPT !.at = Addresses, !.around = {Nul, a}]

\* The neighbours of the letters, and bytes that are negative as signed ones.
Edges == <<64, 65, 90, 91, 96, 97, 122, 123, 193, 225, 255>>

Parts(n) == {SubSeq(Edges, i, j) : i \in 1..4, j \in n..11}

Letters == {a, b}

BothCases == {a, A, b}

Digits == {48, 49}

MCCalls ==
  {Anywhere(Family({"strchrnul", "strcasechrnul", "countchr", "stpcpy"}, TRUE,
                   Sparse({a, A}, {0, 2, 4, 9}), {<<>>})),
   [Anywhere(Family({"strnchr", "strncasechr"}, TRUE, Sparse({a, A}, {0, 3, 9}), {<<>>}))
      EXCEPT !.lengths = {0, 2, 5, 9}],
   Anywhere(Family({"memcasechr", "memrchr", "countchr_len"}, FALSE,
                   Sparse({a, A}, {0, 2, 4, 9}), {<<>>})),
   Anywhere(Family({"tolowerstr_p", "toupperstr_p"}, TRUE, Parts(4), {<<>>})),
   Anywhere(Family({"tolowerstr_len", "toupperstr_len"}, FALSE, Parts(3), {<<>>})),
   Anywhere(Family({"memmem"}, FALSE, Strings(Letters, {3, 8}), Strings(Letters, 0..4))),
   Family({"memmem_exec"}, FALSE, Strings(Letters, {4, 8}), Strings(Letters, {2, 5})),
   Family({"memrmem"}, FALSE, Strings(Letters, {0, 1, 3, 5, 6}), Strings(Letters, 0..4)),
   [Family({"memrmem"}, FALSE, Strings(Letters, {7, 10}), Strings(Letters, {3}))
      EXCEPT !.around = {x, a}],
   Family({"count_len"}, FALSE, Strings(Letters, {5, 7}), Strings(Letters, {0, 1, 2, 5})),
   Family({"strcasestr_len", "strcasestr_len_exec"}, FALSE,
          Strings(BothCases, {0, 1, 5}), Strings(Letters, 0..4)),
   Family({"memmem", "strcasestr_len"}, FALSE, Strings(Digits, {6}), Strings(Digits, {5})),
   Family({"strcasestr", "strcasestr_exec"}, TRUE,
          Strings(BothCases, {0, 1, 2, 5}), Strings(Letters, 0..4)),
   Family({"strcasestr"}, TRUE, Strings(Digits, {3}), Strings(Digits, {0, 2})),
   Anywhere(Family({"strcasestr_exec"}, TRUE, {<<>>}, Strings(Letters, {2}))),
   Family({"strstr_exec", "count"}, TRUE, Strings(Letters, {0, 6, 8}),
          Strings(Letters, {0, 1, 2, 5}))}

-----------------------------------------------------------------------------
(* What each call is to find.                                              *)

\* The addresses of the string the call looks at, without the terminator.
Here == call.s .. (End - 1)

\* The string before the terminator and before the length of the call.
Prefix == {i \in Here : \A j \in call.s..i : At(j) # Nul}

Is(i, f(_)) == f(At(i)) = f(call.c)

RECURSIVE MatchesFrom(_)
MatchesFrom(i) ==
  CASE i + needle_len > End -> 0
    [] Occurs(i) -> 1 + MatchesFrom(i + needle_len)
    [] OTHER -> MatchesFrom(i + 1)

OrEnd(r, e) == IF r = Null THEN e ELSE r

\* jstr_strnchr and jstr_strncasechr return a terminator they meet before the
\* length, where the character is not: NULL in the version without vectors.
NotFoundBefore == IF Prefix = Here THEN Null ELSE call.s + Cardinality(Prefix)

Found ==
  CASE call.op = "strchrnul" -> OrEnd(FirstIn({i \in Here : Is(i, Same)}), End)
    [] call.op = "strcasechrnul" -> OrEnd(FirstIn({i \in Here : Is(i, ToLower)}), End)
    [] call.op = "strnchr" -> OrEnd(FirstIn({i \in Prefix : Is(i, Same)}), NotFoundBefore)
    [] call.op = "strncasechr" ->
         OrEnd(FirstIn({i \in Prefix : Is(i, ToLower)}), NotFoundBefore)
    [] call.op = "memcasechr" -> FirstIn({i \in Here : Is(i, ToLower)})
    [] call.op = "memrchr" -> LastIn({i \in Here : Is(i, Same)})
    [] call.op \in {"countchr", "countchr_len"} -> Cardinality({i \in Here : Is(i, Same)})
    [] call.op = "stpcpy" -> call.text
    [] call.op \in {"tolowerstr_p", "toupperstr_p"} -> call.s + Len(call.text) - 1
    [] call.op \in {"tolowerstr_len", "toupperstr_len"} -> End
    [] call.op = "memrmem" -> LastIn({i \in call.s..End : Occurs(i)})
    [] call.op \in Counting -> IF needle_len = 0 THEN 0 ELSE MatchesFrom(call.s)
    [] OTHER -> FirstIn({i \in call.s..End : Occurs(i)})

Bytes(f(_)) == [i \in DOMAIN call.text |-> f(call.text[i])]

Text ==
  CASE call.op \in {"tolowerstr_p", "tolowerstr_len"} -> Bytes(ToLower)
    [] call.op \in {"toupperstr_p", "toupperstr_len"} -> Bytes(ToUpper)
    [] OTHER -> call.text

-----------------------------------------------------------------------------
(* The two searches that leave the object.                                 *)

\* jstr_strcasestr_exec with a needle of two steps over the terminator of an
\* empty string and goes on to the next one.
PastEmpty ==
  call.op = "strcasestr_exec" /\ needle_len = 2 /\ call.text = <<Nul>>

NextNul == Min({i \in (End + 1)..(End + 1 + Reach) : At(i) = Nul})

FoundPast == FirstIn({i \in End..(NextNul - 1) : SameAs(call.ne, i, Canon)})

\* jstr_memrmem with a needle of a word or more, in a haystack longer than an
\* unsigned int can say, looks at the beginning that the rest of the length
\* leaves; when that is shorter than the needle, at what lies before the
\* haystack, as far as an unsigned int reaches.
Kept == BackwardLen % UInt

FirstKept == IF Kept < needle_len THEN call.s - UInt ELSE call.s

FoundKept ==
  LastIn({i \in FirstKept..(call.s + Kept - needle_len) : SameAs(call.ne, i, Same)})

(***************************************************************************)
(* A search returns the first, the last or the number of what it looks     *)
(* for, whichever algorithm it has chosen and however the object lies in   *)
(* memory; a conversion changes every letter and nothing else.  But for    *)
(* two, which can also return what is not in the object: the search for    *)
(* two characters in an empty string and the search backward in a haystack *)
(* whose length is cut off.                                                *)
(***************************************************************************)
Finds ==
  pc = "done" => /\ ret = CASE PastEmpty -> FoundPast
                            [] CutOff -> FoundKept
                            [] OTHER -> Found
                 /\ mem = Text

(***************************************************************************)
(* No vector is loaded, and no byte read, apart from the object, but for   *)
(* three: jstr_memrchr that does not find its character in an aligned      *)
(* object loads the vector before it, jstr_strcasestr_exec with a needle   *)
(* of two reads from the terminator of an empty string up to the next NUL, *)
(* and jstr_memrmem reads before a haystack whose length is cut off to     *)
(* less than the needle.                                                   *)
(***************************************************************************)
TouchesObject ==
  \/ Touches
  \/ call.op = "memrchr" /\ block + Vec = call.s
  \/ PastEmpty /\ bytes \subseteq End..NextNul
  \/ CutOff /\ Kept < needle_len /\ bytes \subseteq FirstKept..(call.s + Kept - 1)
=============================================================================
