---------------------------- MODULE MCJstrReplace ----------------------------
(* JstrReplace on every string of up to MaxLen of two characters, against a *)
(* reference definition of replacement.                                      *)
EXTENDS JstrReplace

CONSTANTS a, b, MaxLen

MCChar == {a, b}
StringsUpTo(k) == UNION {[1..m -> MCChar] : m \in 0..k}
MCTexts == StringsUpTo(MaxLen)
MCFinds == StringsUpTo(2) \cup {<<a, b, a>>}
MCRplcs == {<<>>, <<b>>, <<a, b>>, <<a, a, b>>}

(* The first match of find in str at or after from, or 0. *)
NextMatch(str, from, find) ==
  LET found == {p \in from..(Len(str) - Len(find) + 1) :
                  SubSeq(str, p, p + Len(find) - 1) = find}
  IN  IF found = {} THEN 0 ELSE CHOOSE p \in found : \A q \in found : p <= q

LastMatch(str, find) ==
  LET found == {p \in 1..(Len(str) - Len(find) + 1) :
                  SubSeq(str, p, p + Len(find) - 1) = find}
  IN  IF found = {} THEN 0 ELSE CHOOSE p \in found : \A q \in found : p >= q

(* str with the first k matches of find from the position from on replaced, *)
(* left to right, none of them in text a replacement has produced.          *)
RECURSIVE Replaced(_, _, _, _, _)
Replaced(str, from, find, rplc, k) ==
  LET p == NextMatch(str, from, find)
  IN  IF k = 0 \/ find = <<>> \/ p = 0
      THEN [str |-> str, count |-> 0]
      ELSE LET rest == Replaced(SubSeq(str, p + Len(find), Len(str)), 1,
                                find, rplc, k - 1)
           IN  [str |-> SubSeq(str, 1, p - 1) \o rplc \o rest.str,
                count |-> rest.count + 1]

ReplacedLast(str, find, rplc) ==
  LET p == LastMatch(str, find)
  IN  IF p = 0 THEN [str |-> str, count |-> 0]
      ELSE [str |-> SubSeq(str, 1, p - 1) \o rplc
                      \o SubSeq(str, p + Len(find), Len(str)),
            count |-> 1]

Reference ==
  IF call.op \in {"rmlast", "rplclast"}
  THEN IF call.op = "rmlast" /\ call.text = <<>>
       THEN [str |-> <<>>, count |-> 0]
       ELSE ReplacedLast(call.text, call.find, call.rplc)
  ELSE Replaced(call.text, call.start + 1, call.find, call.rplc, call.n)

(* What the loop has written so far, with the matches left in the text it   *)
(* has not read replaced, is the result; and the result, and the number the *)
(* call returns, are also those of a definition that goes by the rest of    *)
(* the text instead of by the matches before it.                            *)
LoopInvariant ==
  /\ pc \in {"rm", "inplace", "search"} =>
       LET unread == [k \in 1..(end - i.src) |-> data[i.src + k - 1]]
       IN  Prefix(data, i.dst) \o Replaced(unread, 1, call.find, call.rplc, n).str
             = Reference.str
  /\ (pc = "done" /\ ret # Error) => Prefix(data, size) = Reference.str /\ ret = Reference.count
==============================================================================
