---------------------------- MODULE MCJstrInsert ----------------------------
(***************************************************************************)
(* JstrInsert on all short strings over two characters, and what its calls *)
(* are to produce.                                                         *)
(***************************************************************************)
EXTENDS JstrInsert

CONSTANTS a, b, MaxLen

MCChar == {a, b}

MCTexts == UNION {[1..k -> MCChar] : k \in 0..MaxLen}

MCFinds == {<<>>, <<a>>, <<a, a>>, <<a, b>>}

MCSrcs == {<<>>, <<a>>, <<b, a>>}

(* q is the first match in text from index "from" on; 0 when there is none. *)
FirstMatch(text, find, from) ==
  LET at == {q \in from..(Len(text) - Len(find) + 1) :
               SubSeq(text, q, q + Len(find) - 1) = find}
  IN  IF at = {} THEN 0 ELSE CHOOSE q \in at : \A r \in at : q <= r

After(text, find, src, q) ==
  SubSeq(text, 1, q + Len(find) - 1) \o src \o SubSeq(text, q + Len(find), Len(text))

(* text from index "from" on, with src after every match. *)
RECURSIVE AfterAll(_, _, _, _)
AfterAll(text, find, src, from) ==
  LET q == FirstMatch(text, find, from)
  IN  IF q = 0 THEN SubSeq(text, from, Len(text))
      ELSE SubSeq(text, from, q + Len(find) - 1) \o src
             \o AfterAll(text, find, src, q + Len(find))

First == FirstMatch(call.text, call.find, 1)

Found == call.find # <<>> /\ First # 0

Expected ==
  CASE call.op = "insert" -> After(call.text, <<>>, call.src, call.at + 1)
    [] call.op = "insertafter" /\ Found -> After(call.text, call.find, call.src, First)
    [] call.op = "insertafterall" /\ Found -> AfterAll(call.text, call.find, call.src, 1)
    [] call.op = "repeat" /\ call.n > 1 ->
         [k \in 1..(call.n * Len(call.text)) |-> call.text[((k - 1) % Len(call.text)) + 1]]
    [] call.op \in {"place", "placeafter"} -> Prefix(data, size)
    [] OTHER -> call.text

(* A text placed in the string is there, whatever was around it is still    *)
(* there, and the gap it may leave is filled with NULs.                     *)
Places ==
  pc = "done" /\ ret = "SUCC" /\ ~overrun /\ call.op = "place" =>
    /\ \A k \in 1..Len(call.src) : data[call.at + k - 1] = call.src[k]
    /\ \A k \in 0..(size - 1) :
         (k < call.at \/ k >= call.at + Len(call.src)) =>
           data[k] = IF k < Len(call.text) THEN call.text[k + 1] ELSE NUL

(* An insertion, after the first match or all of them, gives the text with  *)
(* the source at exactly these places, a repetition n copies of it, and a   *)
(* text placed changes nothing around it.  What was NUL terminated stays    *)
(* so, and a call that fails leaves the text as it was.                     *)
Produces ==
  /\ EndsWell
  /\ Places
  /\ pc = "done" /\ ret = "SUCC" /\ ~overrun => Prefix(data, size) = Expected

(* The match begins closer to the start of the string than its own length. *)
NearStart == call.op = "placeafter" /\ Found /\ First <= Len(call.find)

(* Calls leave the block in three cases only: a text placed so that it ends *)
(* exactly at the capacity, a text placed "after" a match that begins closer *)
(* to the start than its own length, and the empty string repeated.  The    *)
(* rebuild from the end stays inside and never overwrites what it has still *)
(* to move.                                                                 *)
OverrunsAreKnown ==
  /\ TypeOK
  /\ UnreadIntact
  /\ overrun =>
       \/ call.op \in {"place", "placeafter"} /\ size = alloc
       \/ NearStart
       \/ call.op = "repeat" /\ call.text = <<>>

(* Every call returns, but for one that places so little after a match near *)
(* the start that the wrapped end is above every doubling: it asks           *)
(* jstr_reservealways for a capacity it never reaches.                      *)
Returns ==
  <>(pc = "done" \/ (NearStart /\ First - 1 + Len(call.src) < Len(call.find)))
=============================================================================
