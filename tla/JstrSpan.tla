------------------------------- MODULE JstrSpan -------------------------------
(***************************************************************************)
(* include/replace.h, the calls that replace or remove characters of a set *)
(* in a NUL terminated string: rplcspn, rplcallspn, rmspn, rmallspn,       *)
(* stripspn, rmnchr and rplcnchr, one action per iteration of their loops. *)
(*                                                                         *)
(* They take the size only to save a strlen: where they read on is decided *)
(* by the bytes, so a loop that has moved or overwritten the terminator    *)
(* reads past the end.  i is jstr_internal_inplace_ty, as offsets.         *)
(***************************************************************************)
EXTENDS JstrMem, FiniteSets

CONSTANTS
  Texts,    (* the strings the calls work on *)
  Counts    (* how many characters the counting calls are to treat *)

ASSUME TextsAssumption == Texts \subseteq Seq(Char)
ASSUME CountsAssumption == Counts \subseteq Nat

VARIABLES
  data,     (* the block *)
  size,     (* jstr_ty.size *)
  call,     (* the call: its operation, arguments and the string it was given *)
  pc,       (* "entry", "loop" or "done" *)
  i,        (* jstr_internal_inplace_ty *)
  n,        (* characters left to treat *)
  changed,  (* characters treated *)
  ret       (* what the call returned *)

vars == <<data, size, call, pc, i, n, changed, ret>>

(* "strip" is stripspn; the last two are limited by a count. *)
Ops == {"rplcspn", "rplcallspn", "rmspn", "rmallspn", "strip", "rmnchr", "rplcnchr"}

Counting == {"rmnchr", "rplcnchr"}

At(p) == [dst |-> p, src |-> p, src_e |-> p]

(* A terminated string with one indeterminate byte after it, and a call; the *)
(* index the call starts from is within the string.                         *)
Init ==
  /\ \E text \in Texts :
       /\ size = Len(text)
       /\ data = StrCpy([k \in 0..(Len(text) + 1) |-> Junk], 0, text)
       /\ \E op \in Ops, start \in 0..Len(text), reject \in SUBSET Char,
             rplc \in Char, cnt \in Counts :
            /\ op \in {"rplcspn", "rplcnchr"} => start = 0
            /\ op \notin {"rplcspn", "rplcallspn", "rplcnchr"} => rplc = CHOOSE x \in Char : TRUE
            /\ op \in Counting => \E c \in Char : reject = {c}
            /\ op \notin Counting => cnt = 0
            /\ call = [op |-> op, start |-> start, reject |-> reject, rplc |-> rplc,
                       n |-> cnt, text |-> text]
            /\ n = cnt
            /\ i = At(start)
  /\ pc = "entry"
  /\ changed = 0
  /\ ret = 0

(* q is where the first byte of the set S, or the terminator, is. *)
FirstOf(q, from, S) ==
  Leftmost(q, {k \in DOMAIN data : k >= from /\ data[k] \in S \cup {NUL}})

(* p + strcspn(p, reject), jstr_strchrnul(p, c) *)
CSpan(q, from) == FirstOf(q, from, call.reject)

(* Mutated form: one byte too far. *)
SpanOneMore(q, from) == q # from /\ FirstOf(q - 1, from, (Byte \ {NUL}) \ call.reject)

(* p + strspn(p, reject) *)
Span(q, from) == FirstOf(q, from, (Byte \ {NUL}) \ call.reject)

(* [q, e) is the next group of reject. *)
Group(q, e, from) == CSpan(q, from) /\ data[q] # NUL /\ Span(e, q)

(* Mutated form: the search starts over. *)
NoneBeforeFromStart(q, from) == CSpan(q, 0) /\ data[q] = NUL

(* q is the end of the string, and there is no reject before. *)
NoneBefore(q, from) == CSpan(q, from) /\ data[q] = NUL

Running(ops) == call.op \in ops /\ pc \in {"entry", "loop"}

Entry(ops) == call.op \in ops /\ pc = "entry"

Loop(ops) == call.op \in ops /\ pc = "loop"

Done(r) == pc' = "done" /\ ret' = r

Nothing ==
  /\ Done(0)
  /\ UNCHANGED <<data, size, call, i, n, changed>>

(* All but rplcspn, strip and rplcnchr refuse to start at the end. *)
AtEnd ==
  /\ Entry({"rplcallspn", "rmspn", "rmallspn", "rmnchr"})
  /\ call.start >= size
  /\ Nothing

Started == pc = "entry" /\ (call.op \in {"rplcspn", "strip", "rplcnchr"} \/ call.start < size)

RplcSpn ==
  /\ Entry({"rplcspn"})
  /\ \/ \E q \in DOMAIN data : NoneBefore(q, 0) /\ Nothing
     \/ \E q, e \in DOMAIN data :
          /\ Group(q, e, 0)
          /\ data' = Fill(data, q, call.rplc, e - q)
          /\ Done(e - q)
          /\ UNCHANGED <<size, call, i, n, changed>>

RplcAllSpn ==
  /\ Running({"rplcallspn"})
  /\ pc = "entry" => Started
  /\ \/ \E q, e \in DOMAIN data :
          /\ Group(q, e, i.src_e)
          /\ data' = Fill(data, q, call.rplc, e - q)
          /\ i' = [i EXCEPT !.src_e = e]
          /\ changed' = changed + (e - q)
          /\ pc' = "loop"
          /\ UNCHANGED <<size, ret>>
     \/ \E q \in DOMAIN data :
          /\ NoneBefore(q, i.src_e)
          /\ size' = q
          /\ Done(changed)
          /\ UNCHANGED <<data, i, changed>>
  /\ UNCHANGED <<call, n>>

(* jstr_rmspn_from, jstr_rmspn_len_from *)
RmSpn ==
  /\ Entry({"rmspn"})
  /\ Started
  /\ \/ \E q \in DOMAIN data : NoneBefore(q, i.src_e) /\ size' = q /\ Done(0) /\ UNCHANGED data
     \/ \E q, e \in DOMAIN data :
          /\ Group(q, e, i.src_e)
          /\ data' = StrMove(data, q, e, size - e)
          /\ size' = size - (e - q)
          /\ Done(e - q)
  /\ UNCHANGED <<call, i, n, changed>>

RmAllSpnNothing ==
  /\ Entry({"rmallspn"})
  /\ Started
  /\ \E q \in DOMAIN data : NoneBefore(q, i.src_e)
  /\ Nothing

(* The text before the first group stays where it is. *)
RmAllSpn ==
  /\ Running({"rmallspn"})
  /\ pc = "entry" => Started
  /\ \E q, e \in DOMAIN data :
       LET j == q - i.src
       IN  /\ Group(q, e, i.src_e)
           /\ data' = IF pc = "entry" THEN data ELSE Move(data, i.dst, i.src, j)
           /\ i' = [dst |-> i.dst + j, src |-> e, src_e |-> e]
           /\ changed' = changed + (e - q)
  /\ pc' = "loop"
  /\ UNCHANGED <<size, call, n, ret>>

RmAllSpnEnd ==
  /\ Loop({"rmallspn"})
  /\ \E q \in DOMAIN data :
       /\ NoneBefore(q, i.src_e)
       /\ data' = StrMove(data, i.dst, i.src, q - i.src)
       /\ size' = i.dst + (q - i.src)
  /\ Done(changed)
  /\ UNCHANGED <<call, i, n, changed>>

(* jstr_stripspn_from, and jstr_rmnchr_from of n characters. *)
Strip ==
  /\ Running({"strip", "rmnchr"})
  /\ pc = "entry" => Started
  /\ call.op = "rmnchr" => n # 0
  /\ \E q \in DOMAIN data :
       LET j == q - i.src
       IN  /\ CSpan(q, i.src_e)
           /\ data[q] # NUL
           /\ data' = IF pc = "entry" THEN data ELSE Move(data, i.dst, i.src, j)
           /\ i' = [dst |-> i.dst + j, src |-> q + 1, src_e |-> q + 1]
  /\ n' = IF call.op = "rmnchr" THEN n - 1 ELSE n
  /\ changed' = changed + 1
  /\ pc' = "loop"
  /\ UNCHANGED <<size, call, ret>>

StripNone ==
  \/ call.op = "rmnchr" /\ n = 0
  \/ \E q \in DOMAIN data : NoneBefore(q, i.src_e)

StripNothing ==
  /\ Entry({"strip", "rmnchr"})
  /\ Started
  /\ StripNone
  /\ Nothing

StripEnd ==
  /\ Loop({"strip", "rmnchr"})
  /\ StripNone
  /\ data' = StrMove(data, i.dst, i.src, size - i.src)
  /\ size' = i.dst + (size - i.src)
  /\ Done(changed)
  /\ UNCHANGED <<call, i, n, changed>>

(* jstr_rplcnchr, jstr_rplcallchr *)
RplcNChr ==
  /\ Running({"rplcnchr"})
  /\ \/ /\ n # 0
        /\ \E q \in DOMAIN data :
             /\ CSpan(q, i.src_e)
             /\ data[q] # NUL
             /\ data' = Fill(data, q, call.rplc, 1)
             /\ i' = [i EXCEPT !.src_e = q + 1]
        /\ n' = n - 1
        /\ changed' = changed + 1
        /\ pc' = "loop"
        /\ UNCHANGED ret
     \/ /\ n = 0 \/ \E q \in DOMAIN data : NoneBefore(q, i.src_e)
        /\ Done(changed)
        /\ UNCHANGED <<data, i, n, changed>>
  /\ UNCHANGED <<size, call>>

Next ==
  \/ AtEnd
  \/ RplcSpn \/ RplcAllSpn
  \/ RmSpn \/ RmAllSpnNothing \/ RmAllSpn \/ RmAllSpnEnd
  \/ StripNothing \/ Strip \/ StripEnd
  \/ RplcNChr

(* The loops run: nothing but the call itself can delay it. *)
Spec == Init /\ [][Next]_vars /\ WF_vars(Next)

(***************************************************************************)
(* Properties.                                                             *)
(***************************************************************************)

TypeOK ==
  /\ size \in Nat
  /\ data \in Block(Len(call.text) + 2)
  /\ pc \in {"entry", "loop", "done"}
  /\ i \in [dst : Nat, src : Nat, src_e : Nat]
  /\ {n, changed, ret} \subseteq Nat

(* A loop never overwrites what it has still to read, the terminator that   *)
(* stops it least of all: text and terminator from i.src_e on are as given. *)
UnreadIntact ==
  pc = "loop" =>
    /\ i.dst <= i.src /\ i.src <= i.src_e /\ i.src_e <= Len(call.text)
    /\ data[Len(call.text)] = NUL
    /\ \A k \in (i.src_e + 1)..Len(call.text) : data[k - 1] = call.text[k]

(* When a call returns, the size it leaves is the length of the string, and *)
(* a removal has returned the number of characters it removed.              *)
SizeIsLength ==
  pc = "done" =>
    /\ \E q \in DOMAIN data : FirstOf(q, 0, {}) /\ size = q
    /\ call.op \in {"rmspn", "rmallspn", "strip", "rmnchr"} =>
         ret = Len(call.text) - size

(* The places, in the text, of the rejected characters the call sees. *)
Hits == {k \in (call.start + 1)..Len(call.text) : call.text[k] \in call.reject}

(* Those it is to treat: all, those of the first group, or the first n. *)
Treated ==
  CASE call.op \in {"rplcspn", "rmspn"} ->
         {k \in Hits : \A p, q \in Hits : p <= q /\ q <= k => p..q \subseteq Hits}
    [] call.op \in Counting -> {k \in Hits : Cardinality({q \in Hits : q <= k}) <= call.n}
    [] OTHER -> Hits

Replaced ==
  [k \in 1..Len(call.text) |-> IF k \in Treated THEN call.rplc ELSE call.text[k]]

(* The characters that stay, in order. *)
Kept ==
  LET kept == (1..Len(call.text)) \ Treated
      place(m) == CHOOSE k \in kept : Cardinality({q \in kept : q <= k}) = m
  IN  [m \in 1..Cardinality(kept) |-> call.text[place(m)]]

(* Exactly the characters to treat are replaced or removed, wherever they   *)
(* stand, and the others keep their order.  On the way the loop never       *)
(* overwrites what it has still to read, the terminator least of all.       *)
TreatsExactly ==
  /\ TypeOK
  /\ UnreadIntact
  /\ pc = "done" =>
       /\ Prefix(data, size) =
            IF call.op \in {"rplcspn", "rplcallspn", "rplcnchr"} THEN Replaced ELSE Kept
       /\ ret = Cardinality(Treated)

(* Every call returns. *)
Returns == <>(pc = "done")
==============================================================================
