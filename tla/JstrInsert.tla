------------------------------ MODULE JstrInsert ------------------------------
(***************************************************************************)
(* include/replace.h, inserting and placing, and jstr_repeat_len: one call *)
(* on one string, and the loops of the insertafterall calls (count the     *)
(* matches, grow once, rebuild from the end), one action per iteration.    *)
(*                                                                         *)
(* An offset computed with JSTR_DIFF is a size_t: it wraps at Word.  Any   *)
(* access outside the block sets "overrun"; what the program does after it *)
(* is undefined, and no property speaks of it.                             *)
(***************************************************************************)
EXTENDS JstrMem

CONSTANTS
  Texts,   (* the strings the calls work on *)
  Finds,   (* what they look for *)
  Srcs,    (* what they insert *)
  Slacks,  (* bound: how many bytes more than needed a string's block has *)
  MaxN,    (* bound: largest repeat count *)
  MaxGap,  (* bound: how far past the end of the string a text is placed *)
  Word     (* SIZE_MAX + 1 *)

ASSUME TextsAssumption == Texts \cup Finds \cup Srcs \subseteq Seq(Char)
ASSUME LimitsAssumption ==
  /\ Slacks \subseteq Nat
  /\ MaxN \in Nat
  /\ MaxGap \in Nat
  /\ Word \in Nat
  /\ Word > MaxCap

VARIABLES
  data,       (* the block *)
  alloc,      (* its true size in bytes *)
  size,       (* jstr_ty.size *)
  capacity,   (* jstr_ty.capacity *)
  call,       (* the call: its operation, arguments and the string it was given *)
  pc,         (* where the call is *)
  p,          (* where the search for the next match goes on *)
  cnt,        (* matches counted *)
  offs,       (* the offsets recorded in the array of cnt elements *)
  rd,         (* the end of the text not yet moved *)
  wr,         (* the start of what has been written; in jstr_repeat_len its end *)
  ret,        (* what the call returned *)
  overrun     (* it has accessed memory outside the block or the array *)

string == <<data, alloc, size, capacity>>
loop == <<p, cnt, offs, rd, wr>>
vars == <<string, call, pc, loop, ret, overrun>>

Rets == {"SUCC", "ERR"}

Ops == {"insert", "insertafter", "insertafterall", "place", "placeafter", "repeat"}

(* A terminated string in a block, or the zero-initialized string, or one   *)
(* for which space was reserved and nothing written yet.                    *)
Strings ==
  {[text |-> text, terminated |-> TRUE, alloc |-> Len(text) + 1 + slack] :
     text \in Texts, slack \in Slacks}
  \cup {[text |-> <<>>, terminated |-> FALSE, alloc |-> a] : a \in {0, MinCap}}

(* "at" is used by insert and place, "n" by repeat. *)
Init ==
  /\ \E s \in Strings :
       /\ size = Len(s.text)
       /\ alloc = s.alloc
       /\ capacity = s.alloc
       /\ data = LET block == [k \in 0..(s.alloc - 1) |-> Junk]
                 IN  IF s.terminated THEN StrCpy(block, 0, s.text) ELSE block
       /\ \E op \in Ops, find \in Finds, src \in Srcs,
             at \in 0..(Len(s.text) + MaxGap), n \in 0..MaxN :
            /\ op \in {"insert", "place", "repeat"} => find = <<>>
            /\ op = "insert" => at <= Len(s.text)
            /\ op \notin {"insert", "place"} => at = 0
            /\ op = "repeat" => src = <<>>
            /\ op # "repeat" => n = 0
            /\ call = [op |-> op, at |-> at, find |-> find, src |-> src, n |-> n,
                       text |-> s.text, terminated |-> s.terminated]
  /\ pc = "entry"
  /\ p = 0 /\ cnt = 0 /\ offs = <<>> /\ rd = 0 /\ wr = 0
  /\ ret = "SUCC"
  /\ overrun = FALSE

src_len == Len(call.src)
find_len == Len(call.find)

Buffer == [data |-> data, alloc |-> alloc, cap |-> capacity]

(* q is the leftmost match within the bytes from..(to - 1). *)
MemMem(q, from, to) == Leftmost(q, Matches(data, call.find, from, to))

(* Mutated form: the search starts over. *)
NoMatchFromStart(from, to) == Matches(data, call.find, 0, to) = {}

NoMatch(from, to) == Matches(data, call.find, from, to) = {}

(* The call returns, having left d in b and touched extent bytes of it. *)
Return(b, d, sz, extent) ==
  /\ data' = d
  /\ alloc' = b.alloc
  /\ capacity' = b.cap
  /\ size' = sz
  /\ overrun' = (overrun \/ extent > b.alloc)
  /\ pc' = "done"
  /\ ret' = "SUCC"

Unchanged(r) ==
  /\ pc' = "done"
  /\ ret' = r
  /\ UNCHANGED <<string, overrun>>

Entry(op) == pc = "entry" /\ call.op = op

(***************************************************************************)
(* Inserting once.                                                         *)
(***************************************************************************)

(* The move takes along the byte at the end, terminator or not. *)
InsertAt(at) ==
  LET need == size + src_len + 1
  IN  \/ \E b \in Reserved(Buffer, need) :
           Return(b, Copy(Move(b.data, at + src_len, at, size - at + 1), at, call.src),
                  need - 1, need)
      \/ ReserveFails(Buffer, need) /\ Unchanged("ERR")

Insert ==
  /\ Entry("insert")
  /\ InsertAt(call.at)
  /\ UNCHANGED <<call, loop>>

(* jstr_insertafter_len, and jstr_insertafterchr_len for one character. *)
InsertAfter ==
  /\ Entry("insertafter")
  /\ \/ (find_len = 0 \/ NoMatch(0, size)) /\ Unchanged("SUCC")
     \/ find_len # 0 /\ \E q \in 0..size : MemMem(q, 0, size) /\ InsertAt(q + find_len)
  /\ UNCHANGED <<call, loop>>

(***************************************************************************)
(* Inserting after every match.                                            *)
(***************************************************************************)

(* jstr_insertafterallchr_len also gives up at once when it inserts nothing. *)
AllNothing ==
  /\ Entry("insertafterall")
  /\ \/ find_len = 0
     \/ find_len = 1 /\ src_len = 0
     \/ NoMatch(0, size)
  /\ Unchanged("SUCC")
  /\ UNCHANGED <<call, loop>>

AllCount ==
  /\ \/ /\ Entry("insertafterall")
        /\ find_len # 0
        /\ ~(find_len = 1 /\ src_len = 0)
     \/ pc = "count"
  /\ \E q \in 0..size : MemMem(q, p, size) /\ p' = q + find_len
  /\ cnt' = cnt + 1
  /\ pc' = "count"
  /\ UNCHANGED <<string, call, offs, rd, wr, ret, overrun>>

(* Mutated form: one match too few is counted in. *)
new_size_short == size + (cnt - 1) * src_len

new_size == size + cnt * src_len

(* Grow exactly once. *)
AllGrow ==
  /\ pc = "count"
  /\ NoMatch(p, size)
  /\ \/ \E b \in ReservedAlways(Buffer, new_size + 1) :
          /\ data' = b.data
          /\ alloc' = b.alloc
          /\ capacity' = b.cap
          /\ rd' = size
          /\ wr' = new_size
          /\ p' = 0
          /\ pc' = IF find_len = 1 THEN "rebuild" ELSE "offsets"
          /\ UNCHANGED <<size, ret, overrun>>
     \/ Unchanged("ERR") /\ UNCHANGED <<rd, wr, p>>
  /\ UNCHANGED <<call, cnt, offs>>

(* The array of offsets may not be had: the string has been grown by then. *)
AllNoOffsets ==
  /\ pc = "offsets"
  /\ offs = <<>>
  /\ Unchanged("ERR")
  /\ UNCHANGED <<call, loop>>

AllRecord ==
  /\ pc = "offsets"
  /\ \/ /\ \E q \in 0..size :
             MemMem(q, p, size) /\ offs' = Append(offs, q) /\ p' = q + find_len
        /\ overrun' = (overrun \/ Len(offs) >= cnt)
        /\ UNCHANGED pc
     \/ /\ NoMatch(p, size)
        /\ pc' = "rebuild"
        /\ UNCHANGED <<offs, p, overrun>>
  /\ UNCHANGED <<string, call, cnt, rd, wr, ret>>

(* Mutated form: a single character is searched for from the start. *)
NextFromStart(pos) ==
  IF find_len = 1
  THEN Leftmost(pos, Matches(data, call.find, 0, rd))
  ELSE offs # <<>> /\ pos = offs[Len(offs)]

(* pos is where the next match from the end is: the last recorded offset,   *)
(* or, for a single character, what jstr_memrchr finds in what is left.     *)
NextFromEnd(pos) ==
  IF find_len = 1
  THEN Rightmost(pos, Matches(data, call.find, 0, rd))
  ELSE offs # <<>> /\ pos = offs[Len(offs)]

AllRebuild ==
  /\ pc = "rebuild"
  /\ \E pos \in 0..size :
       LET seg == rd - (pos + find_len)
           at_src == wr - seg - src_len
           moved == Move(data, wr - seg, pos + find_len, seg)
       IN  /\ NextFromEnd(pos)
           /\ data' = Move(Copy(moved, at_src, call.src), at_src - find_len, pos, find_len)
           /\ wr' = at_src - find_len
           /\ rd' = pos
           /\ overrun' = (overrun \/ wr > alloc \/ wr' < 0)
  /\ offs' = IF find_len = 1 THEN offs ELSE SubSeq(offs, 1, Len(offs) - 1)
  /\ UNCHANGED <<alloc, size, capacity, call, pc, p, cnt, ret>>

AllEnd ==
  /\ pc = "rebuild"
  /\ IF find_len = 1 THEN NoMatch(0, rd) ELSE offs = <<>>
  /\ Return(Buffer, Fill(data, new_size, NUL, 1), new_size, new_size + 1)
  /\ UNCHANGED <<call, loop>>

(***************************************************************************)
(* Placing: the text overwrites what is there.                             *)
(***************************************************************************)

(* Space is reserved for the text, not for the terminator. *)
PlaceAt(at) ==
  LET e == (at + src_len) % Word
      placed(d) == Copy(d, at, call.src)
  IN  \/ e <= size /\ Return(Buffer, placed(data), size, at + src_len)
      \/ /\ e > size
         /\ \E b \in ReservedAlways(Buffer, e) :
              Return(b,
                     placed(Fill(Fill(b.data, e, NUL, 1), size, NUL,
                                 IF at > size THEN at - size ELSE 0)),
                     e,
                     IF at < e + 1 THEN e + 1 ELSE at + src_len)
      \/ e > size /\ e <= MaxCap /\ Unchanged("ERR")

Place ==
  /\ Entry("place")
  /\ PlaceAt(call.at)
  /\ UNCHANGED <<call, loop>>

(* JSTR_DIFF(p, *s + find_len): the match less its length, as a size_t. *)
PlaceAfterIndex(q) == (q - find_len) % Word

(* jstr_placeafter_len, and jstr_placeafterchr_len for one character.  An   *)
(* end that no capacity reaches is not asked of jstr_reservealways here:    *)
(* JstrReserve shows that it never returns.                                 *)
PlaceAfter ==
  /\ Entry("placeafter")
  /\ \/ (find_len = 0 \/ NoMatch(0, size)) /\ Unchanged("SUCC")
     \/ /\ find_len # 0
        /\ \E q \in 0..size : MemMem(q, 0, size) /\ PlaceAt(PlaceAfterIndex(q))
  /\ UNCHANGED <<call, loop>>

(***************************************************************************)
(* Repeating.                                                              *)
(***************************************************************************)

total == call.n * Len(call.text)

RepeatOnce ==
  /\ Entry("repeat")
  /\ call.n <= 1
  /\ Unchanged("SUCC")
  /\ UNCHANGED <<call, loop>>

Repeat ==
  /\ Entry("repeat")
  /\ call.n > 1
  /\ \/ \E b \in Reserved(Buffer, total + 1) :
          /\ alloc' = b.alloc
          /\ capacity' = b.cap
          /\ pc' = "repeat"
          /\ IF size > 1
             THEN /\ data' = b.data
                  /\ wr' = size
                  /\ UNCHANGED overrun
             ELSE /\ data' = Fill(b.data, 0, b.data[0], call.n)
                  /\ wr' = total
                  /\ overrun' = (call.n > b.alloc)
          /\ UNCHANGED <<size, ret>>
     \/ ReserveFails(Buffer, total + 1) /\ Unchanged("ERR") /\ UNCHANGED wr
  /\ UNCHANGED <<call, p, cnt, offs, rd>>

RepeatCopy ==
  /\ pc = "repeat"
  /\ wr < total
  /\ LET to_copy == IF size > total - wr THEN total - wr ELSE size
     IN  /\ data' = Move(data, wr, 0, to_copy)
         /\ wr' = wr + to_copy
         /\ overrun' = (overrun \/ wr + to_copy > alloc)
  /\ UNCHANGED <<alloc, size, capacity, call, pc, p, cnt, offs, rd, ret>>

RepeatEnd ==
  /\ pc = "repeat"
  /\ wr = total
  /\ Return(Buffer, Fill(data, wr, NUL, 1), wr, wr + 1)
  /\ UNCHANGED <<call, loop>>

Next ==
  \/ Insert \/ InsertAfter
  \/ AllNothing \/ AllCount \/ AllGrow \/ AllNoOffsets \/ AllRecord
  \/ AllRebuild \/ AllEnd
  \/ Place \/ PlaceAfter
  \/ RepeatOnce \/ Repeat \/ RepeatCopy \/ RepeatEnd

(* The loops run: nothing but the call itself can delay it. *)
Spec == Init /\ [][Next]_vars /\ WF_vars(Next)

(***************************************************************************)
(* Properties.                                                             *)
(***************************************************************************)

TypeOK ==
  /\ alloc \in Nat /\ size \in Nat /\ capacity = alloc
  /\ data \in Block(alloc)
  /\ pc \in {"entry", "count", "offsets", "rebuild", "repeat", "done"}
  /\ {p, cnt, rd, wr} \subseteq Nat
  /\ offs \in Seq(Nat)
  /\ ret \in Rets
  /\ overrun \in BOOLEAN

(* The rebuild from the end never overwrites text it has still to move, and *)
(* the gap between the two is what is left to insert.                       *)
UnreadIntact ==
  pc = "rebuild" =>
    /\ Prefix(data, rd) = SubSeq(call.text, 1, rd)
    /\ rd <= wr
    /\ find_len # 1 => wr - rd = Len(offs) * src_len

(* A call that returns without error leaves a NUL terminated string NUL     *)
(* terminated, one that fails leaves its characters and its terminator      *)
(* alone, even when it had already grown the block.                         *)
EndsWell ==
  pc = "done" /\ ~overrun =>
    /\ call.terminated => data[size] = NUL
    /\ ret = "ERR" => Prefix(data, size) = call.text
==============================================================================
