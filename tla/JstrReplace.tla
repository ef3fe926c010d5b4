----------------------------- MODULE JstrReplace -----------------------------
(***************************************************************************)
(* include/replace.h, replacing and removing: the loops of                 *)
(* jstr_rmn_len_from_exec and jstr_rplcn_len_from_exec, one action per     *)
(* iteration, and the calls that replace or remove one match.              *)
(*                                                                         *)
(* A loop rewrites the string inside its own block: i.dst is where the     *)
(* next byte of the result goes, i.src where the next byte not yet copied  *)
(* is, i.src_e where the search goes on (jstr_internal_inplace_ty).  When  *)
(* the result is longer, the text from the first match on is first moved   *)
(* past the place where the result will end.  A pointer is its offset into *)
(* the block.                                                              *)
(***************************************************************************)
EXTENDS JstrMem

CONSTANTS
  Texts,     (* the strings the calls work on *)
  Finds,     (* what they look for *)
  Rplcs,     (* what they put in its place *)
  Counts,    (* how many matches they are to replace *)
  Slacks     (* bound: how many bytes more than needed a string's block has *)

ASSUME TextsAssumption == Texts \cup Finds \cup Rplcs \subseteq Seq(Char)
ASSUME CountsAssumption == Counts \subseteq Nat /\ Slacks \subseteq Nat

VARIABLES
  data,       (* the block *)
  alloc,      (* its true size in bytes *)
  size,       (* jstr_ty.size *)
  capacity,   (* jstr_ty.capacity *)
  call,       (* the call: its operation, arguments and the string it was given *)
  pc,         (* the loop the call is in *)
  i,          (* jstr_internal_inplace_ty *)
  first,      (* start of the first match *)
  last,       (* the last match, then the end of it *)
  end,        (* the end of the text the loop reads *)
  n,          (* matches left to replace *)
  changed,    (* matches replaced, or counted *)
  ret,        (* what the call returned *)
  overrun     (* it has accessed memory outside the block *)

vars == <<data, alloc, size, capacity, call, pc, i, first, last, end, n,
          changed, ret, overrun>>

Ops == {"rm", "rmn", "rmlast", "rplc", "rplcn", "rplclast"}

(* JSTR_RET_ERR, and (size_t)-1 *)
Error == -1

At(p) == [dst |-> p, src |-> p, src_e |-> p]

(* A terminated string in a block, and one call on it. *)
Init ==
  /\ \E text \in Texts, slack \in Slacks :
       /\ size = Len(text)
       /\ alloc = Len(text) + 1 + slack
       /\ data = StrCpy([k \in 0..(alloc - 1) |-> Junk], 0, text)
       /\ capacity = alloc
       /\ \E op \in Ops, start \in 0..(Len(text) + 1),
             find \in Finds, rplc \in Rplcs, cnt \in Counts :
            /\ op \in {"rmlast", "rplclast"} => start = 0
            /\ op \in {"rm", "rmn", "rmlast"} => rplc = <<>>
            /\ op = "rm" => start <= Len(text)
            /\ op \notin {"rmn", "rplcn"} => cnt = 1
            /\ call = [op |-> op, start |-> start, find |-> find, rplc |-> rplc,
                       n |-> cnt, text |-> text]
            /\ n = cnt
            /\ i = At(start)
  /\ pc = "entry"
  /\ first = 0 /\ last = 0 /\ end = size
  /\ changed = 0
  /\ ret = 0
  /\ overrun = FALSE

find_len == Len(call.find)
rplc_len == Len(call.rplc)

Buffer == [data |-> data, alloc |-> alloc, cap |-> capacity]

Touch(b, extent) == overrun' = (overrun \/ extent > b.alloc)

Works(b, d, sz) ==
  /\ data' = d
  /\ alloc' = b.alloc
  /\ capacity' = b.cap
  /\ size' = sz

Done(r) == pc' = "done" /\ ret' = r

(***************************************************************************)
(* Searching (jstr_memmem_exec, jstr_strrstr_len).                         *)
(***************************************************************************)

(* p is the leftmost match within the bytes from..(to - 1). *)
MemMem(p, from, to) == Leftmost(p, Matches(data, call.find, from, to))

(* Mutated form: the search starts over. *)
NoMatchFromStart(from, to) == Matches(data, call.find, 0, to) = {}

NoMatch(from, to) == Matches(data, call.find, from, to) = {}

(* Mutated form: from the wrong end. *)
MemRMemFirst(p, from, to) == Leftmost(p, Matches(data, call.find, from, to))

(* p is the rightmost match: an empty one is at the end. *)
MemRMem(p, from, to) == Rightmost(p, Matches(data, call.find, from, to))

(***************************************************************************)
(* The calls on one match.                                                 *)
(***************************************************************************)

(* jstr_rmat_len_p *)
RmAt(at) ==
  LET rest == size - (at + find_len)
  IN  /\ Works(Buffer, StrMove(data, at, at + find_len, rest), size - find_len)
      /\ Touch(Buffer, at + rest + 1)

(* jstr_rplcat_len *)
RplcAt(at, success) ==
  LET need == size + rplc_len - find_len + 1
      rest == size - (at + find_len)
  IN  \/ \E b \in Reserved(Buffer, need) :
           LET moved == IF rplc_len # find_len
                        THEN StrMove(b.data, at + rplc_len, at + find_len, rest)
                        ELSE b.data
           IN  /\ Works(b, Copy(moved, at, call.rplc), need - 1)
               /\ Touch(b, IF rplc_len # find_len THEN need ELSE at + rplc_len)
               /\ Done(success)
      \/ /\ ReserveFails(Buffer, need)
         /\ Done(Error)
         /\ UNCHANGED <<data, alloc, size, capacity, overrun>>

Unchanged(r) ==
  /\ Done(r)
  /\ UNCHANGED <<data, alloc, size, capacity, overrun>>

RmOne ==
  /\ pc = "entry"
  /\ call.op = "rm"
  /\ \/ find_len = 0 /\ Unchanged(0)
     \/ find_len # 0 /\ NoMatch(call.start, size) /\ Unchanged(0)
     \/ find_len # 0 /\ \E p \in 0..size :
          MemMem(p, call.start, size) /\ RmAt(p) /\ Done(1)
  /\ UNCHANGED <<call, i, first, last, end, n, changed>>

(* Nothing is refused here but a start beyond the string. *)
RmLast ==
  /\ pc = "entry"
  /\ call.op = "rmlast"
  /\ \/ (call.start >= size \/ NoMatch(call.start, size)) /\ Unchanged(0)
     \/ /\ call.start < size
        /\ \E p \in 0..size : MemRMem(p, call.start, size) /\ RmAt(p) /\ Done(1)
  /\ UNCHANGED <<call, i, first, last, end, n, changed>>

RplcLast ==
  /\ pc = "entry"
  /\ call.op = "rplclast"
  /\ \/ NoMatch(0, size) /\ Unchanged(0)
     \/ \E p \in 0..size : MemRMem(p, 0, size) /\ RplcAt(p, 1)
  /\ UNCHANGED <<call, i, first, last, end, n, changed>>

(* jstr_rplc_len_from_exec, and jstr_rplcn_len_from_exec with n = 1. *)
RplcOne ==
  /\ pc = "entry"
  /\ call.op = "rplc" \/ (call.op = "rplcn" /\ n = 1)
  /\ \/ (call.start >= size \/ find_len = 0) /\ Unchanged(0)
     \/ call.start < size /\ find_len # 0 /\ NoMatch(call.start, size) /\ Unchanged(0)
     \/ /\ call.start < size
        /\ find_len # 0
        /\ \E p \in 0..size : MemMem(p, call.start, size) /\ RplcAt(p, 1)
  /\ UNCHANGED <<call, i, first, last, end, n, changed>>

(***************************************************************************)
(* jstr_rmn_len_from_exec, and jstr_rmnchr_len_from for a single character. *)
(***************************************************************************)

RmnCalled ==
  /\ pc = "entry"
  /\ call.op = "rmn" \/ (call.op = "rplcn" /\ n \notin {0, 1} /\ rplc_len = 0)

RmnNothing ==
  /\ RmnCalled
  /\ call.start >= size \/ find_len = 0 \/ n = 0 \/ NoMatch(call.start, size)
  /\ Unchanged(0)
  /\ UNCHANGED <<call, i, first, last, end, n, changed>>

(* The text before the first match stays where it is. *)
RmnFirst ==
  /\ RmnCalled
  /\ call.start < size /\ find_len # 0 /\ n # 0
  /\ \E p \in 0..size :
       /\ MemMem(p, i.src_e, end)
       /\ i' = [dst |-> p, src |-> p + find_len, src_e |-> p + find_len]
  /\ n' = n - 1
  /\ changed' = changed + 1
  /\ pc' = "rm"
  /\ UNCHANGED <<data, alloc, size, capacity, call, first, last, end, ret, overrun>>

RmnStep ==
  /\ pc = "rm"
  /\ n # 0
  /\ \E p \in 0..size :
       LET prev_len == p - i.src
       IN  /\ MemMem(p, i.src_e, end)
           /\ data' = Move(data, i.dst, i.src, prev_len)
           /\ i' = [dst |-> i.dst + prev_len,
                    src |-> p + find_len, src_e |-> p + find_len]
           /\ Touch(Buffer, p)
  /\ n' = n - 1
  /\ changed' = changed + 1
  /\ UNCHANGED <<alloc, size, capacity, call, pc, first, last, end, ret>>

RmnEnd ==
  /\ pc = "rm"
  /\ n = 0 \/ NoMatch(i.src_e, end)
  /\ LET rest == end - i.src
     IN  /\ Works(Buffer, StrMove(data, i.dst, i.src, rest), i.dst + rest)
         /\ Touch(Buffer, i.dst + rest + 1)
  /\ Done(changed)
  /\ UNCHANGED <<call, i, first, last, end, n, changed>>

(***************************************************************************)
(* jstr_rplcn_len_from_exec, of more than one match.                       *)
(***************************************************************************)

RplcnNothing ==
  /\ pc = "entry"
  /\ call.op = "rplcn"
  /\ n # 1
  /\ call.start >= size \/ n = 0 \/ (rplc_len # 0 /\ find_len = 0)
  /\ Unchanged(0)
  /\ UNCHANGED <<call, i, first, last, end, n, changed>>

RplcnCalled ==
  /\ pc = "entry"
  /\ call.op = "rplcn"
  /\ call.start < size
  /\ n \notin {0, 1}
  /\ find_len # 0 /\ rplc_len # 0

(* jstr_rplcnchr_len: one character for another. *)
RplcNChr ==
  /\ \/ RplcnCalled /\ find_len = 1 /\ rplc_len = 1
     \/ pc = "chr"
  /\ \/ /\ n # 0
        /\ \E p \in 0..size :
             /\ MemMem(p, i.src_e, end)
             /\ data' = Copy(data, p, call.rplc)
             /\ i' = [i EXCEPT !.src_e = p + 1]
             /\ Touch(Buffer, p + 1)
        /\ n' = n - 1
        /\ changed' = changed + 1
        /\ pc' = "chr"
        /\ UNCHANGED <<alloc, size, capacity, call, first, last, end, ret>>
     \/ /\ n = 0 \/ NoMatch(i.src_e, end)
        /\ Unchanged(changed)
        /\ UNCHANGED <<call, i, first, last, end, n, changed>>

(* Mutated form: the replacement is copied before the text ahead of it. *)
PutSwapped(prev_len) ==
  Move(Copy(data, i.dst + prev_len, call.rplc), i.dst, i.src, prev_len)

(* The text up to a match is moved down, the replacement goes after it. *)
Put(prev_len) ==
  Copy(Move(data, i.dst, i.src, prev_len), i.dst + prev_len, call.rplc)

(* The result is not longer: no allocation. *)
InPlaceStep ==
  /\ \/ RplcnCalled /\ rplc_len <= find_len /\ ~(find_len = 1 /\ rplc_len = 1)
     \/ pc = "inplace" /\ n # 0
  /\ \E p \in 0..size :
       LET prev_len == p - i.src
       IN  /\ MemMem(p, i.src_e, end)
           /\ data' = IF find_len # rplc_len THEN Put(prev_len)
                      ELSE Copy(data, i.dst + prev_len, call.rplc)
           /\ i' = [dst |-> i.dst + prev_len + rplc_len,
                    src |-> p + find_len, src_e |-> p + find_len]
           /\ Touch(Buffer, i.dst + prev_len + rplc_len)
  /\ n' = n - 1
  /\ changed' = changed + 1
  /\ pc' = "inplace"
  /\ UNCHANGED <<alloc, size, capacity, call, first, last, end, ret>>

InPlaceNone ==
  /\ RplcnCalled
  /\ rplc_len <= find_len
  /\ ~(find_len = 1 /\ rplc_len = 1)
  /\ NoMatch(i.src_e, end)
  /\ Unchanged(0)
  /\ UNCHANGED <<call, i, first, last, end, n, changed>>

InPlaceEnd ==
  /\ pc = "inplace"
  /\ n = 0 \/ NoMatch(i.src_e, end)
  /\ Done(changed)
  /\ IF rplc_len = find_len
     THEN UNCHANGED <<data, alloc, size, capacity, overrun>>
     ELSE LET rest == end - i.src
          IN  /\ Works(Buffer, StrMove(data, i.dst, i.src, rest), i.dst + rest)
              /\ Touch(Buffer, i.dst + rest + 1)
  /\ UNCHANGED <<call, i, first, last, end, n, changed>>

(* The result may be longer: a first pass counts the matches. *)
GrowNone ==
  /\ RplcnCalled
  /\ rplc_len > find_len
  /\ NoMatch(i.src_e, end)
  /\ Unchanged(0)
  /\ UNCHANGED <<call, i, first, last, end, n, changed>>

Count ==
  /\ \/ RplcnCalled /\ rplc_len > find_len
     \/ pc = "count" /\ n # 0
  /\ \E p \in 0..size :
       /\ MemMem(p, i.src_e, end)
       /\ last' = p
       /\ first' = IF changed = 0 THEN p ELSE first
       /\ i' = [i EXCEPT !.src_e = p + find_len]
  /\ n' = n - 1
  /\ changed' = changed + 1
  /\ pc' = "count"
  /\ UNCHANGED <<data, alloc, size, capacity, call, end, ret, overrun>>

Counted == pc = "count" /\ (n = 0 \/ NoMatch(i.src_e, end))

CountedOne ==
  /\ Counted
  /\ changed = 1
  /\ RplcAt(first, 1)
  /\ UNCHANGED <<call, i, first, last, end, n, changed>>

(* Mutated form: one match too few is counted in. *)
new_size_short == size + (changed - 1) * (rplc_len - find_len)

new_size == size + changed * (rplc_len - find_len)

(* Move the text from the first match on past the end of the result, where  *)
(* the second pass reads it from.                                           *)
MakeRoom ==
  /\ Counted
  /\ changed > 1
  /\ LET first_len == size - first
         need == new_size + first_len + 1
     IN  \/ /\ \E b \in Reserved(Buffer, need) :
                /\ Works(b, Move(b.data, new_size, first, first_len), size)
                /\ Touch(b, new_size + first_len)
           /\ i' = [dst |-> first, src |-> new_size, src_e |-> new_size]
           /\ last' = new_size + (last + find_len - first)
           /\ end' = new_size + (end - first)
           /\ first' = new_size
           /\ n' = changed
           /\ pc' = "fill"
           /\ UNCHANGED ret
        \/ /\ ReserveFails(Buffer, need)
           /\ Unchanged(Error)
           /\ UNCHANGED <<i, first, last, end, n>>
  /\ UNCHANGED <<call, changed>>

FillStep ==
  /\ pc = "fill"
  /\ LET prev_len == i.src_e - i.src
     IN  /\ data' = Put(prev_len)
         /\ i' = [dst |-> i.dst + prev_len + rplc_len,
                  src |-> i.src + prev_len + find_len, src_e |-> i.src_e + find_len]
         /\ Touch(Buffer, i.dst + prev_len + rplc_len)
  /\ n' = n - 1
  /\ pc' = "search"
  /\ UNCHANGED <<alloc, size, capacity, call, first, last, end, changed, ret>>

FillNext ==
  /\ pc = "search"
  /\ n # 0
  /\ \E p \in 0..alloc : MemMem(p, i.src_e, last) /\ i' = [i EXCEPT !.src_e = p]
  /\ pc' = "fill"
  /\ UNCHANGED <<data, alloc, size, capacity, call, first, last, end, n, changed,
                 ret, overrun>>

FillEnd ==
  /\ pc = "search"
  /\ n = 0 \/ NoMatch(i.src_e, last)
  /\ LET rest == end - i.src
     IN  /\ Works(Buffer, StrMove(data, i.dst, i.src, rest), i.dst + rest)
         /\ Touch(Buffer, i.dst + rest + 1)
  /\ Done(changed)
  /\ UNCHANGED <<call, i, first, last, end, n, changed>>

Next ==
  \/ RmOne \/ RmLast \/ RplcLast \/ RplcOne
  \/ RmnNothing \/ RmnFirst \/ RmnStep \/ RmnEnd
  \/ RplcnNothing \/ RplcNChr
  \/ InPlaceNone \/ InPlaceStep \/ InPlaceEnd
  \/ GrowNone \/ Count \/ CountedOne \/ MakeRoom
  \/ FillStep \/ FillNext \/ FillEnd

(* The loops run: nothing but the call itself can delay it. *)
Spec == Init /\ [][Next]_vars /\ WF_vars(Next)

(***************************************************************************)
(* Properties.                                                             *)
(***************************************************************************)

TypeOK ==
  /\ alloc \in Nat /\ size \in Nat /\ capacity = alloc
  /\ data \in Block(alloc)
  /\ call \in [op : Ops, start : Nat, find : Finds, rplc : Rplcs, n : Counts,
               text : Texts]
  /\ pc \in {"entry", "rm", "chr", "inplace", "count", "fill", "search", "done"}
  /\ i \in [dst : Nat, src : Nat, src_e : Nat]
  /\ first \in Nat /\ last \in Nat /\ end \in Nat /\ n \in Nat /\ changed \in Nat
  /\ ret \in Nat \cup {Error}
  /\ overrun \in BOOLEAN

(* The writes never catch up with the text that is still to be read: in     *)
(* place, the result never gets past i.src; with the text moved away, what  *)
(* is left to write ends where the unread text begins.  So no call touches  *)
(* a byte outside the block.                                                *)
NeverClobbers ==
  /\ TypeOK
  /\ ~overrun
  /\ pc \in {"rm", "inplace"} => i.dst <= i.src /\ i.src <= end
  /\ pc \in {"fill", "search"} =>
       /\ i.dst + n * (rplc_len - find_len) + (end - i.src) <= first
       /\ i.src <= i.src_e /\ i.src_e <= end

(***************************************************************************)
(* What the calls promise, of the text they are given: the matches that    *)
(* are replaced are the leftmost ones that do not overlap.                 *)
(***************************************************************************)

Given(c) == [k \in 0..(Len(c.text) - 1) |-> c.text[k + 1]]

(* Where the needle is from the offset p on. *)
FoundFrom(c, p) ==
  IF c.find = <<>> THEN {}
  ELSE Matches(Given(c), c.find, IF p < c.start THEN c.start ELSE p, Len(c.text))

Nothing == [at |-> 0, out |-> <<>>, count |-> 0]

(* The match at p is replaced, of the text from r.at on; r.out is the       *)
(* result so far.                                                           *)
Treat(c, r, p) ==
  [at |-> p + Len(c.find),
   out |-> r.out \o SubSeq(c.text, r.at + 1, p) \o c.rplc,
   count |-> r.count + 1]

OneMore(c, r) ==
  LET found == FoundFrom(c, r.at)
  IN  IF found = {} THEN r ELSE Treat(c, r, CHOOSE p \in found : Leftmost(p, found))

(* The first k matches are replaced, or all there are. *)
Run(c, k) ==
  LET run[j \in 0..c.n] == IF j = 0 THEN Nothing ELSE OneMore(c, run[j - 1])
  IN  run[k]

(* The last match is replaced; an empty needle is at the end. *)
RunLast(c) ==
  LET found == IF c.op = "rmlast" /\ c.text = <<>> THEN {}
               ELSE Matches(Given(c), c.find, 0, Len(c.text))
  IN  IF found = {} THEN Nothing
      ELSE Treat(c, Nothing, CHOOSE p \in found : Rightmost(p, found))

Expected(c) == IF c.op \in {"rmlast", "rplclast"} THEN RunLast(c) ELSE Run(c, c.n)

Finished(c, r) == r.out \o SubSeq(c.text, r.at + 1, Len(c.text))

(* A call that has run out of memory leaves the string as it was; one that *)
(* has not leaves it NUL terminated.                                       *)
EndsWell ==
  pc = "done" =>
    /\ data[size] = NUL
    /\ ret = Error => Prefix(data, size) = call.text

(* A call that succeeds replaces the leftmost matches that do not overlap,  *)
(* as many as it was asked to, in one pass over the original text, and      *)
(* returns how many; one that has run out of memory leaves the string as it *)
(* was.  Either leaves it NUL terminated.                                   *)
ReplacesAll ==
  /\ EndsWell
  /\ (pc = "done" /\ ret # Error)
       => Prefix(data, size) = Finished(call, Expected(call)) /\ ret = Expected(call).count

(* Every call returns. *)
Returns == <>(pc = "done")
==============================================================================
