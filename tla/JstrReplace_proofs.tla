------------------------- MODULE JstrReplace_proofs -------------------------
(***************************************************************************)
(* Theorems about JstrReplace: for every text, needle and replacement, any *)
(* count and any block,                                                    *)
(*  - the loops write behind what they have still to read and inside the   *)
(*    block, and leave the string terminated, or as it was when there is   *)
(*    no memory (IInv);                                                    *)
(*  - a call that succeeds has replaced the leftmost matches that do not   *)
(*    overlap, and nothing else (Replacing).                               *)
(* The second part follows Run(call, k), the text as one pass over it has  *)
(* left it after k matches: a loop has written the first bytes of that     *)
(* text below i.dst, and the bytes from i.src on are still the caller's.   *)
(***************************************************************************)
EXTENDS JstrReplace, JstrMem_proofs

(***************************************************************************)
(* The invariant.                                                          *)
(***************************************************************************)

(* How much longer than the needle its replacement is. *)
Gain == rplc_len - find_len

(* The string is terminated, and while nothing has been written it is the   *)
(* one the caller gave.                                                     *)
Terminated ==
  /\ size < alloc
  /\ pc \notin {"rm", "fill", "search"} => data[size] = NUL
  /\ pc \in {"entry", "count"} => Prefix(data, size) = call.text
  /\ pc = "done" /\ ret = Error => Prefix(data, size) = call.text

(* Before the second pass the loops read up to the size. *)
AtFirst ==
  /\ pc \in {"entry", "rm", "chr", "inplace", "count"} => end = size
  /\ pc = "entry" => i = At(call.start) /\ changed = 0

(* The result is not longer than the text: it stays behind. *)
Behind ==
  /\ pc = "chr" => find_len = 1 /\ rplc_len = 1
  /\ pc = "inplace" => rplc_len <= find_len
  /\ pc \in {"rm", "inplace"} => i.dst <= i.src /\ i.src = i.src_e /\ i.src <= end

(* The first pass has counted matches in a row. *)
Counting ==
  pc = "count" =>
    /\ Gain > 0 /\ changed > 0
    /\ first <= last /\ i.src_e = last + find_len /\ last + find_len <= end

(* The second pass: what is left to write, with n replacements in it, ends   *)
(* before the text that was moved away begins.                               *)
Ahead ==
  pc \in {"fill", "search"} =>
    /\ Gain > 0
    /\ i.dst + n * Gain + (end - i.src) <= first
    /\ i.src <= i.src_e
    /\ IF pc = "fill" THEN n > 0 /\ i.src_e + find_len <= last ELSE i.src_e <= last
    /\ first <= end /\ last <= end /\ end < alloc

IInv == TypeOK /\ ~overrun /\ Terminated /\ AtFirst /\ Behind /\ Counting /\ Ahead
-----------------------------------------------------------------------------

LEMMA Types ==
  ASSUME TypeOK
  PROVE  /\ call.find \in Seq(Char) /\ call.rplc \in Seq(Char) /\ call.start \in Nat
         /\ find_len \in Nat /\ rplc_len \in Nat /\ Gain \in Int
         /\ i.dst \in Nat /\ i.src \in Nat /\ i.src_e \in Nat
         /\ alloc \in Nat /\ size \in Nat /\ capacity = alloc /\ data \in Block(alloc)
         /\ first \in Nat /\ last \in Nat /\ end \in Nat /\ n \in Nat /\ changed \in Nat
BY TextsAssumption DEF TypeOK, find_len, rplc_len, Gain

(* The needle and its replacement are the call's. *)
LEMMA SameCall ==
  ASSUME UNCHANGED call
  PROVE  find_len' = find_len /\ rplc_len' = rplc_len /\ Gain' = Gain
BY DEF find_len, rplc_len, Gain

LEMMA BufferSound ==
  ASSUME TypeOK
  PROVE  Sound(Buffer) /\ Buffer.data = data /\ Buffer.alloc = alloc /\ Buffer.cap = capacity
BY DEF TypeOK, Sound, Buffer

LEMMA InBlock ==
  ASSUME NEW b, NEW extent, ~overrun, ~(extent > b.alloc), Touch(b, extent)
  PROVE  overrun' = FALSE
BY DEF Touch

(* A match lies within the bytes that are searched. *)
LEMMA MatchWithin ==
  ASSUME TypeOK, NEW p \in Nat, NEW from \in Nat, NEW to \in Nat,
         MemMem(p, from, to) \/ MemRMem(p, from, to)
  PROVE  from <= p /\ p + find_len <= to
<1>1. p \in from..(to - find_len)
  BY DEF MemMem, MemRMem, Leftmost, Rightmost, Matches, find_len
<1> QED BY <1>1, Types

(* A call returns in a string that holds its terminator. *)
LEMMA DoneKeeps ==
  ASSUME TypeOK, UNCHANGED <<call, i, first, last, end, n, changed>>, pc' = "done",
         ret' \in Nat \cup {Error}, overrun' = FALSE,
         alloc' \in Nat, capacity' = alloc', size' \in Nat, size' < alloc',
         data' \in Block(alloc'), data'[size'] = NUL,
         ret' = Error => Prefix(data', size') = call.text
  PROVE  IInv'
BY DEF TypeOK, IInv, Terminated, AtFirst, Behind, Counting, Ahead

(* A call that returns without having written anything. *)
LEMMA UnchangedKeeps ==
  ASSUME IInv, UNCHANGED <<call, i, first, last, end, n, changed>>,
         pc \in {"entry", "chr", "inplace", "count"}, NEW r \in Nat \cup {Error}, Unchanged(r),
         r = Error => pc \in {"entry", "count"}
  PROVE  IInv'
<1>1. /\ pc' = "done" /\ ret' = r
      /\ UNCHANGED <<data, alloc, size, capacity, overrun>>
  BY DEF Unchanged, Done
<1>2. TypeOK /\ ~overrun /\ overrun \in BOOLEAN /\ size < alloc /\ data[size] = NUL
  BY DEF IInv, Terminated, TypeOK
<1>3. r = Error => Prefix(data, size) = call.text
  BY DEF IInv, Terminated
<1>4. overrun' = FALSE
  BY <1>1, <1>2
<1>5. alloc' \in Nat /\ capacity' = alloc' /\ size' \in Nat /\ size' < alloc'
      /\ data' \in Block(alloc') /\ data'[size'] = NUL
  BY <1>1, <1>2 DEF TypeOK
<1> QED BY <1>1, <1>2, <1>3, <1>4, <1>5, DoneKeeps

(* What follows the text just written is moved up to it, and terminated: the *)
(* end of every call that has not grown the string.                          *)
LEMMA TailKeeps ==
  ASSUME IInv, UNCHANGED <<call, i, first, last, end, n, changed>>,
         NEW dst \in Nat, NEW from \in Nat, NEW len \in Nat, NEW r \in Nat,
         dst + len < alloc,
         Works(Buffer, StrMove(data, dst, from, len), dst + len),
         Touch(Buffer, dst + len + 1), Done(r)
  PROVE  IInv'
<1>1. TypeOK /\ ~overrun /\ alloc \in Nat /\ data \in Block(alloc) /\ capacity = alloc
  BY DEF IInv, TypeOK
<1>2. /\ data' = StrMove(data, dst, from, len) /\ size' = dst + len
      /\ UNCHANGED <<alloc, capacity>> /\ pc' = "done" /\ ret' = r
  BY DEF Works, Buffer, Done
<1>3. dst + len \in Nat /\ dst + len + 1 <= alloc
  BY <1>1
<1>4. overrun' = FALSE
  <2>1. ~(dst + len + 1 > Buffer.alloc)
    BY <1>1, <1>3 DEF Buffer
  <2> QED BY <1>1, <2>1, InBlock
<1>5. StrMove(data, dst, from, len) \in Block(alloc)
  BY <1>1, StrMoveType
<1>6. StrMove(data, dst, from, len)[dst + len] = NUL
  BY <1>1, <1>3, StrMoveEnds
<1>7. r # Error
  BY DEF Error
<1> QED BY <1>1, <1>2, <1>3, <1>4, <1>5, <1>6, <1>7, DoneKeeps

(***************************************************************************)
(* One lemma for each action: the calls on one match.                      *)
(***************************************************************************)

LEMMA InitInv == Init => IInv
<1> SUFFICES ASSUME Init PROVE IInv
  OBVIOUS
<1>1. PICK text \in Texts, slack \in Slacks :
        /\ size = Len(text)
        /\ alloc = Len(text) + 1 + slack
        /\ data = StrCpy([k \in 0..(alloc - 1) |-> Junk], 0, text)
        /\ capacity = alloc
        /\ \E op \in Ops, start \in 0..(Len(text) + 1),
              find \in Finds, rplc \in Rplcs, cnt \in Counts :
             /\ call = [op |-> op, start |-> start, find |-> find, rplc |-> rplc,
                        n |-> cnt, text |-> text]
             /\ n = cnt
             /\ i = At(start)
  BY DEF Init
<1>2. text \in Seq(Char) /\ Len(text) \in Nat /\ slack \in Nat
  BY TextsAssumption, CountsAssumption
<1>3. size \in Nat /\ alloc \in Nat /\ size < alloc /\ capacity = alloc
  BY <1>1, <1>2
<1>4. [k \in 0..(alloc - 1) |-> Junk] \in Block(alloc)
  BY DEF Block, Byte
<1>5. data \in Block(alloc)
  BY <1>1, <1>2, <1>3, <1>4, StrCpyType
<1>6. PICK m \in Block(alloc) : data = StrCpy(m, 0, text)
  BY <1>1, <1>4
<1>7. \A k \in 0..(alloc - 1) :
        data[k] = IF k = Len(text) THEN NUL
                  ELSE IF k < Len(text) THEN text[k + 1] ELSE m[k]
  <2>1. \A dst \in Nat : \A k \in 0..(alloc - 1) :
          StrCpy(m, dst, text)[k]
            = IF k = dst + Len(text) THEN NUL
              ELSE IF dst <= k /\ k < dst + Len(text) THEN text[k - dst + 1] ELSE m[k]
    BY <1>2, <1>3, StrCpyByte
  <2>2. 0 \in Nat
    OBVIOUS
  <2> QED BY <1>2, <1>6, <2>1, <2>2, SMTT(30)
<1>8. data[size] = NUL
  BY <1>1, <1>3, <1>7
<1>9. \A k \in 1..Len(text) : data[k - 1] = text[k]
  <2> TAKE k \in 1..Len(text)
  <2>1. k - 1 \in 0..(alloc - 1) /\ k - 1 # Len(text) /\ k - 1 < Len(text)
        /\ (k - 1) + 1 = k
    BY <1>1, <1>2
  <2> QED BY <1>7, <2>1
<1>10. Prefix(data, size) = text
  BY <1>1, <1>2, <1>9, PrefixIs
<1>11. /\ call \in [op : Ops, start : Nat, find : Finds, rplc : Rplcs, n : Counts, text : Texts]
       /\ call.text = text /\ n \in Nat /\ i = At(call.start)
       /\ i \in [dst : Nat, src : Nat, src_e : Nat]
  BY <1>1, <1>2, CountsAssumption DEF At
<1>12. /\ pc = "entry" /\ first = 0 /\ last = 0 /\ end = size /\ changed = 0 /\ ret = 0
       /\ overrun = FALSE
  BY DEF Init
<1>13. TypeOK
  BY <1>3, <1>5, <1>11, <1>12 DEF TypeOK
<1> QED
  BY <1>3, <1>8, <1>10, <1>11, <1>12, <1>13
  DEF IInv, Terminated, AtFirst, Behind, Counting, Ahead, Error

(* jstr_rmat_len_p leaves the text after the match, terminated. *)
LEMMA RmAtKeeps ==
  ASSUME IInv, UNCHANGED <<call, i, first, last, end, n, changed>>,
         NEW at \in Nat, at + find_len <= size, RmAt(at), Done(1)
  PROVE  IInv'
<1> DEFINE rest == size - (at + find_len)
<1>1. find_len \in Nat /\ size \in Nat /\ alloc \in Nat /\ size < alloc
  BY Types DEF IInv, Terminated
<1>2. /\ rest \in Nat /\ at + find_len \in Nat /\ at + rest = size - find_len
      /\ at + rest < alloc
  BY <1>1
<1>3. /\ Works(Buffer, StrMove(data, at, at + find_len, rest), at + rest)
      /\ Touch(Buffer, at + rest + 1)
  BY <1>2 DEF RmAt
<1> QED BY <1>2, <1>3, TailKeeps

(* jstr_rplcat_len: the block has room, or the string is as it was. *)
LEMMA RplcAtKeeps ==
  ASSUME IInv, UNCHANGED <<call, i, first, last, end, n, changed>>,
         pc \in {"entry", "count"},
         NEW at \in Nat, at + find_len <= size, RplcAt(at, 1)
  PROVE  IInv'
<1> DEFINE need == size + rplc_len - find_len + 1
           rest == size - (at + find_len)
           Moved(b) == IF rplc_len # find_len
                       THEN StrMove(b.data, at + rplc_len, at + find_len, rest)
                       ELSE b.data
<1>1. /\ TypeOK /\ ~overrun /\ size < alloc /\ data[size] = NUL
      /\ Prefix(data, size) = call.text
  BY DEF IInv, Terminated
<1>2. /\ find_len \in Nat /\ rplc_len \in Nat /\ size \in Nat /\ alloc \in Nat
      /\ call.rplc \in Seq(Char) /\ rplc_len = Len(call.rplc)
  BY <1>1, Types DEF rplc_len
<1>3. /\ need \in Nat /\ rest \in Nat /\ at + rplc_len \in Nat /\ at + find_len \in Nat
      /\ need - 1 \in Nat /\ at + rplc_len + rest = need - 1
      /\ at + rplc_len <= need - 1 /\ at + find_len + rest = size
      /\ rplc_len = find_len => need - 1 = size
  BY <1>2
<1>4. ASSUME NEW b \in Reserved(Buffer, need),
             Works(b, Copy(Moved(b), at, call.rplc), need - 1),
             Touch(b, IF rplc_len # find_len THEN need ELSE at + rplc_len), Done(1)
      PROVE  IInv'
  <2>1. Sound(b) /\ b.alloc >= need /\ b.alloc >= alloc
    BY <1>1, <1>3, BufferSound, ReserveSound
  <2>2. b.alloc \in Nat /\ b.cap = b.alloc /\ b.data \in Block(b.alloc)
    BY <2>1 DEF Sound
  <2>3. b.data[size] = NUL
    <3>1. size \in 0..(Buffer.alloc - 1) /\ Buffer.data = data /\ Sound(Buffer)
      BY <1>1, <1>2, BufferSound
    <3> QED BY <1>1, <1>3, <3>1, ReservedLeaves
  <2>4. Moved(b) \in Block(b.alloc) /\ Moved(b)[need - 1] = NUL
    <3>1. CASE rplc_len = find_len
      BY <1>3, <2>2, <2>3, <3>1
    <3>2. CASE rplc_len # find_len
      <4>1. StrMove(b.data, at + rplc_len, at + find_len, rest) \in Block(b.alloc)
        BY <1>3, <2>2, StrMoveType
      <4>2. at + rplc_len + rest < b.alloc
        BY <1>3, <2>1, <2>2
      <4>3. StrMove(b.data, at + rplc_len, at + find_len, rest)[at + rplc_len + rest] = NUL
        BY <1>3, <2>2, <4>2, StrMoveEnds
      <4> QED BY <1>3, <3>2, <4>1, <4>3
    <3> QED BY <3>1, <3>2
  <2> HIDE DEF Moved
  <2>5. Copy(Moved(b), at, call.rplc) \in Block(b.alloc)
    BY <1>2, <2>2, <2>4, CopyType
  <2>6. Copy(Moved(b), at, call.rplc)[need - 1] = NUL
    <3>1. need - 1 \in 0..(b.alloc - 1) /\ ~(need - 1 < at + Len(call.rplc))
      BY <1>2, <1>3, <2>1, <2>2, SMTT(30)
    <3>2. Copy(Moved(b), at, call.rplc)[need - 1] = Moved(b)[need - 1]
      BY <2>2, <2>4, <3>1, CopyByte, SMTT(30)
    <3> QED BY <2>4, <3>2
  <2>7. overrun' = FALSE
    <3>1. ~((IF rplc_len # find_len THEN need ELSE at + rplc_len) > b.alloc)
      BY <1>2, <1>3, <2>1, <2>2
    <3> QED BY <1>1, <1>4, <3>1, InBlock
  <2>8. /\ data' = Copy(Moved(b), at, call.rplc) /\ alloc' = b.alloc /\ capacity' = b.cap
        /\ size' = need - 1 /\ pc' = "done" /\ ret' = 1
    BY <1>4 DEF Works, Done
  <2>9. need - 1 < b.alloc /\ 1 # Error /\ 1 \in Nat
    BY <1>3, <2>1, <2>2 DEF Error
  <2> HIDE DEF need
  <2> QED BY <1>1, <1>3, <2>2, <2>5, <2>6, <2>7, <2>8, <2>9, DoneKeeps
<1>5. CASE Done(Error) /\ UNCHANGED <<data, alloc, size, capacity, overrun>>
  BY <1>5, UnchangedKeeps DEF Unchanged
<1> QED BY <1>4, <1>5 DEF RplcAt

LEMMA RmOneKeeps == ASSUME IInv, RmOne PROVE IInv'
<1>1. pc = "entry" /\ UNCHANGED <<call, i, first, last, end, n, changed>>
  BY DEF RmOne
<1>2. TypeOK /\ call.start \in Nat /\ size \in Nat
  BY Types DEF IInv
<1>3. CASE Unchanged(0)
  BY <1>1, <1>3, UnchangedKeeps DEF Error
<1>4. ASSUME NEW p \in 0..size, MemMem(p, call.start, size), RmAt(p), Done(1)
      PROVE  IInv'
  <2>1. p \in Nat /\ p + find_len <= size
    BY <1>2, <1>4, MatchWithin
  <2> QED BY <1>1, <1>4, <2>1, RmAtKeeps
<1> QED BY <1>3, <1>4 DEF RmOne

LEMMA RmLastKeeps == ASSUME IInv, RmLast PROVE IInv'
<1>1. pc = "entry" /\ UNCHANGED <<call, i, first, last, end, n, changed>>
  BY DEF RmLast
<1>2. TypeOK /\ call.start \in Nat /\ size \in Nat
  BY Types DEF IInv
<1>3. CASE Unchanged(0)
  BY <1>1, <1>3, UnchangedKeeps DEF Error
<1>4. ASSUME NEW p \in 0..size, MemRMem(p, call.start, size), RmAt(p), Done(1)
      PROVE  IInv'
  <2>1. p \in Nat /\ p + find_len <= size
    BY <1>2, <1>4, MatchWithin
  <2> QED BY <1>1, <1>4, <2>1, RmAtKeeps
<1> QED BY <1>3, <1>4 DEF RmLast

LEMMA RplcLastKeeps == ASSUME IInv, RplcLast PROVE IInv'
<1>1. pc = "entry" /\ UNCHANGED <<call, i, first, last, end, n, changed>>
  BY DEF RplcLast
<1>2. TypeOK /\ 0 \in Nat /\ size \in Nat
  BY Types DEF IInv
<1>3. CASE Unchanged(0)
  BY <1>1, <1>3, UnchangedKeeps DEF Error
<1>4. ASSUME NEW p \in 0..size, MemRMem(p, 0, size), RplcAt(p, 1)
      PROVE  IInv'
  <2>1. p \in Nat /\ p + find_len <= size
    BY <1>2, <1>4, MatchWithin
  <2> QED BY <1>1, <1>4, <2>1, RplcAtKeeps
<1> QED BY <1>3, <1>4 DEF RplcLast

LEMMA RplcOneKeeps == ASSUME IInv, RplcOne PROVE IInv'
<1>1. pc = "entry" /\ UNCHANGED <<call, i, first, last, end, n, changed>>
  BY DEF RplcOne
<1>2. TypeOK /\ call.start \in Nat /\ size \in Nat
  BY Types DEF IInv
<1>3. CASE Unchanged(0)
  BY <1>1, <1>3, UnchangedKeeps DEF Error
<1>4. ASSUME NEW p \in 0..size, MemMem(p, call.start, size), RplcAt(p, 1)
      PROVE  IInv'
  <2>1. p \in Nat /\ p + find_len <= size
    BY <1>2, <1>4, MatchWithin
  <2> QED BY <1>1, <1>4, <2>1, RplcAtKeeps
<1> QED BY <1>3, <1>4 DEF RplcOne

(***************************************************************************)
(* Removing matches.                                                       *)
(***************************************************************************)

(* What a step of a loop leaves to be shown. *)
LEMMA StepKeeps ==
  ASSUME TypeOK, UNCHANGED <<call, ret>>, overrun' = FALSE,
         pc' \in {"rm", "chr", "inplace", "count", "fill", "search"},
         alloc' \in Nat, capacity' = alloc', size' \in Nat, data' \in Block(alloc'),
         i' \in [dst : Nat, src : Nat, src_e : Nat],
         first' \in Nat, last' \in Nat, end' \in Nat, n' \in Nat, changed' \in Nat
  PROVE  TypeOK' /\ ~overrun'
BY DEF TypeOK

LEMMA RmnNothingKeeps == ASSUME IInv, RmnNothing PROVE IInv'
BY UnchangedKeeps DEF RmnNothing, RmnCalled, Error

LEMMA RmnFirstKeeps == ASSUME IInv, RmnFirst PROVE IInv'
<1>1. /\ pc = "entry" /\ pc' = "rm" /\ n # 0 /\ n' = n - 1 /\ changed' = changed + 1
      /\ UNCHANGED <<data, alloc, size, capacity, call, first, last, end, ret, overrun>>
  BY DEF RmnFirst, RmnCalled
<1>2. /\ TypeOK /\ ~overrun /\ overrun \in BOOLEAN /\ size < alloc /\ end = size
  BY <1>1 DEF IInv, TypeOK, Terminated, AtFirst
<1>3. /\ find_len \in Nat /\ i.src_e \in Nat /\ end \in Nat /\ n \in Nat /\ changed \in Nat
      /\ size \in Nat /\ alloc \in Nat /\ capacity = alloc /\ data \in Block(alloc)
      /\ first \in Nat /\ last \in Nat
  BY <1>2, Types
<1>4. PICK p \in 0..size :
        /\ MemMem(p, i.src_e, end)
        /\ i' = [dst |-> p, src |-> p + find_len, src_e |-> p + find_len]
  BY DEF RmnFirst
<1>5. p \in Nat /\ p + find_len \in Nat /\ p + find_len <= end
  BY <1>2, <1>3, <1>4, MatchWithin
<1>6. /\ i' \in [dst : Nat, src : Nat, src_e : Nat]
      /\ i'.dst <= i'.src /\ i'.src = i'.src_e /\ i'.src <= end
  BY <1>3, <1>4, <1>5
<1>7. n' \in Nat /\ changed' \in Nat /\ overrun' = FALSE
  BY <1>1, <1>2, <1>3
<1>8. TypeOK' /\ ~overrun'
  BY <1>1, <1>2, <1>3, <1>6, <1>7, StepKeeps
<1> QED
  BY <1>1, <1>2, <1>6, <1>8
  DEF IInv, Terminated, AtFirst, Behind, Counting, Ahead

LEMMA RmnStepKeeps == ASSUME IInv, RmnStep PROVE IInv'
<1>1. /\ pc = "rm" /\ pc' = "rm" /\ n # 0 /\ n' = n - 1 /\ changed' = changed + 1
      /\ UNCHANGED <<alloc, size, capacity, call, first, last, end, ret>>
  BY DEF RmnStep
<1>2. /\ TypeOK /\ ~overrun /\ size < alloc /\ end = size
      /\ i.dst <= i.src /\ i.src = i.src_e
  BY <1>1 DEF IInv, Terminated, AtFirst, Behind
<1>3. /\ find_len \in Nat /\ i.dst \in Nat /\ i.src \in Nat /\ i.src_e \in Nat
      /\ end \in Nat /\ n \in Nat /\ changed \in Nat
      /\ size \in Nat /\ alloc \in Nat /\ capacity = alloc /\ data \in Block(alloc)
      /\ first \in Nat /\ last \in Nat
  BY <1>2, Types
<1>4. PICK p \in 0..size :
        /\ MemMem(p, i.src_e, end)
        /\ data' = Move(data, i.dst, i.src, p - i.src)
        /\ i' = [dst |-> i.dst + (p - i.src), src |-> p + find_len, src_e |-> p + find_len]
        /\ Touch(Buffer, p)
  BY DEF RmnStep
<1>5. p \in Nat /\ i.src_e <= p /\ p + find_len <= end
  BY <1>2, <1>3, <1>4, MatchWithin
<1>6. /\ i.dst + (p - i.src) \in Nat /\ i.dst + (p - i.src) <= p + find_len
      /\ p + find_len \in Nat /\ ~(p > alloc)
  BY <1>2, <1>3, <1>5
<1>7. /\ i' \in [dst : Nat, src : Nat, src_e : Nat]
      /\ i'.dst <= i'.src /\ i'.src = i'.src_e /\ i'.src <= end
  BY <1>4, <1>5, <1>6
<1>8. data' \in Block(alloc)
  BY <1>3, <1>4, MoveType
<1>9. overrun' = FALSE
  BY <1>2, <1>4, <1>6, InBlock DEF Buffer
<1>10. n' \in Nat /\ changed' \in Nat
  BY <1>1, <1>3
<1>11. TypeOK' /\ ~overrun'
  BY <1>1, <1>2, <1>3, <1>7, <1>8, <1>9, <1>10, StepKeeps
<1> QED
  BY <1>1, <1>2, <1>7, <1>11
  DEF IInv, Terminated, AtFirst, Behind, Counting, Ahead

(* The end of every loop that removes bytes. *)
LEMMA RestKeeps ==
  ASSUME IInv, UNCHANGED <<call, i, first, last, end, n, changed>>,
         i.dst + (end - i.src) < alloc, i.src <= end,
         Works(Buffer, StrMove(data, i.dst, i.src, end - i.src), i.dst + (end - i.src)),
         Touch(Buffer, i.dst + (end - i.src) + 1), Done(changed)
  PROVE  IInv'
<1>1. i.dst \in Nat /\ i.src \in Nat /\ end \in Nat /\ changed \in Nat
  BY Types DEF IInv
<1>2. end - i.src \in Nat
  BY <1>1
<1> QED BY <1>1, <1>2, TailKeeps

LEMMA RmnEndKeeps == ASSUME IInv, RmnEnd PROVE IInv'
<1>1. pc = "rm" /\ UNCHANGED <<call, i, first, last, end, n, changed>>
  BY DEF RmnEnd
<1>2. /\ size < alloc /\ end = size /\ i.dst <= i.src /\ i.src <= end
      /\ i.dst \in Nat /\ i.src \in Nat /\ end \in Nat /\ alloc \in Nat
  BY <1>1, Types DEF IInv, Terminated, AtFirst, Behind
<1>3. i.dst + (end - i.src) < alloc
  BY <1>2
<1> QED BY <1>1, <1>2, <1>3, RestKeeps DEF RmnEnd

(***************************************************************************)
(* Replacing matches in place.                                             *)
(***************************************************************************)

LEMMA RplcnNothingKeeps == ASSUME IInv, RplcnNothing PROVE IInv'
BY UnchangedKeeps DEF RplcnNothing, Error

LEMMA InPlaceNoneKeeps == ASSUME IInv, InPlaceNone PROVE IInv'
BY UnchangedKeeps DEF InPlaceNone, RplcnCalled, Error

LEMMA GrowNoneKeeps == ASSUME IInv, GrowNone PROVE IInv'
BY UnchangedKeeps DEF GrowNone, RplcnCalled, Error

LEMMA RplcNChrKeeps == ASSUME IInv, RplcNChr PROVE IInv'
<1>1. /\ pc \in {"entry", "chr"} /\ find_len = 1 /\ rplc_len = 1
      /\ TypeOK /\ ~overrun /\ size < alloc /\ end = size /\ data[size] = NUL
  BY DEF RplcNChr, RplcnCalled, IInv, Terminated, AtFirst, Behind
<1>2. /\ i.dst \in Nat /\ i.src \in Nat /\ i.src_e \in Nat
      /\ end \in Nat /\ n \in Nat /\ changed \in Nat
      /\ size \in Nat /\ alloc \in Nat /\ capacity = alloc /\ data \in Block(alloc)
      /\ first \in Nat /\ last \in Nat /\ call.rplc \in Seq(Char) /\ Len(call.rplc) = 1
  BY <1>1, Types DEF rplc_len
<1>3. ASSUME NEW p \in 0..size,
             n # 0, MemMem(p, i.src_e, end), data' = Copy(data, p, call.rplc),
             i' = [i EXCEPT !.src_e = p + 1], Touch(Buffer, p + 1),
             n' = n - 1, changed' = changed + 1, pc' = "chr",
             UNCHANGED <<alloc, size, capacity, call, first, last, end, ret>>
      PROVE  IInv'
  <2>1. p \in Nat /\ p + 1 <= end
    BY <1>1, <1>2, <1>3, MatchWithin
  <2>2. i' \in [dst : Nat, src : Nat, src_e : Nat]
    BY <1>1, <1>3, <2>1 DEF TypeOK
  <2>3. data' \in Block(alloc)
    BY <1>2, <1>3, <2>1, CopyType
  <2>4. data'[size] = NUL
    <3>1. size \in 0..(alloc - 1) /\ ~(size < p + Len(call.rplc))
      BY <1>1, <1>2, <2>1
    <3>2. Copy(data, p, call.rplc)[size] = data[size]
      BY <1>2, <3>1, CopyByte
    <3> QED BY <1>1, <1>3, <3>2
  <2>5. overrun' = FALSE
    <3>1. ~(p + 1 > Buffer.alloc)
      BY <1>1, <1>2, <2>1 DEF Buffer
    <3> QED BY <1>1, <1>3, <3>1, InBlock
  <2>6. n' \in Nat /\ changed' \in Nat
    BY <1>2, <1>3, SMTT(30)
  <2>7. TypeOK' /\ ~overrun'
    BY <1>1, <1>2, <1>3, <2>2, <2>3, <2>5, <2>6, StepKeeps
  <2>8. find_len' = 1 /\ rplc_len' = 1
    BY <1>1, <1>3, SameCall
  <2> QED
    BY <1>1, <1>3, <2>4, <2>7, <2>8
    DEF IInv, Terminated, AtFirst, Behind, Counting, Ahead
<1>4. CASE Unchanged(changed) /\ UNCHANGED <<call, i, first, last, end, n, changed>>
  BY <1>1, <1>2, <1>4, UnchangedKeeps DEF Error
<1> QED BY <1>3, <1>4 DEF RplcNChr

(* The bytes Put writes are those up to the end of the replacement. *)
LEMMA PutType ==
  ASSUME TypeOK, NEW len \in Nat
  PROVE  /\ Put(len) \in Block(alloc)
         /\ \A k \in 0..(alloc - 1) : i.dst + len + rplc_len <= k => Put(len)[k] = data[k]
<1>1. /\ i.dst \in Nat /\ i.src \in Nat /\ alloc \in Nat /\ data \in Block(alloc)
      /\ call.rplc \in Seq(Char) /\ rplc_len = Len(call.rplc) /\ rplc_len \in Nat
      /\ i.dst + len \in Nat
  BY Types, SMTT(30) DEF rplc_len
<1>2. Move(data, i.dst, i.src, len) \in Block(alloc)
  BY <1>1, MoveType
<1>3. \A k \in 0..(alloc - 1) :
        i.dst + len <= k => Move(data, i.dst, i.src, len)[k] = data[k]
  BY <1>1 DEF Move, Block
<1>4. PICK m : m = Move(data, i.dst, i.src, len)
  OBVIOUS
<1>5. Copy(m, i.dst + len, call.rplc) \in Block(alloc)
  BY <1>1, <1>2, <1>4, CopyType
<1>6. ASSUME NEW k \in 0..(alloc - 1), i.dst + len + rplc_len <= k
      PROVE  Copy(m, i.dst + len, call.rplc)[k] = data[k]
  <2>1. ~(k < i.dst + len + Len(call.rplc)) /\ i.dst + len <= k
    BY <1>1, <1>6
  <2>2. Copy(m, i.dst + len, call.rplc)[k] = m[k]
    BY <1>1, <1>2, <1>4, <2>1, CopyByte
  <2> QED BY <1>3, <1>4, <2>1, <2>2
<1> QED BY <1>4, <1>5, <1>6 DEF Put

LEMMA InPlaceStepKeeps == ASSUME IInv, InPlaceStep PROVE IInv'
<1>1. /\ pc \in {"entry", "inplace"} /\ pc' = "inplace" /\ n # 0
      /\ n' = n - 1 /\ changed' = changed + 1
      /\ UNCHANGED <<alloc, size, capacity, call, first, last, end, ret>>
      /\ rplc_len <= find_len
  BY DEF InPlaceStep, RplcnCalled, IInv, Behind
<1>2. /\ TypeOK /\ ~overrun /\ size < alloc /\ end = size /\ data[size] = NUL
      /\ i.dst <= i.src /\ i.src = i.src_e
  <2>1. CASE pc = "entry"
    <3>1. i = At(call.start) /\ call.start \in Nat
      BY <2>1, Types DEF IInv, AtFirst
    <3> QED BY <2>1, <3>1 DEF At, IInv, Terminated, AtFirst
  <2>2. CASE pc = "inplace"
    BY <2>2 DEF IInv, Terminated, AtFirst, Behind
  <2> QED BY <1>1, <2>1, <2>2
<1>3. /\ find_len \in Nat /\ rplc_len \in Nat /\ i.dst \in Nat /\ i.src \in Nat /\ i.src_e \in Nat
      /\ end \in Nat /\ n \in Nat /\ changed \in Nat
      /\ size \in Nat /\ alloc \in Nat /\ capacity = alloc /\ data \in Block(alloc)
      /\ first \in Nat /\ last \in Nat
      /\ call.rplc \in Seq(Char) /\ Len(call.rplc) = rplc_len
  BY <1>2, Types DEF rplc_len
<1>4. PICK p \in 0..size :
        /\ MemMem(p, i.src_e, end)
        /\ data' = IF find_len # rplc_len THEN Put(p - i.src)
                   ELSE Copy(data, i.dst + (p - i.src), call.rplc)
        /\ i' = [dst |-> i.dst + (p - i.src) + rplc_len,
                 src |-> p + find_len, src_e |-> p + find_len]
        /\ Touch(Buffer, i.dst + (p - i.src) + rplc_len)
  BY DEF InPlaceStep
<1>5. p \in Nat /\ i.src_e <= p /\ p + find_len <= end
  BY <1>2, <1>3, <1>4, MatchWithin
<1>6. /\ p - i.src \in Nat /\ i.dst + (p - i.src) \in Nat
      /\ i.dst + (p - i.src) + rplc_len \in Nat
      /\ i.dst + (p - i.src) + rplc_len <= p + find_len
      /\ p + find_len \in Nat
  BY <1>1, <1>2, <1>3, <1>5, SMTT(30)
<1>7. /\ i' \in [dst : Nat, src : Nat, src_e : Nat]
      /\ i'.dst <= i'.src /\ i'.src = i'.src_e /\ i'.src <= end
  BY <1>4, <1>5, <1>6
<1>8. i.dst + (p - i.src) + rplc_len <= size /\ size \in 0..(alloc - 1)
  BY <1>2, <1>3, <1>5, <1>6
<1>9. data' \in Block(alloc) /\ data'[size] = NUL
  <2>1. CASE find_len # rplc_len
    <3>1. data' = Put(p - i.src)
      BY <1>4, <2>1
    <3> QED BY <1>2, <1>6, <1>8, <3>1, PutType
  <2>2. CASE find_len = rplc_len
    <3>1. PICK dst \in Nat : dst = i.dst + (p - i.src)
      BY <1>6
    <3>2. data' = Copy(data, dst, call.rplc)
      BY <1>4, <2>2, <3>1
    <3>3. Copy(data, dst, call.rplc) \in Block(alloc)
      BY <1>3, CopyType
    <3>4. ~(size < dst + Len(call.rplc))
      BY <1>3, <1>8, <3>1
    <3>5. Copy(data, dst, call.rplc)[size] = data[size]
      BY <1>3, <1>8, <3>4, CopyByte, SMTT(30)
    <3> QED BY <1>2, <3>2, <3>3, <3>5
  <2> QED BY <2>1, <2>2
<1>10. overrun' = FALSE
  <2>1. ~(i.dst + (p - i.src) + rplc_len > Buffer.alloc)
    BY <1>2, <1>3, <1>6, <1>8 DEF Buffer
  <2> QED BY <1>2, <1>4, <2>1, InBlock
<1>11. n' \in Nat /\ changed' \in Nat
  BY <1>1, <1>3
<1>12. TypeOK' /\ ~overrun'
  BY <1>1, <1>2, <1>3, <1>7, <1>9, <1>10, <1>11, StepKeeps
<1>13. rplc_len' <= find_len'
  BY <1>1, SameCall
<1> QED
  BY <1>1, <1>2, <1>7, <1>9, <1>12, <1>13
  DEF IInv, Terminated, AtFirst, Behind, Counting, Ahead

LEMMA InPlaceEndKeeps == ASSUME IInv, InPlaceEnd PROVE IInv'
<1>1. /\ pc = "inplace" /\ UNCHANGED <<call, i, first, last, end, n, changed>> /\ Done(changed)
  BY DEF InPlaceEnd
<1>2. /\ size < alloc /\ end = size /\ i.dst <= i.src /\ i.src <= end
      /\ i.dst \in Nat /\ i.src \in Nat /\ end \in Nat /\ alloc \in Nat /\ changed \in Nat
  BY <1>1, Types DEF IInv, Terminated, AtFirst, Behind
<1>3. i.dst + (end - i.src) < alloc
  BY <1>2
<1>4. CASE UNCHANGED <<data, alloc, size, capacity, overrun>>
  BY <1>1, <1>2, <1>4, UnchangedKeeps DEF Unchanged, Error
<1>5. CASE /\ Works(Buffer, StrMove(data, i.dst, i.src, end - i.src), i.dst + (end - i.src))
           /\ Touch(Buffer, i.dst + (end - i.src) + 1)
  BY <1>1, <1>2, <1>3, <1>5, RestKeeps
<1> QED BY <1>4, <1>5 DEF InPlaceEnd

(***************************************************************************)
(* Replacing matches by something longer.                                  *)
(***************************************************************************)

LEMMA CountKeeps == ASSUME IInv, Count PROVE IInv'
<1>1. /\ pc \in {"entry", "count"} /\ pc' = "count" /\ n # 0
      /\ n' = n - 1 /\ changed' = changed + 1
      /\ UNCHANGED <<data, alloc, size, capacity, call, end, ret, overrun>>
  BY DEF Count, RplcnCalled
<1>2. /\ TypeOK /\ ~overrun /\ overrun \in BOOLEAN /\ size < alloc /\ end = size
      /\ data[size] = NUL /\ Prefix(data, size) = call.text
      /\ pc = "entry" => changed = 0
  BY <1>1 DEF IInv, TypeOK, Terminated, AtFirst
<1>3. /\ find_len \in Nat /\ rplc_len \in Nat /\ i.dst \in Nat /\ i.src \in Nat /\ i.src_e \in Nat
      /\ end \in Nat /\ n \in Nat /\ changed \in Nat
      /\ size \in Nat /\ alloc \in Nat /\ capacity = alloc /\ data \in Block(alloc)
      /\ first \in Nat /\ last \in Nat
  BY <1>2, Types
<1>4. Gain > 0
  BY <1>3 DEF IInv, Counting, Count, RplcnCalled, Gain
<1>5. PICK p \in 0..size :
        /\ MemMem(p, i.src_e, end)
        /\ last' = p
        /\ first' = IF changed = 0 THEN p ELSE first
        /\ i' = [i EXCEPT !.src_e = p + find_len]
  BY DEF Count
<1>6. p \in Nat /\ i.src_e <= p /\ p + find_len <= end /\ p + find_len \in Nat
  BY <1>2, <1>3, <1>5, MatchWithin
<1>7. /\ i' \in [dst : Nat, src : Nat, src_e : Nat] /\ i'.src_e = p + find_len
      /\ last' \in Nat /\ first' \in Nat
  BY <1>2, <1>3, <1>5, <1>6 DEF TypeOK
<1>8. first' <= last'
  <2>1. changed # 0 => pc = "count"
    BY <1>1, <1>2
  <2>2. changed # 0 => first <= last /\ i.src_e = last + find_len
    BY <2>1 DEF IInv, Counting
  <2> QED BY <1>3, <1>5, <1>6, <2>2
<1>9. n' \in Nat /\ changed' \in Nat /\ changed' > 0 /\ overrun' = FALSE
  BY <1>1, <1>2, <1>3
<1>10. TypeOK' /\ ~overrun'
  BY <1>1, <1>2, <1>3, <1>7, <1>9, StepKeeps
<1>11. Gain' > 0 /\ find_len' = find_len
  BY <1>1, <1>4, SameCall
<1> QED
  BY <1>1, <1>2, <1>5, <1>6, <1>7, <1>8, <1>9, <1>10, <1>11
  DEF IInv, Terminated, AtFirst, Behind, Counting, Ahead

LEMMA CountedOneKeeps == ASSUME IInv, CountedOne PROVE IInv'
<1>1. /\ pc = "count" /\ UNCHANGED <<call, i, first, last, end, n, changed>> /\ RplcAt(first, 1)
  BY DEF CountedOne, Counted
<1>2. /\ first \in Nat /\ last \in Nat /\ find_len \in Nat
      /\ first <= last /\ last + find_len <= size
  BY <1>1, Types DEF IInv, Counting, AtFirst
<1>3. first + find_len <= size
  BY <1>2, Types DEF IInv
<1> QED BY <1>1, <1>2, <1>3, RplcAtKeeps

(* The result of replacing every counted match is Gain longer for each.     *)
LEMMA NewSize ==
  ASSUME TypeOK, Gain > 0
  PROVE  new_size \in Nat /\ new_size = size + changed * Gain /\ changed * Gain \in Nat
<1>1. changed \in Nat /\ Gain \in Nat /\ size \in Nat
  BY Types
<1>2. \A x, y \in Nat : x * y \in Nat
  OBVIOUS
<1>3. changed * Gain \in Nat
  BY <1>1, <1>2
<1> QED BY <1>1, <1>3 DEF new_size, Gain

LEMMA MakeRoomKeeps == ASSUME IInv, MakeRoom PROVE IInv'
<1> DEFINE need == new_size + (size - first) + 1
<1>1. pc = "count" /\ changed > 1 /\ UNCHANGED <<call, changed>>
  BY DEF MakeRoom, Counted
<1>2. /\ TypeOK /\ ~overrun /\ size < alloc /\ end = size /\ Gain > 0
      /\ first <= last /\ last + find_len <= end
  BY <1>1 DEF IInv, Terminated, AtFirst, Counting
<1>3. /\ find_len \in Nat /\ rplc_len \in Nat /\ i.dst \in Nat /\ i.src \in Nat /\ i.src_e \in Nat
      /\ end \in Nat /\ n \in Nat /\ changed \in Nat
      /\ size \in Nat /\ alloc \in Nat /\ capacity = alloc /\ data \in Block(alloc)
      /\ first \in Nat /\ last \in Nat
  BY <1>2, Types
<1>4. new_size \in Nat /\ new_size = size + changed * Gain /\ changed * Gain \in Nat
  BY <1>2, NewSize
<1>5. /\ size - first \in Nat /\ need \in Nat /\ new_size + (size - first) + 1 = need
      /\ new_size + (last + find_len - first) \in Nat
      /\ new_size + find_len <= new_size + (last + find_len - first)
      /\ new_size + (last + find_len - first) <= new_size + (end - first)
      /\ new_size + (end - first) \in Nat /\ new_size + (end - first) < need
      /\ new_size <= new_size + (end - first)
  BY <1>2, <1>3, <1>4
<1>6. first + changed * Gain + (end - first) <= new_size
  BY <1>2, <1>3, <1>4
<1>7. ASSUME NEW b \in Reserved(Buffer, need),
             Works(b, Move(b.data, new_size, first, size - first), size),
             Touch(b, new_size + (size - first)),
             i' = [dst |-> first, src |-> new_size, src_e |-> new_size],
             last' = new_size + (last + find_len - first),
             end' = new_size + (end - first),
             first' = new_size, n' = changed, pc' = "fill", UNCHANGED ret
      PROVE  IInv'
  <2>1. Sound(b) /\ b.alloc >= need /\ b.alloc >= alloc
    BY <1>2, <1>5, BufferSound, ReserveSound
  <2>2. b.alloc \in Nat /\ b.cap = b.alloc /\ b.data \in Block(b.alloc)
    BY <2>1 DEF Sound
  <2>3. /\ data' = Move(b.data, new_size, first, size - first) /\ alloc' = b.alloc
        /\ capacity' = b.cap /\ size' = size
    BY <1>7 DEF Works
  <2>4. data' \in Block(alloc')
    BY <1>3, <1>4, <2>2, <2>3, MoveType
  <2>5. overrun' = FALSE
    <3>1. ~(new_size + (size - first) > b.alloc)
      BY <1>3, <1>4, <1>5, <2>1, <2>2
    <3> QED BY <1>2, <1>7, <3>1, InBlock
  <2>6. /\ i' \in [dst : Nat, src : Nat, src_e : Nat]
        /\ i'.dst = first /\ i'.src = new_size /\ i'.src_e = new_size
    BY <1>3, <1>4, <1>7
  <2>7. last' \in Nat /\ end' \in Nat /\ first' \in Nat /\ n' \in Nat
    BY <1>3, <1>4, <1>5, <1>7
  <2>8. TypeOK' /\ ~overrun'
    BY <1>1, <1>2, <1>3, <1>7, <2>2, <2>3, <2>4, <2>5, <2>6, <2>7, StepKeeps
  <2>9. Gain' = Gain /\ find_len' = find_len
    BY <1>1, SameCall
  <2>10. size' < alloc' /\ end' < alloc'
    BY <1>2, <1>3, <1>5, <1>7, <2>1, <2>2, <2>3
  <2>11. i'.dst + n' * Gain' + (end' - i'.src) <= first'
    <3>1. n' = changed /\ end' = new_size + (end - first) /\ first' = new_size
      BY <1>7
    <3>2. n' * Gain' = changed * Gain
      BY <2>9, <3>1
    <3>3. i'.src = new_size /\ i'.dst = first
      BY <2>6
    <3>4. end' - new_size = end - first
      BY <1>3, <1>4, <3>1
    <3> QED BY <1>6, <3>1, <3>2, <3>3, <3>4
  <2>12. i'.src_e + find_len' <= last' /\ last' <= end' /\ first' <= end' /\ n' > 0
    BY <1>1, <1>3, <1>5, <1>7, <2>6, <2>9
  <2>13. Ahead'
    BY <1>2, <1>4, <1>7, <2>6, <2>9, <2>10, <2>11, <2>12 DEF Ahead
  <2> QED
    BY <1>7, <2>8, <2>10, <2>13 DEF IInv, Terminated, AtFirst, Behind, Counting
<1>8. CASE Unchanged(Error) /\ UNCHANGED <<i, first, last, end, n>>
  BY <1>1, <1>8, UnchangedKeeps
<1> QED BY <1>7, <1>8 DEF MakeRoom

(* What is left to write once a match is replaced. *)
LEMMA Replaced ==
  ASSUME NEW dst \in Nat, NEW prev \in Nat, NEW f \in Nat, NEW r \in Nat, NEW k \in Nat \ {0},
         NEW e \in Nat, NEW s \in Nat
  PROVE  (dst + prev + r) + (k - 1) * (r - f) + (e - (s + prev + f))
           = dst + k * (r - f) + (e - s)
<1>1. \A x \in Int : (k - 1) * x = k * x - x
  OBVIOUS
<1>2. (k - 1) * (r - f) = k * (r - f) - (r - f) /\ k * (r - f) \in Int
  BY <1>1
<1> QED BY <1>2

LEMMA FillStepKeeps == ASSUME IInv, FillStep PROVE IInv'
<1> DEFINE prev == i.src_e - i.src
<1>1. /\ pc = "fill" /\ pc' = "search" /\ n' = n - 1
      /\ UNCHANGED <<alloc, size, capacity, call, first, last, end, changed, ret>>
      /\ data' = Put(prev)
      /\ i' = [dst |-> i.dst + prev + rplc_len,
               src |-> i.src + prev + find_len, src_e |-> i.src_e + find_len]
      /\ Touch(Buffer, i.dst + prev + rplc_len)
  BY DEF FillStep
<1>2. /\ TypeOK /\ ~overrun /\ size < alloc /\ Gain > 0
      /\ i.dst + n * Gain + (end - i.src) <= first
      /\ i.src <= i.src_e /\ n > 0 /\ i.src_e + find_len <= last
      /\ first <= end /\ last <= end /\ end < alloc
  BY <1>1 DEF IInv, Terminated, Ahead
<1>3. /\ find_len \in Nat /\ rplc_len \in Nat /\ i.dst \in Nat /\ i.src \in Nat /\ i.src_e \in Nat
      /\ end \in Nat /\ n \in Nat /\ changed \in Nat /\ Gain \in Nat
      /\ size \in Nat /\ alloc \in Nat /\ capacity = alloc /\ data \in Block(alloc)
      /\ first \in Nat /\ last \in Nat
  BY <1>2, Types
<1>4. /\ prev \in Nat /\ i.dst + prev + rplc_len \in Nat
      /\ i.src + prev + find_len = i.src_e + find_len /\ i.src_e + find_len \in Nat
      /\ i.src_e + find_len <= end /\ n - 1 \in Nat
  BY <1>2, <1>3
<1>5. (i.dst + prev + rplc_len) + (n - 1) * Gain + (end - (i.src + prev + find_len)) <= first
  <2>1. n \in Nat \ {0}
    BY <1>2, <1>3
  <2>2. (i.dst + prev + rplc_len) + (n - 1) * Gain + (end - (i.src + prev + find_len))
          = i.dst + n * Gain + (end - i.src)
    BY <1>3, <1>4, <2>1, Replaced DEF Gain
  <2> QED BY <1>2, <2>2
<1>6. i.dst + prev + rplc_len <= first
  <2>1. \A x, y \in Nat : x * y \in Nat
    OBVIOUS
  <2>2. (n - 1) * Gain \in Nat
    BY <1>3, <1>4, <2>1
  <2>3. end - (i.src + prev + find_len) \in Nat
    BY <1>3, <1>4
  <2> HIDE DEF prev
  <2> QED BY <1>3, <1>4, <1>5, <2>2, <2>3
<1> HIDE DEF prev
<1>7. data' \in Block(alloc)
  BY <1>1, <1>2, <1>4, PutType
<1>8. overrun' = FALSE
  <2>1. ~(i.dst + prev + rplc_len > Buffer.alloc)
    BY <1>2, <1>3, <1>4, <1>6 DEF Buffer
  <2> QED BY <1>1, <1>2, <2>1, InBlock
<1>9. /\ i' \in [dst : Nat, src : Nat, src_e : Nat]
      /\ i'.dst = i.dst + prev + rplc_len /\ i'.src = i.src + prev + find_len
      /\ i'.src_e = i.src_e + find_len
  BY <1>1, <1>3, <1>4
<1>10. TypeOK' /\ ~overrun'
  BY <1>1, <1>2, <1>3, <1>4, <1>7, <1>8, <1>9, StepKeeps
<1>11. Gain' = Gain
  BY <1>1, SameCall
<1>12. i'.dst + n' * Gain' + (end' - i'.src) <= first'
  BY <1>1, <1>5, <1>9, <1>11
<1>13. i'.src <= i'.src_e /\ i'.src_e <= last'
  BY <1>1, <1>2, <1>3, <1>4, <1>9
<1>14. Ahead'
  BY <1>1, <1>2, <1>11, <1>12, <1>13 DEF Ahead
<1> QED
  BY <1>1, <1>2, <1>10, <1>14 DEF IInv, Terminated, AtFirst, Behind, Counting

LEMMA FillNextKeeps == ASSUME IInv, FillNext PROVE IInv'
<1>1. /\ pc = "search" /\ pc' = "fill" /\ n # 0
      /\ UNCHANGED <<data, alloc, size, capacity, call, first, last, end, n, changed,
                     ret, overrun>>
  BY DEF FillNext
<1>2. /\ TypeOK /\ ~overrun /\ overrun \in BOOLEAN /\ size < alloc /\ Ahead
  BY DEF IInv, TypeOK, Terminated
<1>3. /\ find_len \in Nat /\ i.dst \in Nat /\ i.src \in Nat /\ i.src_e \in Nat
      /\ end \in Nat /\ n \in Nat /\ changed \in Nat
      /\ size \in Nat /\ alloc \in Nat /\ capacity = alloc /\ data \in Block(alloc)
      /\ first \in Nat /\ last \in Nat
  BY <1>2, Types
<1>4. PICK p \in 0..alloc : MemMem(p, i.src_e, last) /\ i' = [i EXCEPT !.src_e = p]
  BY DEF FillNext
<1>5. p \in Nat /\ i.src_e <= p /\ p + find_len <= last
  BY <1>2, <1>3, <1>4, MatchWithin
<1>6. /\ i' \in [dst : Nat, src : Nat, src_e : Nat]
      /\ i'.dst = i.dst /\ i'.src = i.src /\ i'.src_e = p
  BY <1>2, <1>4, <1>5 DEF TypeOK
<1>7. overrun' = FALSE
  BY <1>1, <1>2
<1>8. TypeOK' /\ ~overrun'
  BY <1>1, <1>2, <1>3, <1>6, <1>7, StepKeeps
<1>9. Gain' = Gain /\ find_len' = find_len
  BY <1>1, SameCall
<1>10. n > 0 /\ i.src <= p
  BY <1>1, <1>2, <1>3, <1>5 DEF Ahead
<1>11. Ahead'
  BY <1>1, <1>2, <1>5, <1>6, <1>9, <1>10 DEF Ahead
<1> QED
  BY <1>1, <1>2, <1>8, <1>11 DEF IInv, Terminated, AtFirst, Behind, Counting

LEMMA FillEndKeeps == ASSUME IInv, FillEnd PROVE IInv'
<1>1. pc = "search" /\ UNCHANGED <<call, i, first, last, end, n, changed>>
  BY DEF FillEnd
<1>2. /\ TypeOK /\ Gain > 0 /\ i.dst + n * Gain + (end - i.src) <= first
      /\ i.src <= i.src_e /\ i.src_e <= last /\ last <= end /\ first <= end /\ end < alloc
  BY <1>1 DEF IInv, Ahead
<1>3. /\ i.dst \in Nat /\ i.src \in Nat /\ i.src_e \in Nat /\ end \in Nat /\ n \in Nat
      /\ alloc \in Nat /\ Gain \in Nat /\ first \in Nat /\ last \in Nat
  BY <1>2, Types
<1>4. n * Gain \in Nat
  <2>1. \A x, y \in Nat : x * y \in Nat
    OBVIOUS
  <2> QED BY <1>3, <2>1
<1>5. i.src <= end /\ i.dst + (end - i.src) < alloc
  BY <1>2, <1>3, <1>4
<1> QED BY <1>1, <1>5, RestKeeps DEF FillEnd

LEMMA NextKeeps == ASSUME IInv, [Next]_vars PROVE IInv'
<1>1. CASE UNCHANGED vars
  BY <1>1
  DEF vars, IInv, TypeOK, Terminated, AtFirst, Behind, Counting, Ahead, Gain, find_len, rplc_len
<1> QED
  BY <1>1, RmOneKeeps, RmLastKeeps, RplcLastKeeps, RplcOneKeeps, RmnNothingKeeps,
     RmnFirstKeeps, RmnStepKeeps, RmnEndKeeps, RplcnNothingKeeps, RplcNChrKeeps,
     InPlaceNoneKeeps, InPlaceStepKeeps, InPlaceEndKeeps, GrowNoneKeeps, CountKeeps,
     CountedOneKeeps, MakeRoomKeeps, FillStepKeeps, FillNextKeeps, FillEndKeeps
  DEF Next

(***************************************************************************)
(* What the calls promise.                                                 *)
(***************************************************************************)

Calls == [op : Ops, start : Nat, find : Finds, rplc : Rplcs, n : Counts, text : Texts]

LEMMA CallTypes ==
  ASSUME NEW c \in Calls
  PROVE  /\ c.text \in Seq(Char) /\ c.find \in Seq(Char) /\ c.rplc \in Seq(Char)
         /\ c.n \in Nat /\ c.start \in Nat
BY TextsAssumption, CountsAssumption DEF Calls

(* What has been made of the first part of a text. *)
Part(c) == [at : 0..Len(c.text), out : Seq(Char), count : Nat]

LEMMA FoundWithin ==
  ASSUME NEW c \in Calls, NEW p \in Nat
  PROVE  /\ FoundFrom(c, p) \subseteq Nat
         /\ \A q \in FoundFrom(c, p) : p <= q /\ q + Len(c.find) <= Len(c.text)
         /\ FoundFrom(c, p) # {} => \E q \in FoundFrom(c, p) : Leftmost(q, FoundFrom(c, p))
<1> DEFINE from == IF p < c.start THEN c.start ELSE p
<1>1. from \in Nat /\ p <= from /\ Len(c.text) \in Nat /\ Len(c.find) \in Nat
  BY CallTypes
<1>2. \A q \in FoundFrom(c, p) : q \in from..(Len(c.text) - Len(c.find))
  BY DEF FoundFrom, Matches
<1> HIDE DEF from
<1>3. \A q \in FoundFrom(c, p) : q \in Nat /\ p <= q /\ q + Len(c.find) <= Len(c.text)
  <2>1. \A a, l, k \in Nat : \A q \in a..(l - k) : q \in Nat /\ a <= q /\ q + k <= l
    OBVIOUS
  <2>2. \A q \in FoundFrom(c, p) : q \in Nat /\ from <= q /\ q + Len(c.find) <= Len(c.text)
    BY <1>1, <1>2, <2>1
  <2> QED BY <1>1, <2>2
<1>4. FoundFrom(c, p) \subseteq Nat
  BY <1>3
<1>5. FoundFrom(c, p) # {} => \E q \in FoundFrom(c, p) : Leftmost(q, FoundFrom(c, p))
  BY <1>4, Least DEF Leftmost
<1> QED BY <1>3, <1>4, <1>5

LEMMA TheLeftmost ==
  ASSUME NEW S \in SUBSET Nat, NEW p, Leftmost(p, S)
  PROVE  p = CHOOSE q \in S : Leftmost(q, S)
<1>1. p \in S /\ \A q \in S : Leftmost(q, S) => q = p
  <2>1. ASSUME NEW q \in S, Leftmost(q, S) PROVE q = p
    <3>1. p <= q /\ q <= p /\ p \in Nat /\ q \in Nat
      BY <2>1 DEF Leftmost
    <3> QED BY <3>1
  <2> QED BY <2>1 DEF Leftmost
<1> QED BY <1>1, Zenon

LEMMA TheRightmost ==
  ASSUME NEW S \in SUBSET Nat, NEW p, Rightmost(p, S)
  PROVE  p = CHOOSE q \in S : Rightmost(q, S)
<1>1. p \in S /\ \A q \in S : Rightmost(q, S) => q = p
  <2>1. ASSUME NEW q \in S, Rightmost(q, S) PROVE q = p
    <3>1. p <= q /\ q <= p /\ p \in Nat /\ q \in Nat
      BY <2>1 DEF Rightmost
    <3> QED BY <3>1
  <2> QED BY <2>1 DEF Rightmost
<1> QED BY <1>1, Zenon

LEMMA OneMoreTreats ==
  ASSUME NEW c \in Calls, NEW r \in Part(c), NEW p, Leftmost(p, FoundFrom(c, r.at))
  PROVE  OneMore(c, r) = Treat(c, r, p)
<1>1. r.at \in Nat
  BY DEF Part
<1>2. p = CHOOSE q \in FoundFrom(c, r.at) : Leftmost(q, FoundFrom(c, r.at))
  BY <1>1, FoundWithin, TheLeftmost
<1>3. FoundFrom(c, r.at) # {}
  BY DEF Leftmost
<1> QED BY <1>2, <1>3, Zenon DEF OneMore

LEMMA TreatType ==
  ASSUME NEW c \in Calls, NEW r \in Part(c), NEW p \in Nat,
         r.at <= p, p + Len(c.find) <= Len(c.text)
  PROVE  /\ Treat(c, r, p) \in Part(c)
         /\ Treat(c, r, p).at = p + Len(c.find)
         /\ Treat(c, r, p).count = r.count + 1
<1>1. c.text \in Seq(Char) /\ c.rplc \in Seq(Char) /\ Len(c.find) \in Nat
  BY CallTypes
<1>2. r.out \in Seq(Char) /\ r.at \in 0..Len(c.text) /\ r.count \in Nat
  BY DEF Part
<1>3. SubSeq(c.text, r.at + 1, p) \in Seq(Char)
  BY <1>1, <1>2
<1>4. r.out \o SubSeq(c.text, r.at + 1, p) \o c.rplc \in Seq(Char)
  BY <1>1, <1>2, <1>3
<1>5. p + Len(c.find) \in 0..Len(c.text) /\ r.count + 1 \in Nat
  BY <1>1, <1>2
<1> QED BY <1>4, <1>5 DEF Treat, Part

LEMMA OneMoreType ==
  ASSUME NEW c \in Calls, NEW r \in Part(c)
  PROVE  /\ OneMore(c, r) \in Part(c)
         /\ r.at <= OneMore(c, r).at
         /\ OneMore(c, r).count \in {r.count, r.count + 1}
<1>1. r.at \in Nat /\ r.count \in Nat
  BY DEF Part
<1>2. CASE FoundFrom(c, r.at) = {}
  <2>1. OneMore(c, r) = r
    BY <1>2 DEF OneMore
  <2> QED BY <1>1, <2>1
<1>3. CASE FoundFrom(c, r.at) # {}
  <2>1. PICK p : Leftmost(p, FoundFrom(c, r.at))
    BY <1>1, <1>3, FoundWithin
  <2>2. p \in Nat /\ r.at <= p /\ p + Len(c.find) <= Len(c.text) /\ Len(c.find) \in Nat
    BY <1>1, <2>1, FoundWithin, CallTypes DEF Leftmost
  <2>3. OneMore(c, r) = Treat(c, r, p)
    BY <2>1, OneMoreTreats
  <2> QED BY <1>1, <2>2, <2>3, TreatType
<1> QED BY <1>2, <1>3

LEMMA NothingType == ASSUME NEW c \in Calls PROVE Nothing \in Part(c)
<1>1. <<>> \in Seq(Char) /\ 0 \in 0..Len(c.text)
  BY CallTypes
<1> QED BY <1>1 DEF Nothing, Part

Follows(f, c, m) == f = [j \in 0..m |-> IF j = 0 THEN Nothing ELSE OneMore(c, f[j - 1])]

LEMMA RunExists == ASSUME NEW c \in Calls PROVE \E f : Follows(f, c, c.n)
<1> DEFINE S == {k \in Nat : \E f : Follows(f, c, k)}
<1>1. 0 \in S
  <2> DEFINE f == [j \in 0..0 |-> Nothing]
  <2>1. Follows(f, c, 0)
    BY DEF Follows
  <2> QED BY <2>1
<1>2. ASSUME NEW k \in Nat, k \in S PROVE k + 1 \in S
  <2>1. PICK f : Follows(f, c, k)
    BY <1>2
  <2> DEFINE g == [j \in 0..(k + 1) |-> IF j = k + 1 THEN OneMore(c, f[k]) ELSE f[j]]
  <2>2. \A j \in 0..k : f[j] = IF j = 0 THEN Nothing ELSE OneMore(c, f[j - 1])
    BY <2>1 DEF Follows
  <2>3. ASSUME NEW j \in 0..(k + 1)
        PROVE  g[j] = IF j = 0 THEN Nothing ELSE OneMore(c, g[j - 1])
    <3>1. CASE j = k + 1
      <4>1. j # 0 /\ g[j - 1] = f[k]
        BY <3>1
      <4> QED BY <3>1, <4>1
    <3>2. CASE j # k + 1
      <4>1. j \in 0..k /\ g[j] = f[j] /\ (j # 0 => g[j - 1] = f[j - 1])
        BY <3>2
      <4> QED BY <2>2, <4>1
    <3> QED BY <3>1, <3>2
  <2>4. Follows(g, c, k + 1)
    BY <2>3, Zenon DEF Follows
  <2> QED BY <2>4
<1> HIDE DEF S
<1>3. \A k \in Nat : k \in S
  BY <1>1, <1>2, Induction
<1>4. c.n \in S
  BY <1>3, CallTypes
<1> QED BY <1>4 DEF S

LEMMA RunUnfolds ==
  ASSUME NEW c \in Calls
  PROVE  Run(c, 0) = Nothing /\ \A k \in 1..c.n : Run(c, k) = OneMore(c, Run(c, k - 1))
<1> DEFINE f == CHOOSE f : f = [j \in 0..c.n |-> IF j = 0 THEN Nothing ELSE OneMore(c, f[j - 1])]
<1>1. Follows(f, c, c.n)
  BY RunExists, Zenon DEF Follows
<1>2. \A k : Run(c, k) = f[k]
  BY Zenon DEF Run
<1> HIDE DEF f
<1>3. c.n \in Nat
  BY CallTypes
<1>4. \A k \in 0..c.n : f[k] = IF k = 0 THEN Nothing ELSE OneMore(c, f[k - 1])
  BY <1>1 DEF Follows
<1>5. f[0] = Nothing
  BY <1>3, <1>4
<1>6. \A k \in 1..c.n : f[k] = OneMore(c, f[k - 1])
  BY <1>3, <1>4
<1> QED BY <1>2, <1>5, <1>6

LEMMA RunType ==
  ASSUME NEW c \in Calls, NEW k \in 0..c.n
  PROVE  Run(c, k) \in Part(c) /\ Run(c, k).count <= k
<1> DEFINE S == {j \in Nat : j <= c.n => Run(c, j) \in Part(c) /\ Run(c, j).count <= j}
<1>1. 0 \in S
  <2>1. Run(c, 0) = Nothing /\ Nothing.count = 0
    BY RunUnfolds DEF Nothing
  <2> QED BY <2>1, NothingType
<1>2. ASSUME NEW j \in Nat, j \in S PROVE j + 1 \in S
  <2> SUFFICES ASSUME j + 1 <= c.n
               PROVE  Run(c, j + 1) \in Part(c) /\ Run(c, j + 1).count <= j + 1
    OBVIOUS
  <2>1. c.n \in Nat
    BY CallTypes
  <2>2. Run(c, j) \in Part(c) /\ Run(c, j).count <= j
    BY <1>2, <2>1
  <2>3. Run(c, j + 1) = OneMore(c, Run(c, j))
    <3>1. j + 1 \in 1..c.n /\ (j + 1) - 1 = j
      BY <2>1
    <3> QED BY <3>1, RunUnfolds
  <2>4. Run(c, j).count \in Nat
    BY <2>2 DEF Part
  <2> QED BY <2>2, <2>3, <2>4, OneMoreType
<1> HIDE DEF S
<1>3. \A j \in Nat : j \in S
  BY <1>1, <1>2, Induction
<1>4. k \in S /\ k <= c.n
  BY <1>3, CallTypes
<1> QED BY <1>4 DEF S

(* Each match is behind the ones before it. *)
LEMMA RunGoesOn ==
  ASSUME NEW c \in Calls, NEW k \in 0..c.n, NEW j \in 0..k
  PROVE  Run(c, j).at <= Run(c, k).at /\ Run(c, k).count <= Run(c, j).count + (k - j)
<1>1. c.n \in Nat
  BY CallTypes
<1> DEFINE S == {m \in Nat : j + m <= k =>
                   /\ Run(c, j).at <= Run(c, j + m).at
                   /\ Run(c, j + m).count <= Run(c, j).count + m}
<1>2. \A m \in Nat : j + m <= k => Run(c, j + m).at \in Nat /\ Run(c, j + m).count \in Nat
  <2>1. ASSUME NEW m \in Nat, j + m <= k
        PROVE  Run(c, j + m).at \in Nat /\ Run(c, j + m).count \in Nat
    <3>1. j + m \in 0..c.n
      BY <1>1, <2>1
    <3>2. Run(c, j + m) \in Part(c)
      BY <3>1, RunType
    <3> QED BY <3>2 DEF Part
  <2> QED BY <2>1
<1>3. 0 \in S
  <2>1. j + 0 = j /\ j <= k
    OBVIOUS
  <2>2. Run(c, j).at \in Nat /\ Run(c, j).count \in Nat
    BY <1>2, <2>1
  <2>3. Run(c, j).at <= Run(c, j).at /\ Run(c, j).count <= Run(c, j).count + 0
    BY <2>2
  <2> QED BY <2>1, <2>3
<1>4. ASSUME NEW m \in Nat, m \in S PROVE m + 1 \in S
  <2> SUFFICES ASSUME j + (m + 1) <= k
               PROVE  /\ Run(c, j).at <= Run(c, j + (m + 1)).at
                      /\ Run(c, j + (m + 1)).count <= Run(c, j).count + (m + 1)
    OBVIOUS
  <2>1. PICK l \in 1..c.n : l = j + (m + 1) /\ l - 1 = j + m /\ l - 1 \in 0..c.n
    BY <1>1
  <2>2. Run(c, l) = OneMore(c, Run(c, l - 1))
    BY RunUnfolds
  <2>3. Run(c, l - 1) \in Part(c)
    BY <2>1, RunType
  <2>4. Run(c, l - 1).at <= Run(c, l).at
        /\ Run(c, l).count \in {Run(c, l - 1).count, Run(c, l - 1).count + 1}
    BY <2>2, <2>3, OneMoreType
  <2>5. Run(c, j).at <= Run(c, l - 1).at /\ Run(c, l - 1).count <= Run(c, j).count + m
    <3>1. j + m <= k
      OBVIOUS
    <3> QED BY <1>4, <2>1, <3>1
  <2>6. /\ Run(c, j).at \in Nat /\ Run(c, j).count \in Nat
        /\ Run(c, l - 1).at \in Nat /\ Run(c, l - 1).count \in Nat
        /\ Run(c, l).at \in Nat /\ Run(c, l).count \in Nat
    <3>1. j + 0 = j /\ j + 0 <= k /\ j + m <= k
      OBVIOUS
    <3> QED BY <1>2, <2>1, <3>1
  <2>7. Run(c, j).at <= Run(c, l).at /\ Run(c, l).count <= Run(c, j).count + (m + 1)
    BY <2>4, <2>5, <2>6
  <2> QED BY <2>1, <2>7
<1> HIDE DEF S
<1>5. \A m \in Nat : m \in S
  BY <1>3, <1>4, Induction
<1>6. k - j \in Nat /\ j + (k - j) = k
  OBVIOUS
<1>7. k - j \in S
  BY <1>5, <1>6
<1>8. /\ Run(c, j).at <= Run(c, j + (k - j)).at
      /\ Run(c, j + (k - j)).count <= Run(c, j).count + (k - j)
  BY <1>6, <1>7 DEF S
<1> QED BY <1>6, <1>8

LEMMA RunAll ==
  ASSUME NEW c \in Calls, NEW k \in 0..c.n, Run(c, k).count = k, NEW j \in 0..k
  PROVE  Run(c, j).count = j /\ Run(c, j).at <= Run(c, k).at
<1>1. j \in 0..c.n
  BY CallTypes
<1>2. Run(c, j).count <= j /\ Run(c, j).count \in Nat
  BY <1>1, RunType DEF Part
<1>3. k <= Run(c, j).count + (k - j) /\ Run(c, j).at <= Run(c, k).at
  BY RunGoesOn
<1> QED BY <1>2, <1>3

LEMMA RunStays ==
  ASSUME NEW c \in Calls, NEW j \in 0..c.n, FoundFrom(c, Run(c, j).at) = {}
  PROVE  Run(c, c.n) = Run(c, j)
<1>1. c.n \in Nat
  BY CallTypes
<1> DEFINE S == {m \in Nat : j + m <= c.n => Run(c, j + m) = Run(c, j)}
<1>2. 0 \in S
  <2>1. j + 0 = j
    OBVIOUS
  <2> QED BY <2>1
<1>3. ASSUME NEW m \in Nat, m \in S PROVE m + 1 \in S
  <2> SUFFICES ASSUME j + (m + 1) <= c.n PROVE Run(c, j + (m + 1)) = Run(c, j)
    OBVIOUS
  <2>1. PICK l \in 1..c.n : l = j + (m + 1) /\ l - 1 = j + m
    BY <1>1
  <2>2. Run(c, l - 1) = Run(c, j)
    <3>1. j + m <= c.n
      BY <1>1
    <3> QED BY <1>3, <2>1, <3>1
  <2>3. Run(c, l) = OneMore(c, Run(c, j))
    BY <2>2, RunUnfolds
  <2>4. Run(c, l) = Run(c, j)
    BY <2>3 DEF OneMore
  <2> QED BY <2>1, <2>4
<1> HIDE DEF S
<1>4. \A m \in Nat : m \in S
  BY <1>2, <1>3, Induction
<1>5. c.n - j \in Nat /\ j + (c.n - j) = c.n
  BY <1>1
<1>6. c.n - j \in S
  BY <1>4, <1>5
<1>7. Run(c, j + (c.n - j)) = Run(c, j)
  BY <1>1, <1>5, <1>6 DEF S
<1> QED BY <1>5, <1>7

(* The next match that is treated is the leftmost one that is left. *)
LEMMA RunNext ==
  ASSUME NEW c \in Calls, NEW j \in 0..(c.n - 1), NEW p, Leftmost(p, FoundFrom(c, Run(c, j).at))
  PROVE  /\ Run(c, j + 1) = Treat(c, Run(c, j), p)
         /\ Run(c, j + 1).at = p + Len(c.find)
         /\ Run(c, j + 1).count = Run(c, j).count + 1
<1>1. j + 1 \in 1..c.n /\ (j + 1) - 1 = j /\ j \in 0..c.n
  BY CallTypes
<1>2. Run(c, j) \in Part(c)
  BY <1>1, RunType
<1>3. Run(c, j + 1) = OneMore(c, Run(c, j))
  BY <1>1, RunUnfolds
<1>4. Run(c, j + 1) = Treat(c, Run(c, j), p)
  BY <1>2, <1>3, OneMoreTreats
<1> QED BY <1>4 DEF Treat

(* When one more match was treated than at j, there was one. *)
LEMMA RunFinds ==
  ASSUME NEW c \in Calls, NEW j \in 0..(c.n - 1), Run(c, j).count = j, Run(c, j + 1).count = j + 1
  PROVE  \E p \in Nat : Leftmost(p, FoundFrom(c, Run(c, j).at))
<1>1. j + 1 \in 1..c.n /\ (j + 1) - 1 = j /\ j \in 0..c.n
  BY CallTypes
<1>2. Run(c, j).at \in Nat
  BY <1>1, RunType DEF Part
<1>3. Run(c, j + 1) = OneMore(c, Run(c, j))
  BY <1>1, RunUnfolds
<1>4. FoundFrom(c, Run(c, j).at) # {}
  BY <1>3 DEF OneMore
<1> QED BY <1>2, <1>4, FoundWithin

(***************************************************************************)
(* What the loops have made of the text.                                   *)
(***************************************************************************)

(* How far the text has been moved. *)
Shift == end - size

(* What is still to be read is the text the caller gave. *)
Unread(from) == \A k \in from..(end - 1) : data[k] = call.text[k - Shift + 1]

(* j matches have been treated: what they have made of the text is below   *)
(* dst, and the text behind them is at src.                                 *)
Made(j, dst, src) == [at |-> src - Shift, out |-> Prefix(data, dst), count |-> j]

InLoop == pc \notin {"entry", "done"}

CallOK ==
  /\ call.op \notin {"rmn", "rplcn"} => call.n = 1
  /\ call.op \in {"rm", "rmn", "rmlast"} => rplc_len = 0
  /\ call.op \in {"rmlast", "rplclast"} => call.start = 0

Sizes ==
  /\ pc # "done" => size = Len(call.text)
  /\ InLoop => find_len # 0 /\ call.op \notin {"rmlast", "rplclast"}
  /\ pc = "entry" => n = call.n
  /\ pc = "rm" => rplc_len = 0
  /\ pc \in {"rm", "inplace", "chr", "count"} => n + changed = call.n /\ changed > 0

OnePass ==
  /\ pc \in {"rm", "inplace"} =>
       Run(call, changed) = Made(changed, i.dst, i.src) /\ Unread(i.src)
  /\ pc = "inplace" /\ rplc_len = find_len => i.dst = i.src
  /\ pc = "chr" =>
       Run(call, changed) = Made(changed, i.src_e, i.src_e) /\ Unread(i.src_e)

FirstPass ==
  pc = "count" =>
    /\ Run(call, changed).count = changed /\ Run(call, changed).at = i.src_e
    /\ Run(call, 1) = Treat(call, Nothing, first)

SecondPass ==
  pc \in {"fill", "search"} =>
    /\ n <= changed /\ changed <= call.n /\ changed > 0
    /\ Run(call, changed).count = changed /\ Run(call, changed).at + Shift = last
    /\ changed = call.n \/ FoundFrom(call, Run(call, changed).at) = {}
    /\ 0 <= Shift /\ Shift <= i.src /\ Unread(i.src)
    /\ pc = "search" =>
         /\ n < changed /\ i.src_e = i.src
         /\ Run(call, changed - n) = Made(changed - n, i.dst, i.src)
    /\ pc = "fill" =>
         /\ Made(changed - n, i.dst, i.src) \in Part(call)
         /\ Run(call, changed - n + 1)
              = Treat(call, Made(changed - n, i.dst, i.src), i.src_e - Shift)

Returned ==
  (pc = "done" /\ ret # Error)
    => Prefix(data, size) = Finished(call, Expected(call)) /\ ret = Expected(call).count

Replacing == CallOK /\ Sizes /\ OnePass /\ FirstPass /\ SecondPass /\ Returned

(***************************************************************************)
(* Writing what is expected.                                               *)
(***************************************************************************)

LEMMA CallIs == ASSUME TypeOK PROVE call \in Calls
BY DEF TypeOK, Calls

LEMMA Between ==
  ASSUME NEW s \in Seq(Char), NEW j \in 0..Len(s), NEW k \in j..Len(s)
  PROVE  /\ SubSeq(s, j + 1, k) \in Seq(Char)
         /\ Len(SubSeq(s, j + 1, k)) = k - j
         /\ \A l \in 1..(k - j) : SubSeq(s, j + 1, k)[l] = s[j + l]
<1>1. j + 1 \in 1..(Len(s) + 1) /\ k \in j..Len(s) /\ Len(s) \in Nat
  OBVIOUS
<1>2. SubSeq(s, j + 1, k) \in Seq(Char) /\ Len(SubSeq(s, j + 1, k)) = k - j
  <2>1. SubSeq(s, j + 1, k) \in Seq(Char)
    OBVIOUS
  <2>2. Len(SubSeq(s, j + 1, k)) = IF j + 1 <= k THEN k - (j + 1) + 1 ELSE 0
    OBVIOUS
  <2> QED BY <2>1, <2>2
<1>3. ASSUME NEW l \in 1..(k - j) PROVE SubSeq(s, j + 1, k)[l] = s[j + l]
  <2>1. SubSeq(s, j + 1, k)[l] = s[(j + 1) + l - 1]
    OBVIOUS
  <2>2. (j + 1) + l - 1 = j + l
    OBVIOUS
  <2> QED BY <2>1, <2>2
<1> QED BY <1>2, <1>3

LEMMA Split ==
  ASSUME NEW s \in Seq(Char), NEW j \in 0..Len(s), NEW k \in j..Len(s)
  PROVE  SubSeq(s, 1, j) \o SubSeq(s, j + 1, k) = SubSeq(s, 1, k)
<1>1. /\ SubSeq(s, 1, j) \in Seq(Char) /\ Len(SubSeq(s, 1, j)) = j
      /\ \A l \in 1..j : SubSeq(s, 1, j)[l] = s[l]
  <2>1. 0 \in 0..Len(s) /\ j \in 0..Len(s) /\ 0 + 1 = 1 /\ j - 0 = j /\ \A l \in 1..j : 0 + l = l
    OBVIOUS
  <2>2. \A x \in 0..Len(s) : \A y \in x..Len(s) :
           /\ SubSeq(s, x + 1, y) \in Seq(Char) /\ Len(SubSeq(s, x + 1, y)) = y - x
           /\ \A l \in 1..(y - x) : SubSeq(s, x + 1, y)[l] = s[x + l]
    BY Between
  <2> QED BY <2>1, <2>2
<1>2. /\ SubSeq(s, 1, k) \in Seq(Char) /\ Len(SubSeq(s, 1, k)) = k
      /\ \A l \in 1..k : SubSeq(s, 1, k)[l] = s[l]
  <2>1. 0 \in 0..Len(s) /\ k \in 0..Len(s) /\ 0 + 1 = 1 /\ k - 0 = k /\ \A l \in 1..k : 0 + l = l
    OBVIOUS
  <2>2. \A x \in 0..Len(s) : \A y \in x..Len(s) :
           /\ SubSeq(s, x + 1, y) \in Seq(Char) /\ Len(SubSeq(s, x + 1, y)) = y - x
           /\ \A l \in 1..(y - x) : SubSeq(s, x + 1, y)[l] = s[x + l]
    BY Between
  <2> QED BY <2>1, <2>2
<1>3. PICK t \in Seq(Char) :
        /\ t = SubSeq(s, j + 1, k) /\ Len(t) = k - j /\ \A l \in 1..(k - j) : t[l] = s[j + l]
  BY Between
<1>4. PICK u \in Seq(Char) : u = SubSeq(s, 1, j) /\ Len(u) = j /\ \A l \in 1..j : u[l] = s[l]
  BY <1>1
<1>5. u \o t \in Seq(Char) /\ Len(u \o t) = k
  <2>1. u \o t \in Seq(Char) /\ Len(u \o t) = Len(u) + Len(t)
    OBVIOUS
  <2>2. j + (k - j) = k
    OBVIOUS
  <2> QED BY <1>3, <1>4, <2>1, <2>2
<1>6. ASSUME NEW l \in 1..k PROVE (u \o t)[l] = s[l]
  <2>1. CASE l <= j
    BY <1>3, <1>4, <2>1
  <2>2. CASE ~(l <= j)
    <3>1. l - j \in 1..(k - j) /\ j + (l - j) = l /\ l > j /\ l <= j + (k - j)
      BY <2>2
    <3>2. \A x \in 1..(Len(u) + Len(t)) : x > Len(u) => (u \o t)[x] = t[x - Len(u)]
      BY <1>3, <1>4
    <3>3. Len(u) = j /\ Len(t) = k - j /\ l \in 1..(Len(u) + Len(t))
      BY <1>3, <1>4, <3>1
    <3>4. (u \o t)[l] = t[l - j]
      BY <3>1, <3>2, <3>3
    <3> QED BY <1>3, <3>1, <3>4
  <2> QED BY <2>1, <2>2
<1>7. u \o t = SubSeq(s, 1, k)
  BY <1>2, <1>5, <1>6, SeqEqual
<1> QED BY <1>3, <1>4, <1>7

(* A string that is written behind another one, and one behind that. *)
LEMMA GlueTwo ==
  ASSUME NEW m, NEW d \in Nat, Prefix(m, d) \in Seq(Char), NEW t \in Seq(Char),
         NEW u \in Seq(Char), NEW w, Alike(w, m, d), Holds(w, d, t), Holds(w, d + Len(t), u)
  PROVE  Prefix(w, d + Len(t) + Len(u)) = Prefix(m, d) \o t \o u
<1>1. Prefix(w, d + Len(t)) = Prefix(m, d) \o t
  BY Glue
<1>2. \A e \in Nat : Prefix(w, e) \in Seq(Char) /\ Holds(w, e, u)
                       => Prefix(w, e + Len(u)) = Prefix(w, e) \o u
  BY Glue DEF Alike
<1>3. d + Len(t) \in Nat /\ Prefix(m, d) \o t \in Seq(Char)
  OBVIOUS
<1>4. Prefix(w, d + Len(t) + Len(u)) = Prefix(w, d + Len(t)) \o u
  BY <1>1, <1>2, <1>3
<1> QED BY <1>1, <1>4

(* The result so far, the text up to the match and the replacement, one     *)
(* behind the other.                                                        *)
LEMMA Pieces ==
  \A c \in Calls : \A r \in Part(c) : \A m : \A d \in Nat : \A w :
    r.out = Prefix(m, d) /\ Alike(w, m, d) =>
      \A p \in r.at..Len(c.text) :
        /\ Holds(w, d, SubSeq(c.text, r.at + 1, p))
        /\ Holds(w, d + (p - r.at), c.rplc)
        => Treat(c, r, p).out = Prefix(w, d + (p - r.at) + Len(c.rplc))
<1> SUFFICES ASSUME
      NEW c \in Calls, NEW r \in Part(c), NEW m, NEW d \in Nat, r.out = Prefix(m, d),
      NEW p \in r.at..Len(c.text), NEW w, Alike(w, m, d),
      Holds(w, d, SubSeq(c.text, r.at + 1, p)), Holds(w, d + (p - r.at), c.rplc)
    PROVE  Treat(c, r, p).out = Prefix(w, d + (p - r.at) + Len(c.rplc))
  OBVIOUS
<1>1. c.text \in Seq(Char) /\ c.rplc \in Seq(Char)
  BY CallTypes
<1>2. r.at \in 0..Len(c.text) /\ r.out \in Seq(Char)
  BY DEF Part
<1>3. PICK t : t = SubSeq(c.text, r.at + 1, p)
  OBVIOUS
<1>4. t \in Seq(Char) /\ Len(t) = p - r.at
  BY <1>1, <1>2, <1>3, Between
<1>5. PICK u \in Seq(Char) : u = c.rplc
  BY <1>1
<1>6. Holds(w, d, t) /\ Holds(w, d + Len(t), u)
  BY <1>3, <1>4, <1>5
<1>7. Prefix(m, d) \in Seq(Char)
  BY <1>2
<1>8. \A x, y \in Seq(Char) : Holds(w, d, x) /\ Holds(w, d + Len(x), y)
                             => Prefix(w, d + Len(x) + Len(y)) = Prefix(m, d) \o x \o y
  BY <1>7, GlueTwo
<1>9. Prefix(w, d + Len(t) + Len(u)) = Prefix(m, d) \o t \o u
  BY <1>4, <1>5, <1>6, <1>8
<1> QED BY <1>3, <1>4, <1>5, <1>9 DEF Treat

(* The result so far and the rest of the text. *)
LEMMA RestOf ==
  ASSUME NEW c \in Calls, NEW r \in Part(c), NEW m, NEW d \in Nat, r.out = Prefix(m, d),
         NEW w, Alike(w, m, d), Holds(w, d, SubSeq(c.text, r.at + 1, Len(c.text)))
  PROVE  Finished(c, r) = Prefix(w, d + (Len(c.text) - r.at))
<1>1. c.text \in Seq(Char)
  BY CallTypes
<1>2. r.at \in 0..Len(c.text) /\ r.out \in Seq(Char) /\ Len(c.text) \in r.at..Len(c.text)
  BY <1>1 DEF Part
<1>3. PICK t : t = SubSeq(c.text, r.at + 1, Len(c.text))
  OBVIOUS
<1>4. t \in Seq(Char) /\ Len(t) = Len(c.text) - r.at
  BY <1>1, <1>2, <1>3, Between
<1>5. Prefix(m, d) \in Seq(Char) /\ Holds(w, d, t)
  BY <1>2, <1>3
<1>6. Prefix(w, d + Len(t)) = Prefix(m, d) \o t
  BY <1>4, <1>5, Glue
<1> QED BY <1>3, <1>4, <1>6 DEF Finished

(* A block that begins with a text begins with what comes before a match.   *)
LEMMA Begins ==
  ASSUME NEW s \in Seq(Char), NEW p \in 0..Len(s), NEW w,
         \A k \in 0..(p - 1) : w[k] = s[k + 1]
  PROVE  Prefix(w, p) = SubSeq(s, 1, p)
<1>1. \A x \in 0..Len(s) : \A y \in x..Len(s) :
         /\ SubSeq(s, x + 1, y) \in Seq(Char) /\ Len(SubSeq(s, x + 1, y)) = y - x
         /\ \A l \in 1..(y - x) : SubSeq(s, x + 1, y)[l] = s[x + l]
  BY Between
<1>2. /\ 0 \in 0..Len(s) /\ p \in 0..Len(s) /\ 0 + 1 = 1 /\ p - 0 = p
      /\ \A l \in 1..p : 0 + l = l
  OBVIOUS
<1>3. /\ SubSeq(s, 1, p) \in Seq(Char) /\ Len(SubSeq(s, 1, p)) = p
      /\ \A l \in 1..p : SubSeq(s, 1, p)[l] = s[l]
  BY <1>1, <1>2
<1> DEFINE t == SubSeq(s, 1, p)
<1> HIDE DEF t
<1>6. t \in Seq(Char) /\ Len(t) = p /\ \A l \in 1..p : t[l] = s[l]
  BY <1>3 DEF t
<1>4. \A k \in 1..Len(t) : w[k - 1] = t[k]
  <2> TAKE k \in 1..Len(t)
  <2>1. k - 1 \in 0..(p - 1) /\ (k - 1) + 1 = k /\ k \in 1..p
    BY <1>6
  <2> QED BY <1>6, <2>1
<1>5. Prefix(w, Len(t)) = t
  BY <1>4, <1>6, PrefixIs
<1> QED BY <1>5, <1>6 DEF t

(* A text that is read from f on, what is before it left where it is.       *)
LEMMA StartTreats ==
  ASSUME NEW c \in Calls, NEW f \in 0..Len(c.text), NEW p \in f..Len(c.text), NEW w,
         \A k \in 0..(f - 1) : w[k] = c.text[k + 1]
  PROVE  /\ [at |-> f, out |-> Prefix(w, f), count |-> 0] \in Part(c)
         /\ Treat(c, [at |-> f, out |-> Prefix(w, f), count |-> 0], p) = Treat(c, Nothing, p)
<1> DEFINE r == [at |-> f, out |-> Prefix(w, f), count |-> 0]
<1>1. c.text \in Seq(Char) /\ f \in Nat /\ p \in Nat /\ p \in 0..Len(c.text)
  BY CallTypes
<1>2. Prefix(w, f) = SubSeq(c.text, 1, f)
  BY <1>1, Begins
<1>3. \A x \in Seq(Char) : \A k \in 0..Len(x) : SubSeq(x, 1, k) \in Seq(Char)
  OBVIOUS
<1>4. SubSeq(c.text, 1, f) \in Seq(Char) /\ SubSeq(c.text, 1, p) \in Seq(Char)
  BY <1>1, <1>3
<1>5. SubSeq(c.text, 1, f) \o SubSeq(c.text, f + 1, p) = SubSeq(c.text, 1, p)
  BY <1>1, Split
<1>6. r \in Part(c)
  BY <1>2, <1>4 DEF Part
<1>7. <<>> \o SubSeq(c.text, 1, p) = SubSeq(c.text, 1, p) /\ 0 + 1 = 1
  BY <1>4
<1>8. r.out \o SubSeq(c.text, r.at + 1, p) = <<>> \o SubSeq(c.text, 0 + 1, p)
  BY <1>2, <1>5, <1>7
<1>9. Treat(c, r, p) = Treat(c, Nothing, p)
  BY <1>8 DEF Treat, Nothing
<1> QED BY <1>6, <1>9

(***************************************************************************)
(* Searching the block is searching the text.                              *)
(***************************************************************************)

(* The loop searches on from `from', which is at `at' in the text. *)
Searching(from, at) ==
  /\ size = Len(call.text) /\ find_len # 0 /\ 0 <= Shift /\ at \in Nat
  /\ from = Shift + (IF at < call.start THEN call.start ELSE at)
  /\ Unread(from)

LEMMA Searched ==
  ASSUME TypeOK, NEW from, NEW at, Searching(from, at), NEW to \in Nat, to <= end, NEW p \in Nat
  PROVE  p \in Matches(data, call.find, from, to)
           <=> p - Shift \in FoundFrom(call, at) /\ p + find_len <= to
<1> DEFINE a == IF at < call.start THEN call.start ELSE at
           w == Given(call)
           L == Len(call.text)
<1>1. /\ call.find \in Seq(Char) /\ call.start \in Nat /\ find_len \in Nat
      /\ find_len = Len(call.find) /\ size \in Nat /\ end \in Nat /\ call.text \in Seq(Char)
  BY Types, CallIs, CallTypes DEF find_len
<1>2. PICK s : s = Shift
  OBVIOUS
<1>3. s \in Nat /\ end = s + L /\ L \in Nat /\ a \in Nat /\ from = s + a
  BY <1>1, <1>2 DEF Searching, Shift
<1>4. FoundFrom(call, at) = Matches(w, call.find, a, L)
  <2>1. call.find # <<>>
    BY <1>1 DEF Searching
  <2> QED BY <2>1 DEF FoundFrom
<1>5. \A k \in from..(end - 1) : data[k] = w[k - s]
  <2> TAKE k \in from..(end - 1)
  <2>1. k - s \in 0..(L - 1) /\ (k - s) + 1 = k - s + 1
    BY <1>3
  <2>2. w[k - s] = call.text[(k - s) + 1]
    BY <2>1 DEF Given
  <2>3. data[k] = call.text[k - s + 1]
    BY <1>2 DEF Searching, Unread
  <2> QED BY <2>1, <2>2, <2>3
<1> HIDE DEF a, w
<1>6. from \in Nat /\ s <= from /\ from - s = a /\ \A k \in from..(to - 1) : data[k] = w[k - s]
  <2>1. from \in Nat /\ s <= from /\ from - s = a
    BY <1>3
  <2>2. from..(to - 1) \subseteq from..(end - 1)
    BY <1>3
  <2> QED BY <1>5, <2>1, <2>2
<1>7. p \in Matches(data, call.find, from, to) <=> p - s \in Matches(w, call.find, a, to - s)
  <2>1. \A d \in Nat : d <= from /\ (\A k \in from..(to - 1) : data[k] = w[k - d])
          => (p \in Matches(data, call.find, from, to)
                <=> p - d \in Matches(w, call.find, from - d, to - d))
    BY <1>1, <1>6, MatchesAlike
  <2> QED BY <1>3, <1>6, <2>1
<1>8. p - s \in Matches(w, call.find, a, to - s)
        <=> p - s \in Matches(w, call.find, a, L) /\ p + find_len <= to
  <2>1. p - s \in a..((to - s) - find_len) <=> p - s \in a..(L - find_len) /\ p + find_len <= to
    BY <1>1, <1>3
  <2> QED BY <1>1, <2>1 DEF Matches
<1> QED BY <1>2, <1>4, <1>7, <1>8

LEMMA ShiftIs ==
  ASSUME TypeOK, NEW from, NEW at, Searching(from, at)
  PROVE  /\ end \in Nat /\ end <= end /\ at \in Nat /\ Shift \in Nat
         /\ end = Shift + Len(call.text)
         /\ find_len \in Nat /\ find_len = Len(call.find) /\ Len(call.text) \in Nat
<1>1. end \in Nat /\ size \in Nat /\ find_len \in Nat
  BY Types
<1>2. size = Len(call.text) /\ 0 <= Shift /\ at \in Nat
  BY DEF Searching
<1>3. Shift \in Nat /\ end = Shift + size
  BY <1>1, <1>2 DEF Shift
<1> QED BY <1>1, <1>2, <1>3 DEF find_len

LEMMA SearchFinds ==
  ASSUME TypeOK, NEW from, NEW at, Searching(from, at), NEW p \in Nat, MemMem(p, from, end)
  PROVE  Leftmost(p - Shift, FoundFrom(call, at))
<1>1. end \in Nat /\ end <= end /\ at \in Nat /\ Shift \in Nat /\ end = Shift + Len(call.text)
      /\ find_len \in Nat /\ find_len = Len(call.find) /\ Len(call.text) \in Nat
  BY ShiftIs
<1>2. \A q \in Nat : q \in Matches(data, call.find, from, end)
                       <=> q - Shift \in FoundFrom(call, at) /\ q + find_len <= end
  BY <1>1, Searched
<1>3. p \in Matches(data, call.find, from, end)
      /\ \A q \in Matches(data, call.find, from, end) : p <= q
  BY DEF MemMem, Leftmost
<1>4. p - Shift \in FoundFrom(call, at)
  BY <1>2, <1>3
<1>5. ASSUME NEW q \in FoundFrom(call, at) PROVE p - Shift <= q
  <2>1. q \in Nat /\ q + find_len <= Len(call.text)
    BY <1>1, <1>5, CallIs, FoundWithin
  <2>2. PICK k \in Nat : k = q + Shift /\ k - Shift = q /\ k + find_len <= end
    <3>1. \A s, x, f, l \in Nat : x + f <= l =>
            x + s \in Nat /\ (x + s) - s = x /\ (x + s) + f <= s + l
      OBVIOUS
    <3>2. q + Shift \in Nat /\ (q + Shift) - Shift = q /\ (q + Shift) + find_len <= end
      BY <1>1, <2>1, <3>1
    <3> QED BY <3>2
  <2>4. k \in Matches(data, call.find, from, end)
    BY <1>2, <1>5, <2>2
  <2>5. p <= k
    BY <1>3, <2>4
  <2> QED BY <1>1, <2>1, <2>2, <2>5
<1> QED BY <1>4, <1>5 DEF Leftmost

LEMMA SearchEnds ==
  ASSUME TypeOK, NEW from, NEW at, Searching(from, at), NoMatch(from, end)
  PROVE  FoundFrom(call, at) = {}
<1>1. end \in Nat /\ end <= end /\ at \in Nat /\ Shift \in Nat /\ end = Shift + Len(call.text)
      /\ find_len \in Nat /\ find_len = Len(call.find) /\ Len(call.text) \in Nat
  BY ShiftIs
<1>2. \A q \in Nat : q \in Matches(data, call.find, from, end)
                       <=> q - Shift \in FoundFrom(call, at) /\ q + find_len <= end
  BY <1>1, Searched
<1>3. ASSUME NEW q \in FoundFrom(call, at) PROVE FALSE
  <2>1. q \in Nat /\ q + find_len <= Len(call.text)
    BY <1>1, <1>3, CallIs, FoundWithin
  <2>2. PICK k \in Nat : k = q + Shift /\ k - Shift = q /\ k + find_len <= end
    <3>1. \A s, x, f, l \in Nat : x + f <= l =>
            x + s \in Nat /\ (x + s) - s = x /\ (x + s) + f <= s + l
      OBVIOUS
    <3>2. q + Shift \in Nat /\ (q + Shift) - Shift = q /\ (q + Shift) + find_len <= end
      BY <1>1, <2>1, <3>1
    <3> QED BY <3>2
  <2> QED BY <1>2, <1>3, <2>2 DEF NoMatch
<1> QED BY <1>3

(***************************************************************************)
(* The bytes a step writes.                                                *)
(***************************************************************************)

LEMMA HoldsPart ==
  ASSUME NEW s \in Seq(Char), NEW j \in 0..Len(s), NEW k \in j..Len(s), NEW w, NEW d,
         \A l \in 1..(k - j) : w[d + l - 1] = s[j + l]
  PROVE  Holds(w, d, SubSeq(s, j + 1, k))
<1>1. Len(SubSeq(s, j + 1, k)) = k - j /\ \A l \in 1..(k - j) : SubSeq(s, j + 1, k)[l] = s[j + l]
  BY Between
<1>2. \A l \in 1..Len(SubSeq(s, j + 1, k)) : w[d + l - 1] = SubSeq(s, j + 1, k)[l]
  BY <1>1
<1> QED BY <1>2, Zenon DEF Holds

(* What is still to be read, of the text. *)
LEMMA Reads ==
  ASSUME TypeOK, size = Len(call.text), NEW from \in Nat, Shift \in Nat, Shift <= from, Unread(from)
  PROVE  \A l \in 1..(end - from) : data[from + l - 1] = call.text[(from - Shift) + l]
<1> TAKE l \in 1..(end - from)
<1>1. end \in Nat
  BY Types
<1>2. from + l - 1 \in from..(end - 1)
  BY <1>1
<1>3. (from + l - 1) - Shift + 1 = (from - Shift) + l
  <2>1. \A f, s, x \in Int : (f + x - 1) - s + 1 = (f - s) + x
    OBVIOUS
  <2> QED BY <2>1
<1> QED BY <1>2, <1>3 DEF Unread

(* The text up to a match, and the replacement. *)
PutAt(d, s, len) == Copy(Move(data, d, s, len), d + len, call.rplc)

LEMMA PutByte ==
  ASSUME TypeOK, NEW d \in Nat, NEW s \in Nat, NEW len \in Nat, s + len <= alloc,
         NEW k \in 0..(alloc - 1)
  PROVE  PutAt(d, s, len)[k]
           = IF d + len <= k /\ k < d + len + rplc_len THEN call.rplc[k - (d + len) + 1]
             ELSE IF d <= k /\ k < d + len THEN data[k - d + s] ELSE data[k]
<1>1. alloc \in Nat /\ data \in Block(alloc) /\ rplc_len = Len(call.rplc)
  BY Types DEF rplc_len
<1>2. PICK m : m = Move(data, d, s, len)
  OBVIOUS
<1>3. m \in Block(alloc)
  BY <1>1, <1>2, MoveType
<1>4. m[k] = IF d <= k /\ k < d + len THEN data[k - d + s] ELSE data[k]
  <2>1. \A a \in Nat : \A w \in Block(a) : \A j \in 0..(a - 1) : s + len <= a =>
          Move(w, d, s, len)[j] = IF d <= j /\ j < d + len THEN w[j - d + s] ELSE w[j]
    BY MoveByte
  <2> QED BY <1>1, <1>2, <2>1
<1>5. Copy(m, d + len, call.rplc)[k]
        = IF d + len <= k /\ k < d + len + Len(call.rplc)
          THEN call.rplc[k - (d + len) + 1] ELSE m[k]
  BY <1>1, <1>3 DEF Copy, Block
<1> QED BY <1>1, <1>2, <1>4, <1>5 DEF PutAt

(* Nothing is copied of an empty replacement, and nothing moves when it is  *)
(* where it belongs.                                                        *)
LEMMA PutNothing ==
  ASSUME TypeOK, rplc_len = 0, NEW d \in Nat, NEW s \in Nat, NEW len \in Nat
  PROVE  PutAt(d, s, len) = Move(data, d, s, len)
<1>1. alloc \in Nat /\ data \in Block(alloc) /\ Len(call.rplc) = 0
  BY Types DEF rplc_len
<1>2. PICK m \in Block(alloc) : m = Move(data, d, s, len)
  BY <1>1, MoveType
<1>3. d + len \in Nat
  OBVIOUS
<1>4. \A e \in Nat : Copy(m, e, call.rplc) = m
  BY <1>1, <1>2 DEF Copy, Block
<1> QED BY <1>2, <1>3, <1>4 DEF PutAt

LEMMA PutInPlace ==
  ASSUME TypeOK, NEW d \in Nat, NEW len \in Nat, d + len <= alloc
  PROVE  PutAt(d, d, len) = Copy(data, d + len, call.rplc)
<1>1. alloc \in Nat /\ data \in Block(alloc)
  BY Types
<1>2. \A k \in 0..(alloc - 1) : Move(data, d, d, len)[k] = data[k]
  <2> TAKE k \in 0..(alloc - 1)
  <2>1. Move(data, d, d, len)[k] = IF d <= k /\ k < d + len THEN data[k - d + d] ELSE data[k]
    BY <1>1, MoveByte
  <2>2. k - d + d = k
    BY <1>1
  <2> QED BY <2>1, <2>2
<1>3. Move(data, d, d, len) \in Block(alloc)
  BY <1>1, MoveType
<1>4. Move(data, d, d, len) = data
  BY <1>1, <1>2, <1>3 DEF Block
<1> QED BY <1>4 DEF PutAt

LEMMA Offsets ==
  ASSUME TypeOK, size = Len(call.text), Shift \in Nat, NEW s \in Nat,
         NEW r \in Part(call), r.at + Shift = s, NEW p \in Nat, s <= p, p <= end
  PROVE  /\ p - Shift \in r.at..Len(call.text) /\ (p - Shift) - r.at = p - s
         /\ r.at = s - Shift
<1>1. end \in Nat /\ size \in Nat /\ r.at \in Nat /\ Len(call.text) \in Nat
  BY Types DEF Part
<1>2. end = Shift + Len(call.text)
  BY <1>1 DEF Shift
<1>3. \A h, x, q, e, l \in Nat : x + h <= q /\ q <= e /\ e = h + l
        => q - h \in x..l /\ (q - h) - x = q - (x + h) /\ x = (x + h) - h
  OBVIOUS
<1>4. r.at + Shift <= p
  OBVIOUS
<1>5. /\ p - Shift \in r.at..Len(call.text) /\ (p - Shift) - r.at = p - (r.at + Shift)
      /\ r.at = (r.at + Shift) - Shift
  BY <1>1, <1>2, <1>3, <1>4
<1> QED BY <1>5

(* A step that copies the text up to a match and the replacement makes what *)
(* is expected of the match.                                                *)
LEMMA PutMakes ==
  ASSUME TypeOK, size = Len(call.text), Shift \in Nat, end < alloc,
         NEW d \in Nat, NEW s \in Nat, Unread(s),
         NEW r \in Part(call), r.at + Shift = s, r.out = Prefix(data, d),
         NEW p \in Nat, s <= p, p + find_len <= end, d + (p - s) + rplc_len <= alloc
  PROVE  /\ Treat(call, r, p - Shift).out
              = Prefix(PutAt(d, s, p - s), d + (p - s) + rplc_len)
         /\ p - Shift \in r.at..Len(call.text)
<1>1. /\ alloc \in Nat /\ end \in Nat /\ size \in Nat
      /\ find_len \in Nat /\ rplc_len \in Nat /\ r.at \in Nat
  BY Types DEF Part
<1>2. /\ call.rplc \in Seq(Char) /\ call.text \in Seq(Char) /\ rplc_len = Len(call.rplc)
      /\ r.at \in 0..Len(call.text)
  BY CallIs, CallTypes DEF rplc_len, Part
<1> DEFINE len == p - s
           w == PutAt(d, s, len)
<1>3. len \in Nat /\ s + len = p /\ p <= alloc /\ p <= end
  BY <1>1
<1>4. p - Shift \in r.at..Len(call.text) /\ (p - Shift) - r.at = len /\ r.at = s - Shift
  <2>1. p <= end
    BY <1>3
  <2> QED BY <2>1, Offsets
<1>5. \A k \in 0..(alloc - 1) :
        w[k] = IF d + len <= k /\ k < d + len + rplc_len
               THEN call.rplc[k - (d + len) + 1]
               ELSE IF d <= k /\ k < d + len THEN data[k - d + s] ELSE data[k]
  BY <1>3, PutByte
<1>6. d + len + rplc_len <= alloc
  BY <1>1
<1>7. \A l \in 1..len : data[s + l - 1] = call.text[r.at + l]
  <2>1. Shift <= s
    BY <1>1
  <2>2. \A l \in 1..(end - s) : data[s + l - 1] = call.text[(s - Shift) + l]
    BY <2>1, Reads
  <2>3. 1..len \subseteq 1..(end - s)
    BY <1>1, <1>3
  <2> QED BY <1>4, <2>2, <2>3
<1> HIDE DEF w, len
<1>8. Alike(w, data, d)
  <2>1. \A k \in 0..(d - 1) : k \in 0..(alloc - 1) /\ ~(d + len <= k) /\ ~(d <= k)
    BY <1>1, <1>3, <1>6
  <2> QED BY <1>5, <2>1 DEF Alike
<1>9. Holds(w, d, SubSeq(call.text, r.at + 1, p - Shift))
  <2>1. ASSUME NEW l \in 1..len PROVE w[d + l - 1] = call.text[r.at + l]
    <3>1. /\ d + l - 1 \in 0..(alloc - 1) /\ ~(d + len <= d + l - 1)
          /\ d <= d + l - 1 /\ d + l - 1 < d + len
      BY <1>1, <1>3, <1>6
    <3>2. (d + l - 1) - d + s = s + l - 1
      BY <1>3
    <3>3. w[d + l - 1] = data[s + l - 1]
      BY <1>5, <3>1, <3>2
    <3> QED BY <1>7, <3>3
  <2>2. \A l \in 1..((p - Shift) - r.at) : w[d + l - 1] = call.text[r.at + l]
    BY <1>4, <2>1
  <2> QED BY <1>2, <1>4, <2>2, HoldsPart
<1>10. Holds(w, d + len, call.rplc)
  <2>1. ASSUME NEW l \in 1..rplc_len PROVE w[d + len + l - 1] = call.rplc[l]
    <3>1. /\ d + len + l - 1 \in 0..(alloc - 1)
          /\ d + len <= d + len + l - 1 /\ d + len + l - 1 < d + len + rplc_len
          /\ (d + len + l - 1) - (d + len) + 1 = l
      BY <1>1, <1>3, <1>6
    <3> QED BY <1>5, <3>1
  <2> QED BY <1>2, <2>1 DEF Holds
<1>11. Treat(call, r, p - Shift).out = Prefix(w, d + ((p - Shift) - r.at) + Len(call.rplc))
  <2>1. Holds(w, d + ((p - Shift) - r.at), call.rplc) /\ call \in Calls
    BY <1>4, <1>10, CallIs
  <2>2. \A q \in r.at..Len(call.text) :
          /\ Holds(w, d, SubSeq(call.text, r.at + 1, q))
          /\ Holds(w, d + (q - r.at), call.rplc)
          => Treat(call, r, q).out = Prefix(w, d + (q - r.at) + Len(call.rplc))
    BY <1>8, <2>1, Pieces
  <2> QED BY <1>4, <1>9, <2>1, <2>2
<1>12. Treat(call, r, p - Shift).out = Prefix(w, d + len + rplc_len)
  BY <1>2, <1>4, <1>11
<1> QED BY <1>4, <1>12 DEF w, len

(* Moving up the rest of the text finishes the string. *)
LEMMA TailMakes ==
  ASSUME TypeOK, size = Len(call.text), Shift \in Nat, end < alloc,
         NEW d \in Nat, NEW s \in Nat, s <= end, Unread(s), d + (end - s) < alloc,
         NEW r \in Part(call), r.at + Shift = s, r.out = Prefix(data, d)
  PROVE  Finished(call, r) = Prefix(StrMove(data, d, s, end - s), d + (end - s))
<1>1. /\ alloc \in Nat /\ end \in Nat /\ size \in Nat /\ r.at \in Nat /\ data \in Block(alloc)
  BY Types DEF Part
<1>2. call \in Calls /\ call.text \in Seq(Char) /\ r.at \in 0..Len(call.text)
  BY CallIs, CallTypes DEF Part
<1> DEFINE len == end - s
           w == StrMove(data, d, s, len)
<1>3. len \in Nat /\ s + len = end /\ s + len <= alloc /\ d + len < alloc
  BY <1>1
<1>4. len = Len(call.text) - r.at /\ Len(call.text) \in r.at..Len(call.text) /\ r.at = s - Shift
  <2>1. end = Shift + Len(call.text) /\ end <= end /\ end - Shift = Len(call.text)
    BY <1>1 DEF Shift
  <2>2. /\ end - Shift \in r.at..Len(call.text) /\ (end - Shift) - r.at = end - s
        /\ r.at = s - Shift
    BY <1>1, <2>1, Offsets, SMTT(30)
  <2> QED BY <2>1, <2>2
<1>5. \A k \in 0..(alloc - 1) :
        w[k] = IF k = d + len THEN NUL
               ELSE IF d <= k /\ k < d + len THEN data[k - d + s] ELSE data[k]
  <2>0. len \in Nat
    BY <1>3
  <2> HIDE DEF len, w
  <2>1. \A c \in Nat : \A m \in Block(c) : \A k \in 0..(c - 1) : s + len <= c =>
          StrMove(m, d, s, len)[k]
            = IF k = d + len THEN NUL
              ELSE IF d <= k /\ k < d + len THEN m[k - d + s] ELSE m[k]
    BY <2>0, StrMoveByte
  <2>2. alloc \in Nat /\ data \in Block(alloc) /\ s + len <= alloc
    BY <1>1, <1>3
  <2>3. \A k \in 0..(alloc - 1) : StrMove(data, d, s, len)[k]
          = IF k = d + len THEN NUL
            ELSE IF d <= k /\ k < d + len THEN data[k - d + s] ELSE data[k]
    BY <2>1, <2>2, Zenon
  <2> QED BY <2>3 DEF w
<1>6. \A l \in 1..len : data[s + l - 1] = call.text[r.at + l]
  <2>1. Shift <= s
    BY <1>1
  <2> QED BY <1>4, <2>1, Reads
<1> HIDE DEF w, len
<1>7. Alike(w, data, d)
  <2>1. \A k \in 0..(d - 1) : k \in 0..(alloc - 1) /\ k # d + len /\ ~(d <= k)
    BY <1>1, <1>3
  <2> QED BY <1>5, <2>1 DEF Alike
<1>8. Holds(w, d, SubSeq(call.text, r.at + 1, Len(call.text)))
  <2>1. ASSUME NEW l \in 1..len PROVE w[d + l - 1] = call.text[r.at + l]
    <3>1. /\ d + l - 1 \in 0..(alloc - 1) /\ d + l - 1 # d + len
          /\ d <= d + l - 1 /\ d + l - 1 < d + len
      BY <1>1, <1>3
    <3>2. (d + l - 1) - d + s = s + l - 1
      BY <1>3
    <3>3. w[d + l - 1] = data[s + l - 1]
      BY <1>5, <3>1, <3>2
    <3> QED BY <1>6, <3>3
  <2>2. \A l \in 1..(Len(call.text) - r.at) : w[d + l - 1] = call.text[r.at + l]
    BY <1>4, <2>1
  <2> QED BY <1>2, <1>4, <2>2, HoldsPart
<1>9. Finished(call, r) = Prefix(w, d + (Len(call.text) - r.at))
  BY <1>2, <1>7, <1>8, RestOf
<1>10. Finished(call, r) = Prefix(w, d + len)
  BY <1>4, <1>9
<1> QED BY <1>10 DEF w, len

(***************************************************************************)
(* What is expected when nothing is found, and of one match.               *)
(***************************************************************************)

(* The first match is not before the place the search starts from. *)
LEMMA RunPast ==
  ASSUME NEW c \in Calls, NEW k \in 1..c.n, Run(c, k).count = k
  PROVE  c.start <= Run(c, k).at
<1>1. k - 1 \in 0..c.n /\ c.n \in Nat /\ c.start \in Nat
  BY CallTypes
<1>2. Run(c, k - 1) \in Part(c) /\ Run(c, k - 1).count <= k - 1 /\ Run(c, k) = OneMore(c, Run(c, k - 1))
  BY <1>1, RunType, RunUnfolds
<1>3. PICK r \in Part(c) : r = Run(c, k - 1) /\ r.count <= k - 1
  BY <1>2
<1>4. Run(c, k) = OneMore(c, r) /\ r.at \in Nat /\ r.count \in Nat
  BY <1>2, <1>3 DEF Part
<1>5. FoundFrom(c, r.at) # {}
  BY <1>1, <1>3, <1>4 DEF OneMore
<1>6. PICK p \in FoundFrom(c, r.at) : Leftmost(p, FoundFrom(c, r.at))
  BY <1>4, <1>5, FoundWithin
<1>7. Run(c, k) = Treat(c, r, p) /\ p \in Nat /\ r.at <= p /\ p + Len(c.find) <= Len(c.text)
  BY <1>3, <1>4, <1>6, OneMoreTreats, FoundWithin
<1>8. Run(c, k).at = p + Len(c.find) /\ Len(c.find) \in Nat
  BY <1>3, <1>7, TreatType, CallTypes
<1>9. c.start <= p
  <2>1. p \in (IF r.at < c.start THEN c.start ELSE r.at)..(Len(c.text) - Len(c.find))
    BY <1>6 DEF FoundFrom, Matches
  <2> QED BY <1>1, <1>4, <2>1
<1> QED BY <1>1, <1>7, <1>8, <1>9

LEMMA ExpectedNone ==
  ASSUME NEW c \in Calls, c.op \notin {"rmlast", "rplclast"}, c.n = 0 \/ FoundFrom(c, 0) = {}
  PROVE  Expected(c) = Nothing
<1>1. Run(c, 0) = Nothing /\ Nothing.at = 0 /\ c.n \in Nat
  BY RunUnfolds, CallTypes DEF Nothing
<1>2. CASE c.n = 0
  BY <1>1, <1>2 DEF Expected
<1>3. CASE FoundFrom(c, 0) = {}
  <2>1. 0 \in 0..c.n /\ FoundFrom(c, Run(c, 0).at) = {}
    BY <1>1, <1>3
  <2>2. Run(c, c.n) = Run(c, 0)
    BY <2>1, RunStays
  <2> QED BY <1>1, <2>2 DEF Expected
<1> QED BY <1>2, <1>3

LEMMA FirstTreats ==
  ASSUME NEW c \in Calls, c.n # 0, NEW p, Leftmost(p, FoundFrom(c, 0))
  PROVE  /\ Run(c, 1) = Treat(c, Nothing, p)
         /\ Run(c, 1).at = p + Len(c.find) /\ Run(c, 1).count = 1
<1>1. 0 \in 0..(c.n - 1) /\ 0 + 1 = 1 /\ c.n \in Nat
  BY CallTypes
<1>2. Run(c, 0) = Nothing /\ Nothing.at = 0 /\ Nothing.count = 0
  BY RunUnfolds DEF Nothing
<1>3. \A j \in 0..(c.n - 1) : Leftmost(p, FoundFrom(c, Run(c, j).at)) =>
        /\ Run(c, j + 1) = Treat(c, Run(c, j), p)
        /\ Run(c, j + 1).at = p + Len(c.find)
        /\ Run(c, j + 1).count = Run(c, j).count + 1
  BY RunNext
<1>4. /\ Run(c, 0 + 1) = Treat(c, Run(c, 0), p)
      /\ Run(c, 0 + 1).at = p + Len(c.find)
      /\ Run(c, 0 + 1).count = Run(c, 0).count + 1
  BY <1>1, <1>2, <1>3
<1> QED BY <1>1, <1>2, <1>4

LEMMA ExpectedOne ==
  ASSUME NEW c \in Calls, c.op \notin {"rmlast", "rplclast"}, c.n = 1,
         NEW p, Leftmost(p, FoundFrom(c, 0))
  PROVE  Expected(c) = Treat(c, Nothing, p)
BY FirstTreats DEF Expected

(* No match when the needle is empty or the search starts behind the text.  *)
LEMMA NoneFound ==
  ASSUME NEW c \in Calls, Len(c.find) = 0 \/ c.start >= Len(c.text)
  PROVE  FoundFrom(c, 0) = {}
<1>1. c.find \in Seq(Char) /\ c.start \in Nat /\ Len(c.text) \in Nat /\ Len(c.find) \in Nat
  BY CallTypes
<1>2. CASE c.find = <<>>
  BY <1>2 DEF FoundFrom
<1>3. CASE c.find # <<>>
  <2>1. Len(c.find) > 0 /\ c.start >= Len(c.text)
    BY <1>1, <1>3
  <2>2. ASSUME NEW p \in FoundFrom(c, 0) PROVE FALSE
    <3>1. p \in (IF 0 < c.start THEN c.start ELSE 0)..(Len(c.text) - Len(c.find))
      BY <1>3, <2>2 DEF FoundFrom, Matches
    <3> QED BY <1>1, <2>1, <3>1
  <2> QED BY <2>2
<1> QED BY <1>2, <1>3

(***************************************************************************)
(* One lemma for each action: the calls on one match.                      *)
(***************************************************************************)

LEMMA DoneMakes ==
  ASSUME Replacing, UNCHANGED call, pc' = "done",
         ret' # Error => /\ Prefix(data', size') = Finished(call, Expected(call))
                         /\ ret' = Expected(call).count
  PROVE  Replacing'
<1>1. CallOK'
  BY DEF Replacing, CallOK, rplc_len
<1>2. Returned'
  BY DEF Returned
<1> QED BY <1>1, <1>2 DEF Replacing, Sizes, InLoop, OnePass, FirstPass, SecondPass

(* Before anything is written the block holds the text. *)
LEMMA TextRead ==
  ASSUME IInv, Replacing, pc \in {"entry", "count"}
  PROVE  /\ TypeOK /\ call \in Calls /\ size = Len(call.text) /\ end = size /\ Shift = 0
         /\ \A k \in 0..(size - 1) : data[k] = call.text[k + 1]
         /\ \A from \in Nat : Unread(from)
<1>1. /\ TypeOK /\ size = Len(call.text) /\ end = size /\ Prefix(data, size) = call.text
      /\ size \in Nat
  BY Types DEF IInv, Terminated, AtFirst, Replacing, Sizes
<1>2. Shift = 0
  BY <1>1 DEF Shift
<1>3. \A k \in 0..(size - 1) : data[k] = call.text[k + 1]
  <2> TAKE k \in 0..(size - 1)
  <2>1. k + 1 \in 1..size /\ (k + 1) - 1 = k
    BY <1>1
  <2>2. Prefix(data, size)[k + 1] = data[(k + 1) - 1]
    BY <2>1 DEF Prefix
  <2> QED BY <1>1, <2>1, <2>2
<1>4. ASSUME NEW from \in Nat PROVE Unread(from)
  <2>1. \A k \in from..(end - 1) : k \in 0..(size - 1) /\ k - Shift + 1 = k + 1
    BY <1>1, <1>2
  <2> QED BY <1>3, <2>1 DEF Unread
<1> QED BY <1>1, <1>2, <1>3, <1>4, CallIs

LEMMA EntrySearching ==
  ASSUME IInv, Replacing, pc = "entry", find_len # 0
  PROVE  Searching(call.start, 0)
<1>1. /\ TypeOK /\ call \in Calls /\ size = Len(call.text) /\ Shift = 0
      /\ \A from \in Nat : Unread(from)
  BY TextRead
<1>2. call.start \in Nat /\ Unread(call.start)
  BY <1>1, CallTypes
<1>3. call.start = Shift + (IF 0 < call.start THEN call.start ELSE 0)
  BY <1>1, <1>2
<1> QED BY <1>1, <1>2, <1>3 DEF Searching

(* A call that finds nothing to do leaves the text as it was.               *)
LEMMA NothingMakes ==
  ASSUME IInv, Replacing, pc = "entry", UNCHANGED call, Unchanged(0), Expected(call) = Nothing
  PROVE  Replacing'
<1>1. pc' = "done" /\ ret' = 0 /\ UNCHANGED <<data, size>>
  BY DEF Unchanged, Done
<1>2. Prefix(data, size) = call.text /\ call \in Calls
  BY TextRead DEF IInv, Terminated
<1>3. call.text \in Seq(Char)
  BY <1>2, CallTypes
<1>4. Finished(call, Nothing) = call.text /\ Nothing.count = 0
  <2>1. Nothing.out = <<>> /\ Nothing.at + 1 = 1 /\ Nothing.count = 0
    BY DEF Nothing
  <2>2. SubSeq(call.text, 1, Len(call.text)) = call.text
    BY <1>3
  <2>3. <<>> \o call.text = call.text
    BY <1>3
  <2> QED BY <2>1, <2>2, <2>3 DEF Finished
<1> QED BY <1>1, <1>2, <1>4, DoneMakes

(* What is behind a match is moved, unless the replacement is as long.      *)
Room(m, f, g, d, q, rest) == IF g # f THEN StrMove(m, d, q, rest) ELSE m

(* One match is replaced in a block that holds the text: what is behind it  *)
(* is moved to where the replacement ends.                                  *)
OneRight(c, f, g, z) ==
  \A a \in Nat : \A m \in Block(a) :
    z < a /\ (\A k \in 0..(z - 1) : m[k] = c.text[k + 1]) =>
      \A at, q, d, rest \in Nat :
        at + f = q /\ q + rest = z /\ at + g = d /\ d + rest < a =>
          Finished(c, Treat(c, Nothing, at))
            = Prefix(Copy(Room(m, f, g, d, q, rest), at, c.rplc), d + rest)

LEMMA SpliceMakes ==
  \A c \in Calls : \A f, g, z \in Nat :
    Len(c.find) = f /\ Len(c.rplc) = g /\ Len(c.text) = z => OneRight(c, f, g, z)
<1> SUFFICES ASSUME NEW c \in Calls, NEW f \in Nat, Len(c.find) = f,
                    NEW g \in Nat, Len(c.rplc) = g, NEW z \in Nat, Len(c.text) = z
             PROVE  OneRight(c, f, g, z)
  BY Zenon
<1> USE DEF OneRight
<1> TAKE a \in Nat
<1> TAKE m \in Block(a)
<1> HAVE z < a /\ (\A k \in 0..(z - 1) : m[k] = c.text[k + 1])
<1> TAKE at, q, d, rest \in Nat
<1> HAVE at + f = q /\ q + rest = z /\ at + g = d /\ d + rest < a
<1> HIDE DEF OneRight
<1> DEFINE v == Room(m, f, g, d, q, rest)
           w == Copy(v, at, c.rplc)
<1>1. v \in Block(a)
  BY StrMoveType DEF Room
<1>2. ASSUME g # f, NEW k \in 0..(a - 1)
      PROVE  v[k] = IF k = d + rest THEN NUL
                    ELSE IF d <= k /\ k < d + rest THEN m[k - d + q] ELSE m[k]
  <2>1. q + rest <= a /\ v = StrMove(m, d, q, rest)
    BY <1>2 DEF Room
  <2> QED BY <2>1, StrMoveByte
<1>3. g = f => v = m /\ d = q
  BY DEF Room
<1> HIDE DEF v
<1>4. \A k \in 0..(a - 1) : w[k] = IF at <= k /\ k < d THEN c.rplc[k - at + 1] ELSE v[k]
  BY <1>1 DEF Copy, Block
<1> HIDE DEF w
<1>5. ASSUME NEW k \in 0..(at - 1) PROVE v[k] = m[k]
  <2>1. k \in 0..(a - 1) /\ k # d + rest /\ ~(d <= k)
    OBVIOUS
  <2> QED BY <1>2, <1>3, <2>1
<1>6. ASSUME NEW k \in 0..(rest - 1) PROVE v[d + k] = m[q + k]
  <2>1. /\ d + k \in 0..(a - 1) /\ d + k # d + rest /\ d <= d + k /\ d + k < d + rest
        /\ (d + k) - d + q = q + k
    OBVIOUS
  <2> QED BY <1>2, <1>3, <2>1
<1>7. ASSUME NEW l \in 1..at PROVE w[l - 1] = c.text[l]
  <2>1. l - 1 \in 0..(a - 1) /\ ~(at <= l - 1) /\ l - 1 \in 0..(at - 1)
        /\ l - 1 \in 0..(z - 1) /\ (l - 1) + 1 = l
    OBVIOUS
  <2>2. w[l - 1] = v[l - 1] /\ v[l - 1] = m[l - 1] /\ m[l - 1] = c.text[(l - 1) + 1]
    BY <1>4, <1>5, <2>1
  <2> QED BY <2>1, <2>2
<1>8. ASSUME NEW l \in 1..g PROVE w[at + l - 1] = c.rplc[l]
  <2>1. /\ at + l - 1 \in 0..(a - 1) /\ at <= at + l - 1 /\ at + l - 1 < d
        /\ (at + l - 1) - at + 1 = l
    OBVIOUS
  <2> QED BY <1>4, <2>1
<1>9. ASSUME NEW l \in 1..rest PROVE w[d + l - 1] = c.text[q + l]
  <2>1. PICK k \in 0..(rest - 1) : k = l - 1
    OBVIOUS
  <2>2. d + k \in 0..(a - 1) /\ ~(d + k < d) /\ d + l - 1 = d + k
    BY <2>1
  <2>3. q + k \in 0..(z - 1) /\ (q + k) + 1 = q + l
    BY <2>1
  <2>4. w[d + k] = v[d + k] /\ v[d + k] = m[q + k] /\ m[q + k] = c.text[(q + k) + 1]
    BY <1>4, <1>6, <2>2, <2>3
  <2> QED BY <2>2, <2>3, <2>4
<1>10. c.text \in Seq(Char) /\ at <= q /\ q <= z
  BY CallTypes
<1>11. \A j \in 0..z : \A k \in j..z : \A e :
         (\A l \in 1..(k - j) : w[e + l - 1] = c.text[j + l])
           => Holds(w, e, SubSeq(c.text, j + 1, k))
  BY <1>10, HoldsPart
<1>12. Holds(w, 0, SubSeq(c.text, 1, at))
  <2>1. 0 \in 0..z /\ at \in 0..z /\ at - 0 = at /\ 0 + 1 = 1
    BY <1>10
  <2>2. \A l \in 1..at : w[0 + l - 1] = c.text[0 + l]
    <3> TAKE l \in 1..at
    <3>1. 0 + l - 1 = l - 1 /\ 0 + l = l
      OBVIOUS
    <3> QED BY <1>7, <3>1
  <2>3. \A k \in 0..z : \A e : (\A l \in 1..(k - 0) : w[e + l - 1] = c.text[0 + l])
                                 => Holds(w, e, SubSeq(c.text, 0 + 1, k))
    BY <1>11, <2>1
  <2> QED BY <2>1, <2>2, <2>3
<1>13. Holds(w, at, c.rplc)
  BY <1>8 DEF Holds
<1>14. Holds(w, d, SubSeq(c.text, q + 1, z))
  <2>1. q \in 0..z /\ z \in q..z /\ z - q = rest
    BY <1>10
  <2> QED BY <1>9, <1>11, <2>1
<1>15. Nothing \in Part(c) /\ Nothing.at = 0 /\ Nothing.out = <<>> /\ Nothing.at <= at
  BY NothingType DEF Nothing
<1>16. Prefix(w, 0) = <<>> /\ Alike(w, w, 0)
  BY DEF Prefix, Alike
<1>17. Treat(c, Nothing, at).out = Prefix(w, d)
  <2>1. \A r \in Part(c) : \A b : \A e \in Nat : \A u :
          r.out = Prefix(b, e) /\ Alike(u, b, e) =>
            \A x \in r.at..Len(c.text) :
              Holds(u, e, SubSeq(c.text, r.at + 1, x)) /\ Holds(u, e + (x - r.at), c.rplc)
              => Treat(c, r, x).out = Prefix(u, e + (x - r.at) + Len(c.rplc))
    BY Pieces, Zenon
  <2>2. \A x \in Nothing.at..Len(c.text) :
          Holds(w, 0, SubSeq(c.text, Nothing.at + 1, x)) /\ Holds(w, 0 + (x - Nothing.at), c.rplc)
          => Treat(c, Nothing, x).out = Prefix(w, 0 + (x - Nothing.at) + Len(c.rplc))
    <3>1. 0 \in Nat
      OBVIOUS
    <3>2. \A b : \A e \in Nat : \A u : Nothing.out = Prefix(b, e) /\ Alike(u, b, e) =>
            \A x \in Nothing.at..Len(c.text) :
              Holds(u, e, SubSeq(c.text, Nothing.at + 1, x)) /\ Holds(u, e + (x - Nothing.at), c.rplc)
              => Treat(c, Nothing, x).out = Prefix(u, e + (x - Nothing.at) + Len(c.rplc))
      BY <1>15, <2>1, Zenon
    <3> QED BY <1>15, <1>16, <3>1, <3>2
  <2>3. at \in Nothing.at..Len(c.text) /\ Nothing.at + 1 = 1 /\ 0 + (at - Nothing.at) = at
    BY <1>10, <1>15
  <2>4. Treat(c, Nothing, at).out = Prefix(w, at + Len(c.rplc))
    BY <1>12, <1>13, <2>2, <2>3
  <2> QED BY <2>4
<1>18. PICK r \in Part(c) : r = Treat(c, Nothing, at) /\ r.at = q
  <2>1. \A x \in Nat : Nothing.at <= x /\ x + Len(c.find) <= Len(c.text)
          => Treat(c, Nothing, x) \in Part(c) /\ Treat(c, Nothing, x).at = x + Len(c.find)
    BY <1>15, TreatType
  <2>2. at + Len(c.find) <= Len(c.text) /\ at + Len(c.find) = q
    BY <1>10
  <2> QED BY <1>15, <2>1, <2>2
<1>19. Finished(c, r) = Prefix(w, d + (Len(c.text) - r.at))
  <2>1. \A x \in Part(c) : \A e \in Nat :
          /\ x.out = Prefix(w, e) /\ Alike(w, w, e)
          /\ Holds(w, e, SubSeq(c.text, x.at + 1, Len(c.text)))
          => Finished(c, x) = Prefix(w, e + (Len(c.text) - x.at))
    BY RestOf, SMTT(30)
  <2>2. Alike(w, w, d) /\ Holds(w, d, SubSeq(c.text, r.at + 1, Len(c.text))) /\ r.out = Prefix(w, d)
    BY <1>14, <1>17, <1>18 DEF Alike
  <2> QED BY <1>18, <2>1, <2>2
<1>20. Len(c.text) - r.at = rest
  BY <1>18
<1> QED BY <1>18, <1>19, <1>20 DEF v, w

(* jstr_rmat_len_p removes the match. *)
LEMMA RmAtMakes ==
  ASSUME IInv, Replacing, pc = "entry", UNCHANGED call, rplc_len = 0,
         NEW at \in Nat, at + find_len <= size, RmAt(at), Done(1),
         Expected(call) = Treat(call, Nothing, at)
  PROVE  Replacing'
<1>1. /\ TypeOK /\ call \in Calls /\ size = Len(call.text) /\ end = size /\ Shift = 0
      /\ \A k \in 0..(size - 1) : data[k] = call.text[k + 1]
      /\ \A from \in Nat : Unread(from)
  BY TextRead
<1>2. /\ size \in Nat /\ find_len \in Nat /\ alloc \in Nat /\ size < alloc
      /\ find_len = Len(call.find) /\ call.text \in Seq(Char)
  BY <1>1, Types, CallTypes DEF find_len, IInv, Terminated
<1>3. call.rplc = <<>>
  BY <1>1, CallTypes DEF rplc_len
<1> DEFINE s == at + find_len
           r == Treat(call, Nothing, at)
<1>4. /\ s \in Nat /\ s <= end /\ at \in 0..Len(call.text) /\ at + (end - s) < alloc
      /\ size - find_len = at + (end - s)
  <2>1. \A x, f, z, k \in Nat : x + f <= z /\ z < k =>
          /\ x + f \in Nat /\ x \in 0..z /\ x + (z - (x + f)) < k
          /\ z - f = x + (z - (x + f))
    OBVIOUS
  <2> QED BY <1>1, <1>2, <2>1
<1>5. r \in Part(call) /\ r.at = s /\ r.count = 1
  <2>1. Nothing \in Part(call) /\ Nothing.at = 0 /\ Nothing.count = 0 /\ 0 + 1 = 1
    BY <1>1, NothingType DEF Nothing
  <2>2. Nothing.at <= at /\ at + Len(call.find) <= Len(call.text)
    BY <1>1, <1>2, <2>1
  <2> QED BY <1>1, <1>2, <2>1, <2>2, TreatType
<1>6. r.out = Prefix(data, at)
  <2>1. \A k \in 0..(at - 1) : data[k] = call.text[k + 1]
    BY <1>1, <1>2
  <2>2. Prefix(data, at) = SubSeq(call.text, 1, at)
    BY <1>2, <1>4, <2>1, Begins
  <2>3. r.out = <<>> \o SubSeq(call.text, 0 + 1, at) \o <<>>
    BY <1>3 DEF Treat, Nothing
  <2>4. SubSeq(call.text, 1, at) \in Seq(Char) /\ 0 + 1 = 1
    <3>1. \A x \in Seq(Char) : \A k \in 0..Len(x) : SubSeq(x, 1, k) \in Seq(Char)
      OBVIOUS
    <3> QED BY <1>2, <1>4, <3>1
  <2>5. <<>> \o SubSeq(call.text, 1, at) \o <<>> = SubSeq(call.text, 1, at)
    BY <2>4
  <2> QED BY <2>2, <2>3, <2>4, <2>5
<1>7. data' = StrMove(data, at, s, end - s) /\ size' = at + (end - s) /\ pc' = "done" /\ ret' = 1
  <2>1. size - find_len = at + (end - s) /\ size - s = end - s
    BY <1>1, <1>4
  <2> QED BY <2>1 DEF RmAt, Works, Done
<1> HIDE DEF s, r
<1>8. Finished(call, r) = Prefix(StrMove(data, at, s, end - s), at + (end - s))
  <2>1. Shift \in Nat /\ end < alloc /\ Unread(s) /\ r.at + Shift = s
    BY <1>1, <1>2, <1>4, <1>5
  <2> QED BY <1>1, <1>4, <1>5, <1>6, <2>1, TailMakes
<1>9. Expected(call) = r
  BY DEF r
<1>10. Prefix(data', size') = Finished(call, Expected(call)) /\ ret' = Expected(call).count
  BY <1>5, <1>7, <1>8, <1>9
<1> QED BY <1>7, <1>10, DoneMakes

(* In a block that may have been moved.                                     *)
LEMMA RplcAtMakes ==
  ASSUME IInv, Replacing, pc \in {"entry", "count"}, UNCHANGED call,
         NEW at \in Nat, at + find_len <= size, RplcAt(at, 1),
         Expected(call) = Treat(call, Nothing, at)
  PROVE  Replacing'
<1>1. /\ TypeOK /\ call \in Calls /\ size = Len(call.text)
      /\ \A k \in 0..(size - 1) : data[k] = call.text[k + 1]
  BY TextRead
<1>2. /\ size \in Nat /\ find_len \in Nat /\ rplc_len \in Nat /\ alloc \in Nat /\ size < alloc
  BY <1>1, Types DEF IInv, Terminated
<1>3. find_len = Len(call.find) /\ rplc_len = Len(call.rplc)
  BY DEF find_len, rplc_len
<1> DEFINE need == size + rplc_len - find_len + 1
           q == at + find_len
           rest == size - q
           d == at + rplc_len
           Moved(b) == IF rplc_len # find_len THEN StrMove(b.data, d, q, rest) ELSE b.data
<1>4. need \in Nat /\ rest \in Nat /\ q \in Nat /\ d \in Nat /\ need - 1 = d + rest
  BY <1>2
<1>5. ASSUME NEW b \in Reserved(Buffer, need),
             Works(b, Copy(Moved(b), at, call.rplc), need - 1), Done(1)
      PROVE  Replacing'
  <2>1. Sound(b) /\ b.alloc >= need /\ b.alloc >= alloc
    BY <1>1, <1>4, BufferSound, ReserveSound
  <2>2. b.alloc \in Nat /\ b.data \in Block(b.alloc)
    BY <2>1 DEF Sound
  <2>3. \A k \in 0..(size - 1) : b.data[k] = call.text[k + 1]
    <3> TAKE k \in 0..(size - 1)
    <3>1. k \in 0..(Buffer.alloc - 1) /\ Buffer.data = data /\ Sound(Buffer)
      BY <1>1, <1>2, BufferSound
    <3>2. b.data[k] = data[k]
      BY <1>4, <1>5, <3>1, ReservedLeaves
    <3> QED BY <1>1, <3>2
  <2>4. size < b.alloc /\ d + rest < b.alloc
    BY <1>2, <1>4, <2>1, <2>2
  <2>5. data' = Copy(Moved(b), at, call.rplc) /\ size' = d + rest /\ pc' = "done" /\ ret' = 1
    BY <1>4, <1>5 DEF Works, Done
  <2>6. Moved(b) = Room(b.data, find_len, rplc_len, d, q, rest)
    BY DEF Room
  <2>8. /\ at + find_len = q /\ q + rest = size /\ at + rplc_len = d /\ d + rest < b.alloc
    BY <1>2, <1>4, <2>4
  <2> HIDE DEF Moved, need, q, rest, d
  <2>9. OneRight(call, find_len, rplc_len, size)
    <3>1. Len(call.find) = find_len /\ Len(call.rplc) = rplc_len /\ Len(call.text) = size
      BY <1>1, <1>3
    <3> QED BY <1>1, <1>2, <3>1, SpliceMakes
  <2>10. \A x, y, e, l \in Nat :
           x + find_len = y /\ y + l = size /\ x + rplc_len = e /\ e + l < b.alloc =>
             Finished(call, Treat(call, Nothing, x))
               = Prefix(Copy(Room(b.data, find_len, rplc_len, e, y, l), x, call.rplc), e + l)
    BY <2>2, <2>3, <2>4, <2>9 DEF OneRight
  <2>11. Finished(call, Treat(call, Nothing, at))
           = Prefix(Copy(Room(b.data, find_len, rplc_len, d, q, rest), at, call.rplc), d + rest)
    BY <1>4, <2>8, <2>10
  <2>12. Finished(call, Treat(call, Nothing, at)) = Prefix(Copy(Moved(b), at, call.rplc), d + rest)
    BY <2>6, <2>11
  <2>7. Treat(call, Nothing, at).count = 1
    BY DEF Treat, Nothing
  <2> QED BY <2>5, <2>7, <2>12, DoneMakes
<1>6. CASE Done(Error)
  BY <1>6, DoneMakes DEF Done
<1> QED BY <1>5, <1>6 DEF RplcAt

LEMMA EntryFinds ==
  ASSUME IInv, Replacing, pc = "entry", find_len # 0, NEW p \in Nat, MemMem(p, call.start, end)
  PROVE  Leftmost(p, FoundFrom(call, 0)) /\ p + find_len <= size
<1>1. TypeOK /\ Shift = 0 /\ end = size /\ call \in Calls
  BY TextRead
<1>2. Searching(call.start, 0)
  BY EntrySearching
<1>3. Leftmost(p - Shift, FoundFrom(call, 0)) /\ p - Shift = p
  BY <1>1, <1>2, SearchFinds
<1>4. call.start \in Nat /\ end \in Nat
  BY <1>1, Types
<1>5. p + find_len <= end
  BY <1>1, <1>4, MatchWithin
<1> QED BY <1>1, <1>3, <1>5

LEMMA EntryNone ==
  ASSUME IInv, Replacing, pc = "entry",
         find_len = 0 \/ call.start >= size \/ NoMatch(call.start, end)
  PROVE  FoundFrom(call, 0) = {}
<1>1. TypeOK /\ size = Len(call.text) /\ call \in Calls /\ find_len = Len(call.find)
  BY TextRead DEF find_len
<1>2. CASE find_len = 0 \/ call.start >= size
  BY <1>1, <1>2, NoneFound
<1>3. CASE find_len # 0 /\ NoMatch(call.start, end)
  <2>1. Searching(call.start, 0)
    BY <1>3, EntrySearching
  <2> QED BY <1>1, <1>3, <2>1, SearchEnds
<1> QED BY <1>2, <1>3

(* The searches for the last match are searches of the whole text. *)
LEMMA LastSearched ==
  ASSUME IInv, Replacing, pc = "entry"
  PROVE  Matches(data, call.find, 0, size) = Matches(Given(call), call.find, 0, Len(call.text))
<1>1. /\ TypeOK /\ size = Len(call.text) /\ size \in Nat /\ call.find \in Seq(Char)
      /\ \A k \in 0..(size - 1) : data[k] = call.text[k + 1]
  BY TextRead, Types
<1>2. \A k \in 0..(size - 1) : data[k] = Given(call)[k]
  BY <1>1 DEF Given
<1>3. \A p \in 0..(size - Len(call.find)) : \A k \in 1..Len(call.find) :
        data[p + k - 1] = Given(call)[p + k - 1]
  <2> TAKE p \in 0..(size - Len(call.find))
  <2> TAKE k \in 1..Len(call.find)
  <2>1. p + k - 1 \in 0..(size - 1)
    BY <1>1
  <2> QED BY <1>2, <2>1
<1> QED BY <1>1, <1>3 DEF Matches

LEMMA LastNone ==
  ASSUME IInv, Replacing, pc = "entry", call.op \in {"rmlast", "rplclast"},
         NoMatch(0, size) \/ (call.op = "rmlast" /\ size = 0)
  PROVE  Expected(call) = Nothing
<1>1. Matches(data, call.find, 0, size) = Matches(Given(call), call.find, 0, Len(call.text))
  BY LastSearched
<1>2. call.text \in Seq(Char) /\ size = Len(call.text)
  BY TextRead, CallTypes
<1>3. size = 0 => call.text = <<>>
  <2>1. \A s \in Seq(Char) : Len(s) = 0 => s = <<>>
    OBVIOUS
  <2> QED BY <1>2, <2>1
<1> QED BY <1>1, <1>3 DEF Expected, RunLast, NoMatch

LEMMA LastFound ==
  ASSUME IInv, Replacing, pc = "entry", call.op \in {"rmlast", "rplclast"},
         NEW p \in Nat, MemRMem(p, 0, size), call.op = "rplclast" \/ size # 0
  PROVE  Expected(call) = Treat(call, Nothing, p) /\ p + find_len <= size
<1>1. Matches(data, call.find, 0, size) = Matches(Given(call), call.find, 0, Len(call.text))
  BY LastSearched
<1>2. TypeOK /\ size = Len(call.text) /\ size \in Nat
  BY TextRead, Types
<1> DEFINE S == Matches(Given(call), call.find, 0, Len(call.text))
<1>3. Rightmost(p, S) /\ S \in SUBSET Nat
  <2>1. Rightmost(p, S)
    BY <1>1 DEF MemRMem
  <2>2. Len(call.find) \in Nat /\ Len(call.text) \in Nat
    BY <1>2, Types
  <2>3. S \subseteq 0..(Len(call.text) - Len(call.find))
    BY DEF Matches
  <2>4. 0..(Len(call.text) - Len(call.find)) \subseteq Nat
    <3>1. \A a, b \in Nat : 0..(a - b) \subseteq Nat
      OBVIOUS
    <3> QED BY <2>2, <3>1
  <2> QED BY <2>1, <2>3, <2>4
<1>4. p = CHOOSE q \in S : Rightmost(q, S)
  BY <1>3, TheRightmost
<1>5. S # {}
  BY <1>3 DEF Rightmost
<1>6. ~(call.op = "rmlast" /\ call.text = <<>>)
  BY <1>2
<1>7. RunLast(call) = Treat(call, Nothing, p)
  BY <1>4, <1>5, <1>6 DEF RunLast
<1>8. p + find_len <= size
  BY <1>2, MatchWithin
<1> QED BY <1>7, <1>8 DEF Expected

LEMMA RmOneMakes == ASSUME IInv, Replacing, RmOne PROVE Replacing'
<1>1. pc = "entry" /\ call.op = "rm" /\ UNCHANGED call
  BY DEF RmOne
<1>2. call \in Calls /\ end = size /\ call.n = 1 /\ rplc_len = 0
  BY <1>1, TextRead DEF Replacing, CallOK
<1>3. CASE Unchanged(0) /\ (find_len = 0 \/ NoMatch(call.start, size))
  <2>1. FoundFrom(call, 0) = {}
    BY <1>1, <1>2, <1>3, EntryNone
  <2>2. Expected(call) = Nothing
    BY <1>1, <1>2, <2>1, ExpectedNone
  <2> QED BY <1>1, <1>3, <2>2, NothingMakes
<1>4. ASSUME find_len # 0, NEW p \in 0..size, MemMem(p, call.start, size), RmAt(p), Done(1)
      PROVE  Replacing'
  <2>1. p \in Nat /\ MemMem(p, call.start, end)
    BY <1>2, <1>4
  <2>2. Leftmost(p, FoundFrom(call, 0)) /\ p + find_len <= size
    BY <1>1, <1>4, <2>1, EntryFinds
  <2>3. Expected(call) = Treat(call, Nothing, p)
    BY <1>1, <1>2, <2>2, ExpectedOne
  <2> QED BY <1>1, <1>2, <1>4, <2>1, <2>2, <2>3, RmAtMakes
<1> QED BY <1>3, <1>4 DEF RmOne

LEMMA RmLastMakes == ASSUME IInv, Replacing, RmLast PROVE Replacing'
<1>1. pc = "entry" /\ call.op = "rmlast" /\ UNCHANGED call
  BY DEF RmLast
<1>2. call \in Calls /\ rplc_len = 0 /\ call.start = 0 /\ size \in Nat
  BY <1>1, TextRead, Types DEF Replacing, CallOK
<1>3. CASE Unchanged(0) /\ (call.start >= size \/ NoMatch(call.start, size))
  <2>1. NoMatch(0, size) \/ size = 0
    BY <1>2, <1>3
  <2>2. Expected(call) = Nothing
    BY <1>1, <2>1, LastNone
  <2> QED BY <1>1, <1>3, <2>2, NothingMakes
<1>4. ASSUME call.start < size, NEW p \in 0..size, MemRMem(p, call.start, size), RmAt(p), Done(1)
      PROVE  Replacing'
  <2>1. p \in Nat /\ MemRMem(p, 0, size) /\ size # 0
    BY <1>2, <1>4
  <2>2. Expected(call) = Treat(call, Nothing, p) /\ p + find_len <= size
    BY <1>1, <2>1, LastFound
  <2> QED BY <1>1, <1>2, <1>4, <2>1, <2>2, RmAtMakes
<1> QED BY <1>3, <1>4 DEF RmLast

LEMMA RplcLastMakes == ASSUME IInv, Replacing, RplcLast PROVE Replacing'
<1>1. pc = "entry" /\ call.op = "rplclast" /\ UNCHANGED call
  BY DEF RplcLast
<1>2. CASE Unchanged(0) /\ NoMatch(0, size)
  <2>1. Expected(call) = Nothing
    BY <1>1, <1>2, LastNone
  <2> QED BY <1>1, <1>2, <2>1, NothingMakes
<1>3. ASSUME NEW p \in 0..size, MemRMem(p, 0, size), RplcAt(p, 1) PROVE Replacing'
  <2>1. p \in Nat
    BY <1>3
  <2>2. Expected(call) = Treat(call, Nothing, p) /\ p + find_len <= size
    BY <1>1, <1>3, <2>1, LastFound
  <2> QED BY <1>1, <1>3, <2>1, <2>2, RplcAtMakes
<1> QED BY <1>2, <1>3 DEF RplcLast

LEMMA RplcOneMakes == ASSUME IInv, Replacing, RplcOne PROVE Replacing'
<1>1. pc = "entry" /\ call.op \in {"rplc", "rplcn"} /\ (call.op = "rplc" \/ n = 1) /\ UNCHANGED call
  BY DEF RplcOne
<1>2. call \in Calls /\ end = size /\ call.n = 1
  BY <1>1, TextRead DEF Replacing, CallOK, Sizes
<1>3. CASE Unchanged(0) /\ (call.start >= size \/ find_len = 0 \/ NoMatch(call.start, size))
  <2>1. FoundFrom(call, 0) = {}
    BY <1>1, <1>2, <1>3, EntryNone
  <2>2. Expected(call) = Nothing
    BY <1>1, <1>2, <2>1, ExpectedNone
  <2> QED BY <1>1, <1>3, <2>2, NothingMakes
<1>4. ASSUME find_len # 0, NEW p \in 0..size, MemMem(p, call.start, size), RplcAt(p, 1)
      PROVE  Replacing'
  <2>1. p \in Nat /\ MemMem(p, call.start, end)
    BY <1>2, <1>4
  <2>2. Leftmost(p, FoundFrom(call, 0)) /\ p + find_len <= size
    BY <1>1, <1>4, <2>1, EntryFinds
  <2>3. Expected(call) = Treat(call, Nothing, p)
    BY <1>1, <1>2, <2>2, ExpectedOne
  <2> QED BY <1>1, <1>4, <2>1, <2>2, <2>3, RplcAtMakes
<1> QED BY <1>3, <1>4 DEF RplcOne

(* The calls on many matches that find none. *)
LEMMA NoneMakes ==
  ASSUME IInv, Replacing, pc = "entry", UNCHANGED call, Unchanged(0),
         call.op \notin {"rmlast", "rplclast"},
         n = 0 \/ find_len = 0 \/ call.start >= size \/ NoMatch(call.start, end)
  PROVE  Replacing'
<1>1. call \in Calls /\ n = call.n
  BY TextRead DEF Replacing, Sizes
<1>2. call.n = 0 \/ FoundFrom(call, 0) = {}
  BY <1>1, EntryNone
<1> QED BY <1>1, <1>2, ExpectedNone, NothingMakes

LEMMA StartsAt ==
  ASSUME IInv, Replacing, pc = "entry"
  PROVE  i = At(call.start) /\ i.src_e = call.start /\ end = size /\ n = call.n /\ changed = 0
BY DEF IInv, AtFirst, Replacing, Sizes, At

LEMMA NothingDone ==
  ASSUME IInv, Replacing, RmnNothing \/ RplcnNothing \/ InPlaceNone \/ GrowNone
  PROVE  Replacing'
<1>1. /\ pc = "entry" /\ UNCHANGED call /\ Unchanged(0) /\ call.op \in {"rmn", "rplcn"}
      /\ n = 0 \/ find_len = 0 \/ call.start >= size
           \/ NoMatch(call.start, size) \/ NoMatch(i.src_e, end)
  BY DEF RmnNothing, RmnCalled, RplcnNothing, InPlaceNone, GrowNone, RplcnCalled
<1>2. i.src_e = call.start /\ end = size
  BY <1>1, StartsAt
<1> QED BY <1>1, <1>2, NoneMakes

(***************************************************************************)
(* The loops of one pass.                                                  *)
(***************************************************************************)

(* The loops of one pass search behind the matches they have treated.       *)
LEMMA LoopAt ==
  ASSUME IInv, Replacing, pc \in {"rm", "inplace", "chr", "count"}
  PROVE  /\ TypeOK /\ call \in Calls /\ size = Len(call.text) /\ end = size /\ Shift = 0
         /\ find_len # 0 /\ call.op \notin {"rmlast", "rplclast"}
         /\ changed \in 1..call.n /\ n + changed = call.n
         /\ Run(call, changed) \in Part(call) /\ Run(call, changed).count = changed
         /\ Run(call, changed).at = i.src_e /\ Unread(i.src_e)
<1>1. TypeOK /\ call \in Calls /\ size = Len(call.text) /\ end = size /\ size \in Nat
  BY CallIs, Types DEF IInv, AtFirst, Replacing, Sizes
<1>2. Shift = 0
  BY <1>1 DEF Shift
<1>3. find_len # 0 /\ call.op \notin {"rmlast", "rplclast"} /\ n + changed = call.n /\ changed > 0
  BY DEF Replacing, Sizes, InLoop
<1>4. changed \in 1..call.n /\ changed \in 0..call.n
  <2>1. n \in Nat /\ changed \in Nat
    BY <1>1, Types
  <2>2. \A x, y, z \in Nat : x + y = z /\ y > 0 => y \in 1..z /\ y \in 0..z
    OBVIOUS
  <2>3. call.n \in Nat
    BY <1>1, CallTypes
  <2> QED BY <1>3, <2>1, <2>2, <2>3
<1>5. Run(call, changed) \in Part(call)
  BY <1>1, <1>4, RunType
<1>6. i.src_e \in Nat /\ i.src \in Nat
  BY <1>1, Types
<1>7. CASE pc = "count"
  <2>1. Run(call, changed).count = changed /\ Run(call, changed).at = i.src_e
    BY <1>7 DEF Replacing, FirstPass
  <2>2. Unread(i.src_e)
    BY <1>6, <1>7, TextRead
  <2> QED BY <1>1, <1>2, <1>3, <1>4, <1>5, <2>1, <2>2
<1>8. CASE pc = "chr"
  <2>1. Run(call, changed) = Made(changed, i.src_e, i.src_e) /\ Unread(i.src_e)
    BY <1>8 DEF Replacing, OnePass
  <2>2. Made(changed, i.src_e, i.src_e).count = changed
        /\ Made(changed, i.src_e, i.src_e).at = i.src_e
    BY <1>2, <1>6 DEF Made
  <2> QED BY <1>1, <1>2, <1>3, <1>4, <1>5, <2>1, <2>2
<1>9. CASE pc \in {"rm", "inplace"}
  <2>1. /\ Run(call, changed) = Made(changed, i.dst, i.src) /\ Unread(i.src) /\ i.src = i.src_e
    BY <1>9 DEF Replacing, OnePass, IInv, Behind
  <2>2. Made(changed, i.dst, i.src).count = changed /\ Made(changed, i.dst, i.src).at = i.src
    BY <1>2, <1>6 DEF Made
  <2> QED BY <1>1, <1>2, <1>3, <1>4, <1>5, <2>1, <2>2
<1> QED BY <1>7, <1>8, <1>9

LEMMA LoopSearching ==
  ASSUME IInv, Replacing, pc \in {"rm", "inplace", "chr", "count"}
  PROVE  Searching(i.src_e, i.src_e)
<1>1. /\ TypeOK /\ call \in Calls /\ size = Len(call.text) /\ Shift = 0 /\ find_len # 0
      /\ changed \in 1..call.n /\ Run(call, changed).count = changed
      /\ Run(call, changed).at = i.src_e /\ Unread(i.src_e)
  BY LoopAt
<1>2. call.start <= i.src_e
  BY <1>1, RunPast
<1>3. i.src_e \in Nat /\ call.start \in Nat
  BY <1>1, Types
<1>4. i.src_e = Shift + (IF i.src_e < call.start THEN call.start ELSE i.src_e)
  BY <1>1, <1>2, <1>3
<1> QED BY <1>1, <1>3, <1>4 DEF Searching

LEMMA LoopFinds ==
  ASSUME IInv, Replacing, pc \in {"rm", "inplace", "chr", "count"},
         n # 0, NEW p \in Nat, MemMem(p, i.src_e, end)
  PROVE  /\ i.src_e <= p /\ p + find_len <= end /\ changed + 1 \in 1..call.n
         /\ Run(call, changed + 1) = Treat(call, Run(call, changed), p)
         /\ Run(call, changed + 1).at = p + find_len
         /\ Run(call, changed + 1).count = changed + 1
<1>1. /\ TypeOK /\ call \in Calls /\ Shift = 0 /\ n + changed = call.n
      /\ Run(call, changed).count = changed /\ Run(call, changed).at = i.src_e
  BY LoopAt
<1>2. i.src_e \in Nat /\ end \in Nat /\ n \in Nat /\ changed \in Nat /\ find_len = Len(call.find)
  BY <1>1, Types DEF find_len
<1>3. i.src_e <= p /\ p + find_len <= end
  BY <1>1, <1>2, MatchWithin
<1>4. Leftmost(p - Shift, FoundFrom(call, i.src_e)) /\ p - Shift = p
  BY <1>1, LoopSearching, SearchFinds
<1>5. changed \in 0..(call.n - 1) /\ changed + 1 \in 1..call.n
  <2>1. \A x, y, z \in Nat : x + y = z /\ x # 0 => y \in 0..(z - 1) /\ y + 1 \in 1..z
    OBVIOUS
  <2>2. call.n \in Nat
    BY <1>1, CallTypes
  <2> QED BY <1>1, <1>2, <2>1, <2>2
<1>6. Leftmost(p, FoundFrom(call, Run(call, changed).at))
  BY <1>1, <1>4
<1>7. /\ Run(call, changed + 1) = Treat(call, Run(call, changed), p)
      /\ Run(call, changed + 1).at = p + Len(call.find)
      /\ Run(call, changed + 1).count = Run(call, changed).count + 1
  BY <1>1, <1>5, <1>6, RunNext
<1> QED BY <1>1, <1>2, <1>3, <1>5, <1>7

LEMMA LoopEnds ==
  ASSUME IInv, Replacing, pc \in {"rm", "inplace", "chr", "count"}, n = 0 \/ NoMatch(i.src_e, end)
  PROVE  Expected(call) = Run(call, changed)
<1>1. /\ TypeOK /\ call \in Calls /\ call.op \notin {"rmlast", "rplclast"}
      /\ n + changed = call.n /\ changed \in 1..call.n /\ Run(call, changed).at = i.src_e
  BY LoopAt
<1>2. Expected(call) = Run(call, call.n)
  BY <1>1 DEF Expected
<1>3. CASE n = 0
  <2>1. changed = call.n
    BY <1>1, <1>3, Types
  <2> QED BY <1>2, <2>1
<1>4. CASE NoMatch(i.src_e, end)
  <2>1. FoundFrom(call, i.src_e) = {}
    BY <1>1, <1>4, LoopSearching, SearchEnds
  <2>2. changed \in 0..call.n /\ FoundFrom(call, Run(call, changed).at) = {}
    BY <1>1, <2>1
  <2> QED BY <1>1, <1>2, <2>2, RunStays
<1> QED BY <1>3, <1>4

(* A step of a loop treats the match at p: what has been made so far is     *)
(* below d, and what is read next is at s.                                  *)
Ready(r, d, s, p) ==
  /\ r \in Part(call) /\ r.at + Shift = s /\ r.out = Prefix(data, d) /\ Unread(s)
  /\ s <= p /\ p + find_len <= end
  /\ changed + 1 \in 1..call.n
  /\ Run(call, changed + 1) = Treat(call, r, p - Shift)
  /\ Run(call, changed + 1).at + Shift = p + find_len
  /\ Run(call, changed + 1).count = changed + 1

LEMMA LoopReady ==
  ASSUME IInv, Replacing, pc \in {"rm", "inplace", "chr"},
         n # 0, NEW p \in Nat, MemMem(p, i.src_e, end)
  PROVE  IF pc = "chr" THEN Ready(Run(call, changed), i.src_e, i.src_e, p)
                       ELSE Ready(Run(call, changed), i.dst, i.src, p)
<1>1. /\ TypeOK /\ call \in Calls /\ Shift = 0 /\ Run(call, changed) \in Part(call)
      /\ Run(call, changed).at = i.src_e /\ Unread(i.src_e)
  BY LoopAt
<1>2. /\ i.src_e <= p /\ p + find_len <= end /\ changed + 1 \in 1..call.n
      /\ Run(call, changed + 1) = Treat(call, Run(call, changed), p)
      /\ Run(call, changed + 1).at = p + find_len
      /\ Run(call, changed + 1).count = changed + 1
  BY LoopFinds
<1>3. i.src_e \in Nat /\ find_len \in Nat /\ i.src_e + Shift = i.src_e /\ p - Shift = p
      /\ (p + find_len) + Shift = p + find_len
  <2>1. i.src_e \in Nat /\ find_len \in Nat /\ p + find_len \in Nat
    BY <1>1, Types, SMTT(30)
  <2>2. \A x \in Nat : x + 0 = x /\ x - 0 = x
    OBVIOUS
  <2> QED BY <1>1, <2>1, <2>2
<1>4. CASE pc = "chr"
  <2>1. Run(call, changed).out = Prefix(data, i.src_e)
    BY <1>4 DEF Replacing, OnePass, Made
  <2> QED BY <1>1, <1>2, <1>3, <1>4, <2>1 DEF Ready
<1>5. CASE pc # "chr"
  <2>1. Run(call, changed).out = Prefix(data, i.dst) /\ i.src = i.src_e
    BY <1>5 DEF Replacing, OnePass, Made, IInv, Behind
  <2> QED BY <1>1, <1>2, <1>3, <1>5, <2>1 DEF Ready
<1> QED BY <1>4, <1>5

(* The first match: what is before the start is left where it is.           *)
LEMMA EntryReady ==
  ASSUME IInv, Replacing, pc = "entry", find_len # 0, n # 0, call.start < size,
         NEW p \in Nat, MemMem(p, i.src_e, end)
  PROVE  /\ Ready([at |-> call.start, out |-> Prefix(data, call.start), count |-> 0],
                  call.start, call.start, p)
         /\ Run(call, 1) = Treat(call, Nothing, p)
         /\ p + find_len <= size
<1>1. /\ TypeOK /\ call \in Calls /\ size = Len(call.text) /\ end = size /\ Shift = 0
      /\ (\A k \in 0..(size - 1) : data[k] = call.text[k + 1]) /\ Unread(call.start)
  BY TextRead, CallTypes
<1>2. i.src_e = call.start /\ n = call.n /\ changed = 0
  BY StartsAt
<1>3. Leftmost(p, FoundFrom(call, 0)) /\ p + find_len <= size
  BY <1>2, EntryFinds
<1>4. /\ call.start \in Nat /\ size \in Nat /\ find_len \in Nat /\ call.n \in Nat
      /\ call.text \in Seq(Char) /\ find_len = Len(call.find)
  BY <1>1, Types, CallTypes DEF find_len
<1>5. call.start <= p /\ p <= size
  BY <1>1, <1>2, <1>3, <1>4, MatchWithin
<1>6. Run(call, 1) = Treat(call, Nothing, p) /\ Run(call, 1).at = p + find_len
      /\ Run(call, 1).count = 1
  BY <1>1, <1>2, <1>3, <1>4, FirstTreats
<1> DEFINE r == [at |-> call.start, out |-> Prefix(data, call.start), count |-> 0]
<1>7. call.start \in 0..Len(call.text) /\ p \in call.start..Len(call.text)
  BY <1>1, <1>4, <1>5
<1>8. r \in Part(call) /\ Treat(call, r, p) = Treat(call, Nothing, p)
  <2>1. \A k \in 0..(call.start - 1) : data[k] = call.text[k + 1]
    BY <1>1, <1>4, <1>7, SMTT(30)
  <2> QED BY <1>1, <1>7, <2>1, StartTreats
<1>9. Ready(r, call.start, call.start, p)
  <2>1. /\ r.at + Shift = call.start /\ p - Shift = p /\ changed + 1 = 1 /\ 1 \in 1..call.n
        /\ (p + find_len) + Shift = p + find_len
    BY <1>1, <1>2, <1>4
  <2>2. p + find_len <= end /\ r.out = Prefix(data, call.start)
    BY <1>1, <1>3
  <2> QED BY <1>1, <1>5, <1>6, <1>8, <2>1, <2>2 DEF Ready
<1> QED BY <1>3, <1>6, <1>9

(* The step itself: what it has made is what is expected, and it has not    *)
(* written over what is still to be read.                                   *)
LEMMA StepMakes ==
  ASSUME TypeOK, size = Len(call.text), Shift \in Nat, end < alloc,
         NEW r, NEW d \in Nat, NEW s \in Nat, NEW p \in Nat, Ready(r, d, s, p),
         d + (p - s) + rplc_len <= p + find_len,
         data' = PutAt(d, s, p - s), UNCHANGED <<call, size, end>>
  PROVE  /\ Run(call, changed + 1)
              = [at |-> p + find_len - Shift,
                 out |-> Prefix(data', d + (p - s) + rplc_len), count |-> changed + 1]
         /\ \A k \in (p + find_len)..(end - 1) : data'[k] = call.text[k - Shift + 1]
<1>1. /\ r \in Part(call) /\ r.at + Shift = s /\ r.out = Prefix(data, d) /\ Unread(s)
      /\ s <= p /\ p + find_len <= end /\ changed + 1 \in 1..call.n
      /\ Run(call, changed + 1) = Treat(call, r, p - Shift)
      /\ Run(call, changed + 1).at + Shift = p + find_len
      /\ Run(call, changed + 1).count = changed + 1
  BY DEF Ready
<1>2. alloc \in Nat /\ end \in Nat /\ find_len \in Nat /\ rplc_len \in Nat /\ changed \in Nat
  BY Types
<1>3. d + (p - s) + rplc_len <= alloc /\ p - s \in Nat /\ s + (p - s) <= alloc
  BY <1>1, <1>2
<1>4. Treat(call, r, p - Shift).out = Prefix(data', d + (p - s) + rplc_len)
  BY <1>1, <1>3, PutMakes
<1>5. Run(call, changed + 1) \in Part(call)
  <2>1. call \in Calls /\ changed + 1 \in 0..call.n
    BY <1>1, CallIs
  <2> QED BY <2>1, RunType
<1>6. Run(call, changed + 1).at = p + find_len - Shift
  <2>1. Run(call, changed + 1).at \in Nat
    BY <1>5 DEF Part
  <2> QED BY <1>1, <1>2, <2>1
<1>7. Run(call, changed + 1)
        = [at |-> p + find_len - Shift,
           out |-> Prefix(data', d + (p - s) + rplc_len), count |-> changed + 1]
  BY <1>1, <1>4, <1>5, <1>6 DEF Part
<1>8. ASSUME NEW k \in (p + find_len)..(end - 1)
      PROVE  data'[k] = call.text[k - Shift + 1]
  <2>1. k \in 0..(alloc - 1) /\ k \in s..(end - 1)
    BY <1>1, <1>2
  <2>2. ~(k < d + (p - s) + rplc_len) /\ ~(k < d + (p - s))
    BY <1>2, <1>3
  <2>3. data'[k] = data[k]
    BY <1>3, <2>1, <2>2, PutByte
  <2> QED BY <1>1, <2>1, <2>3 DEF Unread
<1> QED BY <1>7, <1>8

(* A loop of one pass goes on.                                              *)
LEMMA GoesOn ==
  ASSUME Replacing, UNCHANGED <<call, size, end>>, size = Len(call.text), Shift = 0,
         find_len # 0, call.op \notin {"rmlast", "rplclast"},
         n \in Nat, n # 0, changed \in Nat, n + changed = call.n, n' = n - 1, changed' = changed + 1,
         pc' \in {"rm", "inplace", "chr"}, pc' = "rm" => rplc_len = 0,
         NEW d, NEW s,
         pc' = "chr" => i'.src_e = s /\ d = s,
         pc' # "chr" => i'.dst = d /\ i'.src = s,
         pc' = "inplace" /\ rplc_len = find_len => d = s,
         Run(call, changed + 1) = [at |-> s - Shift, out |-> Prefix(data', d), count |-> changed + 1],
         \A k \in s..(end - 1) : data'[k] = call.text[k - Shift + 1]
  PROVE  Replacing'
<1>1. find_len' = find_len /\ rplc_len' = rplc_len /\ Shift' = Shift
  BY DEF find_len, rplc_len, Shift
<1>2. n' + changed' = call.n /\ changed' > 0
  OBVIOUS
<1>3. CallOK' /\ Sizes'
  BY <1>1, <1>2 DEF Replacing, CallOK, Sizes, InLoop
<1>4. /\ Run(call', changed') = [at |-> s - Shift', out |-> Prefix(data', d), count |-> changed']
      /\ \A k \in s..(end' - 1) : data'[k] = call'.text[k - Shift' + 1]
  BY <1>1
<1>5. OnePass'
  <2>1. CASE pc' = "chr"
    <3>1. Run(call', changed') = Made(changed, i.src_e, i.src_e)' /\ Unread(i.src_e)'
      BY <1>4, <2>1 DEF Made, Unread
    <3> QED BY <2>1, <3>1 DEF OnePass
  <2>2. CASE pc' # "chr"
    <3>1. Run(call', changed') = Made(changed, i.dst, i.src)' /\ Unread(i.src)'
      BY <1>4, <2>2 DEF Made, Unread
    <3>2. (pc' = "inplace" /\ rplc_len' = find_len') => i'.dst = i'.src
      BY <1>1, <2>2
    <3> QED BY <2>2, <3>1, <3>2 DEF OnePass
  <2> QED BY <2>1, <2>2
<1>6. FirstPass' /\ SecondPass' /\ Returned'
  BY DEF FirstPass, SecondPass, Returned
<1> QED BY <1>3, <1>5, <1>6 DEF Replacing

LEMMA PutsNothing ==
  ASSUME TypeOK, rplc_len = 0, NEW d \in Nat, NEW len \in Nat, d + len <= alloc
  PROVE  PutAt(d, d, len) = data
<1>1. alloc \in Nat /\ data \in Block(alloc) /\ Len(call.rplc) = 0 /\ d + len \in Nat
  BY Types DEF rplc_len
<1>2. \A e \in Nat : Copy(data, e, call.rplc) = data
  BY <1>1 DEF Copy, Block
<1> QED BY <1>1, <1>2, PutInPlace

LEMMA RmnFirstMakes == ASSUME IInv, Replacing, RmnFirst PROVE Replacing'
<1>1. /\ pc = "entry" /\ call.start < size /\ find_len # 0 /\ n # 0
      /\ n' = n - 1 /\ changed' = changed + 1 /\ pc' = "rm"
      /\ UNCHANGED <<data, call, size, end>>
      /\ call.op \in {"rmn", "rplcn"} /\ rplc_len = 0
  BY DEF RmnFirst, RmnCalled, Replacing, CallOK
<1>2. /\ TypeOK /\ size = Len(call.text) /\ end = size /\ Shift = 0 /\ size < alloc
  BY <1>1, TextRead DEF IInv, Terminated
<1>3. call.start \in Nat /\ find_len \in Nat /\ n \in Nat /\ size \in Nat /\ alloc \in Nat
  BY <1>2, Types
<1>4. PICK p \in 0..size :
        /\ MemMem(p, i.src_e, end)
        /\ i' = [dst |-> p, src |-> p + find_len, src_e |-> p + find_len]
  BY DEF RmnFirst
<1>5. p \in Nat
  BY <1>3
<1>6. PICK r : Ready(r, call.start, call.start, p)
  BY <1>1, <1>4, <1>5, EntryReady
<1>7. call.start <= p /\ p + find_len <= end
  BY <1>6 DEF Ready
<1>8. /\ p - call.start \in Nat /\ call.start + (p - call.start) = p /\ p <= alloc
      /\ call.start + (p - call.start) + rplc_len = p /\ p <= p + find_len
  <2>1. \A s, x, f, a \in Nat : s <= x /\ x + f < a =>
          x - s \in Nat /\ s + (x - s) = x /\ x <= a /\ s + (x - s) + 0 = x /\ x <= x + f
    OBVIOUS
  <2> QED BY <1>1, <1>2, <1>3, <1>5, <1>7, <2>1
<1>9. data' = PutAt(call.start, call.start, p - call.start)
  BY <1>1, <1>2, <1>3, <1>8, PutsNothing
<1>10. /\ Run(call, changed + 1) = [at |-> p + find_len - Shift, out |-> Prefix(data', p),
                                    count |-> changed + 1]
       /\ \A k \in (p + find_len)..(end - 1) : data'[k] = call.text[k - Shift + 1]
  <2>1. call.start + (p - call.start) + rplc_len <= p + find_len /\ end < alloc /\ Shift \in Nat
    BY <1>2, <1>8
  <2>2. /\ Run(call, changed + 1)
             = [at |-> p + find_len - Shift,
                out |-> Prefix(data', call.start + (p - call.start) + rplc_len),
                count |-> changed + 1]
        /\ \A k \in (p + find_len)..(end - 1) : data'[k] = call.text[k - Shift + 1]
    <3>1. UNCHANGED <<call, size, end>>
      BY <1>1
    <3>2. \A d, s \in Nat : /\ Ready(r, d, s, p) /\ d + (p - s) + rplc_len <= p + find_len
                            /\ data' = PutAt(d, s, p - s)
            => /\ Run(call, changed + 1)
                    = [at |-> p + find_len - Shift,
                       out |-> Prefix(data', d + (p - s) + rplc_len), count |-> changed + 1]
               /\ \A k \in (p + find_len)..(end - 1) : data'[k] = call.text[k - Shift + 1]
      <4>1. TypeOK /\ size = Len(call.text) /\ Shift \in Nat /\ end < alloc
        BY <1>2, <2>1
      <4> QED BY <1>5, <3>1, <4>1, StepMakes
    <3> QED BY <1>3, <1>6, <1>9, <2>1, <3>2
  <2> QED BY <1>8, <2>2
<1>11. n + changed = call.n /\ changed \in Nat
  <2>1. n = call.n /\ changed = 0 /\ 0 \in Nat
    BY <1>1, StartsAt
  <2> QED BY <1>3, <2>1
<1>12. i'.dst = p /\ i'.src = p + find_len
  BY <1>4
<1> QED BY <1>1, <1>2, <1>3, <1>10, <1>11, <1>12, GoesOn

LEMMA RmnStepMakes == ASSUME IInv, Replacing, RmnStep PROVE Replacing'
<1>1. /\ pc = "rm" /\ pc' = "rm" /\ n # 0 /\ n' = n - 1 /\ changed' = changed + 1
      /\ UNCHANGED <<call, size, end>>
  BY DEF RmnStep
<1>2. /\ TypeOK /\ size = Len(call.text) /\ end = size /\ Shift = 0 /\ end < alloc
      /\ find_len # 0 /\ call.op \notin {"rmlast", "rplclast"} /\ n + changed = call.n
      /\ rplc_len = 0 /\ i.dst <= i.src
  BY <1>1, LoopAt DEF IInv, Terminated, Replacing, Sizes, Behind
<1>3. /\ i.dst \in Nat /\ i.src \in Nat /\ find_len \in Nat /\ n \in Nat /\ changed \in Nat
      /\ size \in Nat /\ Shift \in Nat
  BY <1>2, Types
<1>4. PICK p \in 0..size :
        /\ MemMem(p, i.src_e, end)
        /\ data' = Move(data, i.dst, i.src, p - i.src)
        /\ i' = [dst |-> i.dst + (p - i.src), src |-> p + find_len, src_e |-> p + find_len]
  BY DEF RmnStep
<1>5. p \in Nat
  BY <1>3
<1>6. Ready(Run(call, changed), i.dst, i.src, p)
  BY <1>1, <1>4, <1>5, LoopReady
<1>7. i.src <= p
  BY <1>6 DEF Ready
<1> DEFINE d == i.dst + (p - i.src)
<1>8. p - i.src \in Nat /\ d + rplc_len = d /\ d <= p + find_len
  <2>1. \A x, y, z, f \in Nat : x <= y /\ y <= z =>
          z - y \in Nat /\ x + (z - y) + 0 = x + (z - y) /\ x + (z - y) <= z + f
    OBVIOUS
  <2> QED BY <1>2, <1>3, <1>5, <1>7, <2>1
<1>9. data' = PutAt(i.dst, i.src, p - i.src)
  BY <1>2, <1>3, <1>4, <1>8, PutNothing
<1>10. /\ Run(call, changed + 1) = [at |-> p + find_len - Shift, out |-> Prefix(data', d),
                                    count |-> changed + 1]
       /\ \A k \in (p + find_len)..(end - 1) : data'[k] = call.text[k - Shift + 1]
  <2>1. i.dst + (p - i.src) + rplc_len <= p + find_len
    BY <1>8
  <2>2. /\ Run(call, changed + 1)
             = [at |-> p + find_len - Shift,
                out |-> Prefix(data', i.dst + (p - i.src) + rplc_len), count |-> changed + 1]
        /\ \A k \in (p + find_len)..(end - 1) : data'[k] = call.text[k - Shift + 1]
    <3>1. TypeOK /\ size = Len(call.text) /\ Shift \in Nat /\ end < alloc
          /\ UNCHANGED <<call, size, end>>
      BY <1>1, <1>2, <1>3
    <3>2. \A r : \A x, y \in Nat :
            Ready(r, x, y, p) /\ x + (p - y) + rplc_len <= p + find_len
              /\ data' = PutAt(x, y, p - y) =>
                /\ Run(call, changed + 1)
                     = [at |-> p + find_len - Shift,
                        out |-> Prefix(data', x + (p - y) + rplc_len), count |-> changed + 1]
                /\ \A k \in (p + find_len)..(end - 1) : data'[k] = call.text[k - Shift + 1]
      BY <1>5, <3>1, StepMakes
    <3>3. i.dst \in Nat /\ i.src \in Nat
      BY <1>3
    <3> HIDE DEF d
    <3> QED BY <1>6, <1>9, <2>1, <3>2, <3>3, Zenon
  <2> QED BY <1>8, <2>2
<1>11. i'.dst = d /\ i'.src = p + find_len
  BY <1>4
<1> HIDE DEF d
<1> QED BY <1>1, <1>2, <1>3, <1>10, <1>11, GoesOn

(* The end of a loop that moves up the rest of the text.                    *)
LEMMA RestMakes ==
  ASSUME IInv, Replacing, pc \in {"rm", "inplace"}, n = 0 \/ NoMatch(i.src_e, end),
         UNCHANGED call, Done(changed),
         Works(Buffer, StrMove(data, i.dst, i.src, end - i.src), i.dst + (end - i.src))
  PROVE  Replacing'
<1>1. /\ TypeOK /\ size = Len(call.text) /\ Shift = 0 /\ end = size /\ size < alloc
      /\ Run(call, changed) \in Part(call) /\ Run(call, changed).count = changed
      /\ Run(call, changed).at = i.src_e /\ Unread(i.src_e)
  BY LoopAt DEF IInv, Terminated
<1>2. i.dst <= i.src /\ i.src = i.src_e /\ i.src <= end
  BY DEF IInv, Behind
<1>3. Run(call, changed).out = Prefix(data, i.dst)
  BY DEF Replacing, OnePass, Made
<1>4. i.dst \in Nat /\ i.src \in Nat /\ end \in Nat /\ size \in Nat /\ alloc \in Nat
  BY <1>1, Types
<1>5. i.dst + (end - i.src) < alloc /\ Shift \in Nat /\ end < alloc
  <2>1. \A x, y, z, a \in Nat : x <= y /\ y <= z /\ z < a => x + (z - y) < a
    OBVIOUS
  <2> QED BY <1>1, <1>2, <1>4, <2>1
<1>6. Run(call, changed).at + Shift = i.src /\ Unread(i.src)
  <2>1. \A x \in Nat : x + 0 = x
    OBVIOUS
  <2> QED BY <1>1, <1>2, <1>4, <2>1
<1>7. Finished(call, Run(call, changed))
        = Prefix(StrMove(data, i.dst, i.src, end - i.src), i.dst + (end - i.src))
  <2>1. TypeOK /\ size = Len(call.text) /\ Run(call, changed) \in Part(call)
    BY <1>1
  <2> QED BY <1>2, <1>3, <1>4, <1>5, <1>6, <2>1, TailMakes
<1>8. Expected(call) = Run(call, changed)
  BY LoopEnds
<1> QED BY <1>1, <1>7, <1>8, DoneMakes DEF Works, Done

(* The end of a loop that has replaced bytes by as many.                    *)
LEMMA LeftMakes ==
  ASSUME IInv, Replacing, pc \in {"inplace", "chr"}, n = 0 \/ NoMatch(i.src_e, end),
         pc = "inplace" => rplc_len = find_len,
         UNCHANGED <<call, data, size>>, Done(changed)
  PROVE  Replacing'
<1>1. /\ TypeOK /\ call \in Calls /\ size = Len(call.text) /\ Shift = 0 /\ end = size
      /\ Run(call, changed) \in Part(call) /\ Run(call, changed).count = changed
      /\ Run(call, changed).at = i.src_e /\ Unread(i.src_e)
  BY LoopAt
<1>2. Run(call, changed).out = Prefix(data, i.src_e)
  BY DEF Replacing, OnePass, Made, IInv, Behind
<1>3. i.src_e \in Nat /\ end \in Nat /\ size \in Nat /\ call.text \in Seq(Char)
  BY <1>1, Types, CallTypes
<1>4. i.src_e \in 0..Len(call.text) /\ size \in i.src_e..Len(call.text) /\ size - i.src_e \in Nat
  <2>1. i.src_e \in 0..Len(call.text)
    BY <1>1 DEF Part
  <2> QED BY <1>1, <1>3, <2>1
<1>5. Holds(data, i.src_e, SubSeq(call.text, i.src_e + 1, Len(call.text)))
  <2>1. \A l \in 1..(end - i.src_e) : data[i.src_e + l - 1] = call.text[(i.src_e - Shift) + l]
    <3>1. Shift \in Nat /\ Shift <= i.src_e
      BY <1>1, <1>3
    <3> QED BY <1>1, <1>3, <3>1, Reads
  <2>2. i.src_e - Shift = i.src_e
    BY <1>1, <1>3
  <2>3. \A l \in 1..(Len(call.text) - i.src_e) : data[i.src_e + l - 1] = call.text[i.src_e + l]
    BY <1>1, <2>1, <2>2
  <2>4. Len(call.text) \in i.src_e..Len(call.text)
    BY <1>1, <1>4
  <2> QED BY <1>3, <1>4, <2>3, <2>4, HoldsPart
<1>6. Finished(call, Run(call, changed)) = Prefix(data, i.src_e + (Len(call.text) - i.src_e))
  <2>1. Alike(data, data, i.src_e)
    BY DEF Alike
  <2> QED BY <1>1, <1>2, <1>3, <1>5, <2>1, RestOf
<1>7. i.src_e + (Len(call.text) - i.src_e) = size
  BY <1>1, <1>3
<1>8. Expected(call) = Run(call, changed)
  BY LoopEnds
<1> QED BY <1>1, <1>6, <1>7, <1>8, DoneMakes DEF Done

LEMMA RmnEndMakes == ASSUME IInv, Replacing, RmnEnd PROVE Replacing'
BY RestMakes DEF RmnEnd

LEMMA InPlaceEndMakes == ASSUME IInv, Replacing, InPlaceEnd PROVE Replacing'
<1>1. /\ pc = "inplace" /\ UNCHANGED call /\ Done(changed)
      /\ n = 0 \/ NoMatch(i.src_e, end)
  BY DEF InPlaceEnd
<1>2. CASE rplc_len = find_len
  <2>1. UNCHANGED <<data, size>>
    BY <1>2 DEF InPlaceEnd
  <2> QED BY <1>1, <1>2, <2>1, LeftMakes
<1>3. CASE rplc_len # find_len
  <2>1. Works(Buffer, StrMove(data, i.dst, i.src, end - i.src), i.dst + (end - i.src))
    BY <1>3 DEF InPlaceEnd
  <2> QED BY <1>1, <2>1, RestMakes
<1> QED BY <1>2, <1>3

(* Before and in the loops of one pass. *)
LEMMA StepAt ==
  ASSUME IInv, Replacing, pc \in {"entry", "rm", "inplace", "chr", "count"}
  PROVE  /\ TypeOK /\ call \in Calls /\ size = Len(call.text) /\ end = size /\ Shift = 0
         /\ end < alloc /\ n + changed = call.n
<1>1. CASE pc = "entry"
  <2>1. /\ TypeOK /\ call \in Calls /\ size = Len(call.text) /\ end = size /\ Shift = 0
        /\ n = call.n /\ changed = 0 /\ call.n \in Nat
    BY <1>1, TextRead, StartsAt, CallTypes
  <2>2. n + changed = call.n
    BY <2>1
  <2> QED BY <2>1, <2>2 DEF IInv, Terminated
<1>2. CASE pc # "entry"
  BY <1>2, LoopAt DEF IInv, Terminated
<1> QED BY <1>1, <1>2

LEMMA CalledReady ==
  ASSUME IInv, Replacing, RplcnCalled, NEW p \in Nat, MemMem(p, i.src_e, end)
  PROVE  /\ \E r : Ready(r, i.src_e, i.src_e, p)
         /\ i.dst = i.src_e /\ i.src = i.src_e
<1>1. pc = "entry" /\ call.start < size /\ n # 0 /\ find_len # 0
  BY DEF RplcnCalled
<1>2. i = At(call.start) /\ i.src_e = call.start
  BY <1>1, StartsAt
<1>3. \E r : Ready(r, call.start, call.start, p)
  BY <1>1, EntryReady
<1> QED BY <1>2, <1>3 DEF At

LEMMA RplcNChrMakes == ASSUME IInv, Replacing, RplcNChr PROVE Replacing'
<1>1. /\ pc \in {"entry", "chr"}
      /\ pc = "entry" => RplcnCalled
      /\ find_len = 1 /\ rplc_len = 1 /\ call.op \notin {"rmlast", "rplclast"}
  BY DEF RplcNChr, RplcnCalled, IInv, Behind, Replacing, Sizes, InLoop
<1>2. TypeOK /\ size = Len(call.text) /\ end = size /\ Shift = 0 /\ end < alloc /\ n + changed = call.n
  BY <1>1, StepAt
<1>3. /\ i.src_e \in Nat /\ n \in Nat /\ changed \in Nat /\ size \in Nat /\ alloc \in Nat
  BY <1>2, Types
<1>4. ASSUME n # 0, NEW p \in 0..size, MemMem(p, i.src_e, end),
             data' = Copy(data, p, call.rplc), i' = [i EXCEPT !.src_e = p + 1],
             n' = n - 1, changed' = changed + 1, pc' = "chr", UNCHANGED <<call, size, end>>
      PROVE  Replacing'
  <2>1. p \in Nat
    BY <1>3
  <2>2. PICK r : Ready(r, i.src_e, i.src_e, p)
    <3>1. CASE pc = "entry"
      BY <1>1, <1>4, <2>1, <3>1, CalledReady
    <3>2. CASE pc = "chr"
      BY <1>4, <2>1, <3>2, LoopReady
    <3> QED BY <1>1, <3>1, <3>2
  <2>3. i.src_e <= p /\ p + find_len <= end
    BY <2>2 DEF Ready
  <2>4. /\ p - i.src_e \in Nat /\ i.src_e + (p - i.src_e) = p /\ p <= alloc
        /\ i.src_e + (p - i.src_e) + rplc_len = p + find_len /\ p + find_len = p + 1
        /\ p + 1 <= p + 1
    <3>1. \A s, x, a : s \in Nat /\ x \in Nat /\ a \in Nat /\ s <= x /\ x + 1 < a =>
            /\ x - s \in Nat /\ s + (x - s) = x /\ x <= a /\ s + (x - s) + 1 = x + 1
            /\ x + 1 <= x + 1
      OBVIOUS
    <3>2. p + 1 < alloc
      BY <1>1, <1>2, <1>3, <2>1, <2>3
    <3> QED BY <1>1, <1>3, <2>1, <2>3, <3>1, <3>2
  <2>5. data' = PutAt(i.src_e, i.src_e, p - i.src_e)
    BY <1>2, <1>3, <1>4, <2>4, PutInPlace
  <2>6. /\ Run(call, changed + 1) = [at |-> p + find_len - Shift,
                                     out |-> Prefix(data', p + find_len), count |-> changed + 1]
        /\ \A k \in (p + find_len)..(end - 1) : data'[k] = call.text[k - Shift + 1]
    <3>1. TypeOK /\ size = Len(call.text) /\ Shift \in Nat /\ end < alloc
      BY <1>2
    <3>2. i.src_e + (p - i.src_e) + rplc_len <= p + find_len
      BY <2>1, <2>4
    <3>3. /\ Run(call, changed + 1)
               = [at |-> p + find_len - Shift,
                  out |-> Prefix(data', i.src_e + (p - i.src_e) + rplc_len),
                  count |-> changed + 1]
          /\ \A k \in (p + find_len)..(end - 1) : data'[k] = call.text[k - Shift + 1]
      BY <1>3, <1>4, <2>1, <2>2, <2>5, <3>1, <3>2, StepMakes
    <3> QED BY <2>4, <3>3
  <2>7. i'.src_e = p + find_len /\ find_len # 0
    <3>1. i \in [dst : Nat, src : Nat, src_e : Nat]
      BY <1>2 DEF TypeOK
    <3> QED BY <1>1, <1>4, <2>4, <3>1
  <2> QED BY <1>1, <1>2, <1>3, <1>4, <2>6, <2>7, GoesOn
<1>5. CASE Unchanged(changed) /\ UNCHANGED call /\ (n = 0 \/ NoMatch(i.src_e, end))
  <2>1. CASE pc = "entry"
    <3>1. i.src_e = call.start /\ changed = 0
      BY <2>1, StartsAt
    <3> QED BY <1>1, <1>5, <2>1, <3>1, NoneMakes
  <2>2. CASE pc = "chr"
    BY <1>5, <2>2, LeftMakes DEF Unchanged
  <2> QED BY <1>1, <2>1, <2>2
<1> QED BY <1>4, <1>5 DEF RplcNChr

LEMMA InPlaceStepMakes == ASSUME IInv, Replacing, InPlaceStep PROVE Replacing'
<1>1. /\ pc \in {"entry", "inplace"}
      /\ pc = "entry" => RplcnCalled
      /\ n # 0 /\ n' = n - 1 /\ changed' = changed + 1 /\ pc' = "inplace"
      /\ UNCHANGED <<call, size, end>>
      /\ find_len # 0 /\ rplc_len <= find_len /\ call.op \notin {"rmlast", "rplclast"}
  BY DEF InPlaceStep, RplcnCalled, IInv, Behind, Replacing, Sizes, InLoop
<1>2. TypeOK /\ size = Len(call.text) /\ end = size /\ Shift = 0 /\ end < alloc /\ n + changed = call.n
  BY <1>1, StepAt
<1>3. /\ i.dst \in Nat /\ i.src \in Nat /\ find_len \in Nat /\ rplc_len \in Nat
      /\ n \in Nat /\ changed \in Nat /\ size \in Nat /\ alloc \in Nat /\ end \in Nat
  BY <1>2, Types
<1>4. PICK p \in 0..size :
        /\ MemMem(p, i.src_e, end)
        /\ data' = IF find_len # rplc_len THEN Put(p - i.src)
                   ELSE Copy(data, i.dst + (p - i.src), call.rplc)
        /\ i' = [dst |-> i.dst + (p - i.src) + rplc_len,
                 src |-> p + find_len, src_e |-> p + find_len]
  BY DEF InPlaceStep
<1>5. p \in Nat
  BY <1>3
<1>6. /\ \E r : Ready(r, i.dst, i.src, p)
      /\ i.dst <= i.src
      /\ find_len = rplc_len => i.dst = i.src
  <2>1. CASE pc = "entry"
    <3>1. (\E r : Ready(r, i.src_e, i.src_e, p)) /\ i.dst = i.src_e /\ i.src = i.src_e
      BY <1>1, <1>4, <1>5, <2>1, CalledReady
    <3> QED BY <1>3, <3>1
  <2>2. CASE pc = "inplace"
    <3>1. \E r : Ready(r, i.dst, i.src, p)
      BY <1>1, <1>4, <1>5, <2>2, LoopReady
    <3>2. i.dst <= i.src /\ (find_len = rplc_len => i.dst = i.src)
      BY <2>2 DEF IInv, Behind, Replacing, OnePass
    <3> QED BY <3>1, <3>2
  <2> QED BY <1>1, <2>1, <2>2
<1>7. PICK r : Ready(r, i.dst, i.src, p)
  BY <1>6
<1>8. i.src <= p /\ p + find_len <= end
  BY <1>7 DEF Ready
<1> DEFINE d == i.dst + (p - i.src) + rplc_len
<1>9. /\ p - i.src \in Nat /\ d <= p + find_len /\ i.dst + (p - i.src) <= alloc
      /\ i.dst = i.src /\ find_len = rplc_len => d = p + find_len
  <2>1. \A x, y, z, f, g, a \in Nat : x <= y /\ y <= z /\ z + f < a /\ g <= f =>
          /\ z - y \in Nat /\ x + (z - y) + g <= z + f /\ x + (z - y) <= a
          /\ x = y /\ f = g => x + (z - y) + g = z + f
    OBVIOUS
  <2>2. p + find_len < alloc
    BY <1>2, <1>3, <1>5, <1>8
  <2> QED BY <1>1, <1>3, <1>5, <1>6, <1>8, <2>1, <2>2
<1>10. data' = PutAt(i.dst, i.src, p - i.src)
  <2>1. CASE find_len # rplc_len
    BY <1>4, <2>1 DEF Put, PutAt
  <2>2. CASE find_len = rplc_len
    <3>1. i.dst = i.src /\ data' = Copy(data, i.dst + (p - i.src), call.rplc)
      BY <1>4, <1>6, <2>2
    <3>2. PutAt(i.dst, i.dst, p - i.src) = Copy(data, i.dst + (p - i.src), call.rplc)
      BY <1>2, <1>3, <1>9, PutInPlace
    <3> QED BY <3>1, <3>2
  <2> QED BY <2>1, <2>2
<1>11. /\ Run(call, changed + 1) = [at |-> p + find_len - Shift, out |-> Prefix(data', d),
                                    count |-> changed + 1]
       /\ \A k \in (p + find_len)..(end - 1) : data'[k] = call.text[k - Shift + 1]
  <2>1. TypeOK /\ size = Len(call.text) /\ Shift \in Nat /\ end < alloc
    BY <1>2
  <2>2. UNCHANGED <<call, size, end>> /\ i.dst \in Nat /\ i.src \in Nat
    BY <1>1, <1>3
  <2>3. i.dst + (p - i.src) + rplc_len <= p + find_len
    BY <1>9
  <2> HIDE DEF d
  <2>4. /\ Run(call, changed + 1)
             = [at |-> p + find_len - Shift,
                out |-> Prefix(data', i.dst + (p - i.src) + rplc_len), count |-> changed + 1]
        /\ \A k \in (p + find_len)..(end - 1) : data'[k] = call.text[k - Shift + 1]
    BY <1>5, <1>7, <1>10, <2>1, <2>2, <2>3, StepMakes
  <2> QED BY <2>4 DEF d
<1>12. i'.dst = d /\ i'.src = p + find_len
  BY <1>4
<1>13. pc' = "inplace" /\ rplc_len = find_len => d = p + find_len
  BY <1>6, <1>9
<1> HIDE DEF d
<1> QED BY <1>1, <1>2, <1>3, <1>11, <1>12, <1>13, GoesOn

LEMMA CountMakes == ASSUME IInv, Replacing, Count PROVE Replacing'
<1>1. /\ pc \in {"entry", "count"}
      /\ pc = "entry" => RplcnCalled
      /\ n # 0 /\ n' = n - 1 /\ changed' = changed + 1 /\ pc' = "count"
      /\ UNCHANGED <<call, size>>
      /\ find_len # 0 /\ call.op \notin {"rmlast", "rplclast"}
  BY DEF Count, RplcnCalled, Replacing, Sizes, InLoop
<1>2. TypeOK /\ call \in Calls /\ size = Len(call.text) /\ Shift = 0 /\ n + changed = call.n
  BY <1>1, StepAt
<1>3. i.src_e \in Nat /\ n \in Nat /\ changed \in Nat /\ size \in Nat /\ find_len \in Nat
  BY <1>2, Types
<1>4. PICK p \in 0..size :
        /\ MemMem(p, i.src_e, end)
        /\ first' = IF changed = 0 THEN p ELSE first
        /\ i' = [i EXCEPT !.src_e = p + find_len]
  BY DEF Count
<1>5. p \in Nat
  BY <1>3
<1>6. i'.src_e = p + find_len
  <2>1. i \in [dst : Nat, src : Nat, src_e : Nat]
    BY <1>2 DEF TypeOK
  <2> QED BY <1>4, <2>1
<1>7. /\ Run(call, changed + 1).count = changed + 1
      /\ Run(call, changed + 1).at = p + find_len
      /\ Run(call, 1) = Treat(call, Nothing, first')
  <2>1. CASE pc = "entry"
    <3>1. /\ find_len # 0 /\ n # 0 /\ call.start < size
      BY <1>1, <2>1 DEF RplcnCalled
    <3>2. \E r : Ready(r, call.start, call.start, p)
      BY <1>4, <1>5, <2>1, <3>1, EntryReady
    <3>3. Run(call, 1) = Treat(call, Nothing, p) /\ changed = 0
      BY <1>4, <1>5, <2>1, <3>1, EntryReady, StartsAt
    <3>4. /\ Run(call, changed + 1).at + Shift = p + find_len
          /\ Run(call, changed + 1).count = changed + 1 /\ changed + 1 \in 1..call.n
      BY <3>2 DEF Ready
    <3>5. Run(call, changed + 1).at \in Nat
      <4>1. changed + 1 \in 0..call.n
        BY <3>4
      <4> QED BY <1>2, <4>1, RunType DEF Part
    <3>6. Run(call, changed + 1).at = p + find_len
      BY <1>2, <3>4, <3>5
    <3> QED BY <1>4, <3>3, <3>4, <3>6
  <2>2. CASE pc = "count"
    <3>1. Run(call, 1) = Treat(call, Nothing, first) /\ changed # 0
      BY <2>2 DEF Replacing, FirstPass, Sizes
    <3>2. /\ Run(call, changed + 1).at = p + find_len
          /\ Run(call, changed + 1).count = changed + 1
      BY <1>1, <1>4, <1>5, <2>2, LoopFinds
    <3> QED BY <1>4, <3>1, <3>2
  <2> QED BY <1>1, <2>1, <2>2
<1>8. find_len' = find_len /\ rplc_len' = rplc_len
  BY <1>1 DEF find_len, rplc_len
<1>9. n' + changed' = call.n /\ changed' > 0
  BY <1>1, <1>2, <1>3
<1>10. CallOK' /\ Sizes'
  BY <1>1, <1>2, <1>8, <1>9 DEF Replacing, CallOK, Sizes, InLoop
<1>11. FirstPass'
  BY <1>1, <1>6, <1>7 DEF FirstPass
<1>12. OnePass' /\ SecondPass' /\ Returned'
  BY <1>1 DEF OnePass, SecondPass, Returned
<1> QED BY <1>10, <1>11, <1>12 DEF Replacing

LEMMA CountedOneMakes == ASSUME IInv, Replacing, CountedOne PROVE Replacing'
<1>1. /\ pc = "count" /\ changed = 1 /\ UNCHANGED call /\ RplcAt(first, 1)
      /\ n = 0 \/ NoMatch(i.src_e, end)
  BY DEF CountedOne, Counted
<1>2. first \in Nat /\ first + find_len <= size
  <2>1. /\ first \in Nat /\ last \in Nat /\ find_len \in Nat /\ size \in Nat
        /\ first <= last /\ last + find_len <= end /\ end = size
    BY <1>1, Types DEF IInv, Counting, AtFirst
  <2> QED BY <2>1
<1>3. Expected(call) = Treat(call, Nothing, first)
  <2>1. Expected(call) = Run(call, changed)
    BY <1>1, LoopEnds
  <2>2. Run(call, 1) = Treat(call, Nothing, first)
    BY <1>1 DEF Replacing, FirstPass
  <2> QED BY <1>1, <2>1, <2>2
<1> QED BY <1>1, <1>2, <1>3, RplcAtMakes

(* The text from the first match on is moved, what is before it stays.      *)
LEMMA Moved ==
  ASSUME IInv, Replacing, pc = "count", NEW m \in Nat, size <= m, NEW f \in Nat, f <= size,
         NEW b \in Reserved(Buffer, m + (size - f) + 1)
  PROVE  /\ \A k \in 0..(f - 1) : Move(b.data, m, f, size - f)[k] = call.text[k + 1]
         /\ \A k \in m..((m + (size - f)) - 1) :
              Move(b.data, m, f, size - f)[k] = call.text[k - (m - f) + 1]
<1>1. TypeOK /\ (\A k \in 0..(size - 1) : data[k] = call.text[k + 1]) /\ size < alloc
  BY TextRead DEF IInv, Terminated
<1>2. size \in Nat /\ alloc \in Nat
  BY <1>1, Types
<1>3. PICK len \in Nat : len = size - f
  BY <1>2
<1>4. m + len + 1 \in Nat /\ f + len = size
  BY <1>2, <1>3
<1>5. Sound(b) /\ b.alloc >= m + len + 1 /\ b.alloc >= alloc
  BY <1>1, <1>3, <1>4, BufferSound, ReserveSound
<1>6. PICK a \in Nat : a = b.alloc /\ b.data \in Block(a) /\ a >= m + len + 1 /\ a >= alloc
  BY <1>5 DEF Sound
<1>7. \A k \in 0..(size - 1) : b.data[k] = call.text[k + 1]
  <2> TAKE k \in 0..(size - 1)
  <2>1. k \in 0..(Buffer.alloc - 1) /\ Buffer.data = data
    BY <1>1, <1>2 DEF Buffer
  <2>2. b.data[k] = Buffer.data[k]
    BY <1>1, <1>3, <1>4, <2>1, BufferSound, ReservedLeaves
  <2> QED BY <1>1, <2>1, <2>2
<1>8. f + len <= a
  BY <1>1, <1>2, <1>4, <1>6
<1>9. \A k \in 0..(a - 1) : Move(b.data, m, f, len)[k]
        = IF m <= k /\ k < m + len THEN b.data[k - m + f] ELSE b.data[k]
  <2>1. \A c \in Nat : \A w \in Block(c) : \A k \in 0..(c - 1) : f + len <= c =>
          Move(w, m, f, len)[k] = IF m <= k /\ k < m + len THEN w[k - m + f] ELSE w[k]
    BY MoveByte
  <2>2. a \in Nat /\ b.data \in Block(a)
    BY <1>6
  <2> QED BY <1>8, <2>1, <2>2, Zenon
<1>10. \A k \in 0..(f - 1) : Move(b.data, m, f, len)[k] = call.text[k + 1]
  <2> TAKE k \in 0..(f - 1)
  <2>1. k \in 0..(a - 1) /\ k \in 0..(size - 1) /\ ~(m <= k)
    BY <1>1, <1>2, <1>6
  <2> QED BY <1>7, <1>9, <2>1
<1>11. \A k \in m..((m + len) - 1) : Move(b.data, m, f, len)[k] = call.text[k - (m - f) + 1]
  <2> TAKE k \in m..((m + len) - 1)
  <2>1. k \in 0..(a - 1) /\ m <= k /\ k < m + len
    BY <1>6
  <2>2. k - m + f \in 0..(size - 1)
    BY <1>4
  <2>3. (k - m + f) + 1 = k - (m - f) + 1
    <3>1. k \in Int
      OBVIOUS
    <3> QED BY <3>1
  <2>4. Move(b.data, m, f, len)[k] = b.data[k - m + f]
    BY <1>9, <2>1
  <2>5. b.data[k - m + f] = call.text[(k - m + f) + 1]
    BY <1>7, <2>2
  <2> QED BY <2>3, <2>4, <2>5
<1> QED BY <1>3, <1>10, <1>11

LEMMA MakeRoomMakes == ASSUME IInv, Replacing, MakeRoom PROVE Replacing'
<1> DEFINE need == new_size + (size - first) + 1
<1>1. /\ pc = "count" /\ changed > 1 /\ UNCHANGED <<call, changed>>
      /\ n = 0 \/ NoMatch(i.src_e, end)
  BY DEF MakeRoom, Counted
<1>2. /\ TypeOK /\ call \in Calls /\ size = Len(call.text) /\ end = size /\ Shift = 0
      /\ find_len # 0 /\ call.op \notin {"rmlast", "rplclast"}
      /\ changed \in 1..call.n /\ n + changed = call.n
      /\ Run(call, changed) \in Part(call) /\ Run(call, changed).count = changed
      /\ Run(call, changed).at = i.src_e
  BY <1>1, LoopAt
<1>3. Gain > 0 /\ first <= last /\ i.src_e = last + find_len /\ last + find_len <= end
  BY <1>1 DEF IInv, Counting
<1>4. /\ find_len \in Nat /\ i.src_e \in Nat /\ n \in Nat /\ changed \in Nat /\ call.n \in Nat
      /\ size \in Nat /\ end \in Nat /\ first \in Nat /\ last \in Nat
  BY <1>2, Types, CallTypes
<1>5. PICK m \in Nat : m = new_size /\ size <= m
  <2>1. new_size \in Nat /\ new_size = size + changed * Gain /\ changed * Gain \in Nat
    BY <1>2, <1>3, NewSize
  <2> QED BY <1>4, <2>1
<1>6. first <= size /\ first <= m /\ size - first \in Nat
  <2>1. first <= size
    BY <1>2, <1>3, <1>4
  <2> QED BY <1>4, <1>5, <2>1
<1>7. Run(call, 1) = Treat(call, Nothing, first)
  BY <1>1 DEF Replacing, FirstPass
<1>8. changed = call.n \/ FoundFrom(call, Run(call, changed).at) = {}
  <2>1. CASE n = 0
    BY <1>2, <1>4, <2>1
  <2>2. CASE NoMatch(i.src_e, end)
    <3>1. FoundFrom(call, i.src_e) = {}
      BY <1>1, <1>2, <2>2, LoopSearching, SearchEnds
    <3> QED BY <1>2, <3>1
  <2> QED BY <1>1, <2>1, <2>2
<1>9. ASSUME NEW b \in Reserved(Buffer, need),
             data' = Move(b.data, new_size, first, size - first), size' = size,
             i' = [dst |-> first, src |-> new_size, src_e |-> new_size],
             last' = new_size + (last + find_len - first),
             end' = new_size + (end - first),
             n' = changed, pc' = "fill"
      PROVE  Replacing'
  <2>1. i'.dst = first /\ i'.src = m /\ i'.src_e = m
    BY <1>5, <1>9
  <2>2. find_len' = find_len /\ rplc_len' = rplc_len
    BY <1>1 DEF find_len, rplc_len
  <2>3. end' = m + (size - first)
    BY <1>2, <1>5, <1>9
  <2>4. Shift' = m - first
    <3>1. \A x, y, z \in Nat : z <= y => (x + (y - z)) - y = x - z
      OBVIOUS
    <3>2. (m + (size - first)) - size = m - first
      BY <1>4, <1>6, <3>1
    <3> QED BY <1>9, <2>3, <3>2 DEF Shift
  <2>5. /\ \A k \in 0..(first - 1) : data'[k] = call.text[k + 1]
        /\ \A k \in m..((m + (size - first)) - 1) : data'[k] = call.text[k - (m - first) + 1]
    BY <1>1, <1>4, <1>5, <1>6, <1>9, Moved
  <2>6. Unread(i.src)'
    <3>1. call' = call
      BY <1>1
    <3>2. \A k \in m..((m + (size - first)) - 1) : data'[k] = call'.text[k - Shift' + 1]
      BY <2>4, <2>5, <3>1, Zenon
    <3>3. i'.src..(end' - 1) = m..((m + (size - first)) - 1)
      BY <2>1, <2>3, Zenon
    <3> QED BY <3>2, <3>3, Zenon DEF Unread
  <2> DEFINE r == [at |-> first, out |-> Prefix(data', first), count |-> 0]
  <2>7. r \in Part(call) /\ Treat(call, r, first) = Treat(call, Nothing, first)
    <3>1. first \in 0..Len(call.text) /\ first \in first..Len(call.text)
      BY <1>2, <1>4, <1>6
    <3> QED BY <1>2, <2>5, <3>1, StartTreats
  <2>8. changed' - n' = 0 /\ i'.src - Shift' = first /\ i'.src_e - Shift' = first
        /\ changed' - n' + 1 = 1
    <3>1. \A x, y \in Nat : x - (x - y) = y /\ x - x = 0
      OBVIOUS
    <3> QED BY <1>1, <1>4, <1>9, <2>1, <2>4, <3>1
  <2>9. Made(changed - n, i.dst, i.src)' = r
    BY <2>1, <2>8 DEF Made
  <2> HIDE DEF r
  <2>10. /\ Made(changed - n, i.dst, i.src)' \in Part(call')
         /\ Run(call', changed' - n' + 1)
              = Treat(call', Made(changed - n, i.dst, i.src)', i'.src_e - Shift')
    BY <1>1, <1>7, <2>7, <2>8, <2>9
  <2>11. Run(call', changed').at + Shift' = last'
    <3>1. \A x, y, z, l \in Nat : (l + x) + (y - z) = y + (l + x - z)
      OBVIOUS
    <3>2. (last + find_len) + (m - first) = m + (last + find_len - first)
      BY <1>4, <3>1
    <3> QED BY <1>1, <1>2, <1>3, <1>5, <1>9, <2>4, <3>2
  <2>12. /\ n' <= changed' /\ changed' <= call'.n /\ changed' > 0
         /\ 0 <= Shift' /\ Shift' <= i'.src /\ Run(call', changed').count = changed'
    <3>1. 0 <= m - first /\ m - first <= m
      BY <1>4, <1>6
    <3> QED BY <1>1, <1>2, <1>4, <1>9, <2>1, <2>4, <3>1
  <2>13. changed' = call'.n \/ FoundFrom(call', Run(call', changed').at) = {}
    BY <1>1, <1>8
  <2>14. SecondPass'
    BY <1>9, <2>6, <2>10, <2>11, <2>12, <2>13 DEF SecondPass
  <2>15. CallOK' /\ Sizes'
    BY <1>1, <1>2, <1>9, <2>2 DEF Replacing, CallOK, Sizes, InLoop
  <2>16. OnePass' /\ FirstPass' /\ Returned'
    BY <1>9 DEF OnePass, FirstPass, Returned
  <2> QED BY <2>14, <2>15, <2>16 DEF Replacing
<1>10. CASE Unchanged(Error)
  BY <1>1, <1>10, DoneMakes DEF Unchanged, Done
<1> QED BY <1>9, <1>10 DEF MakeRoom, Works

(***************************************************************************)
(* The second pass.                                                        *)
(***************************************************************************)

(* It reads the moved text behind the matches it has replaced.              *)
LEMMA FillAt ==
  ASSUME IInv, Replacing, pc \in {"fill", "search"}
  PROVE  /\ TypeOK /\ call \in Calls /\ size = Len(call.text) /\ Shift \in Nat /\ end < alloc
         /\ find_len # 0 /\ call.op \notin {"rmlast", "rplclast"}
         /\ n <= changed /\ changed \in 1..call.n
         /\ Shift <= i.src /\ Unread(i.src)
         /\ Run(call, changed).count = changed /\ Run(call, changed).at + Shift = last
         /\ i.src <= i.src_e /\ i.src_e <= last /\ last <= end
         /\ i.dst + (end - i.src) < alloc
<1>1. TypeOK /\ call \in Calls /\ size = Len(call.text)
  BY CallIs DEF IInv, Replacing, Sizes
<1>2. /\ n <= changed /\ changed <= call.n /\ changed > 0 /\ 0 <= Shift
      /\ Shift <= i.src /\ Unread(i.src)
      /\ Run(call, changed).count = changed /\ Run(call, changed).at + Shift = last
  BY DEF Replacing, SecondPass
<1>3. find_len # 0 /\ call.op \notin {"rmlast", "rplclast"}
  BY DEF Replacing, Sizes, InLoop
<1>4. /\ find_len \in Nat /\ i.dst \in Nat /\ i.src \in Nat /\ i.src_e \in Nat /\ end \in Nat
      /\ n \in Nat /\ changed \in Nat /\ size \in Nat /\ alloc \in Nat /\ first \in Nat
      /\ last \in Nat /\ call.n \in Nat /\ Gain \in Int
  BY <1>1, Types, CallTypes
<1>5. changed \in 1..call.n
  BY <1>2, <1>4
<1>6. Shift \in Nat
  <2>1. Shift \in Int
    BY <1>4 DEF Shift
  <2> QED BY <1>2, <2>1
<1>7. /\ Gain > 0 /\ i.dst + n * Gain + (end - i.src) <= first
      /\ i.src <= i.src_e /\ last <= end /\ first <= end /\ end < alloc
      /\ IF pc = "fill" THEN n > 0 /\ i.src_e + find_len <= last ELSE i.src_e <= last
  BY DEF IInv, Ahead
<1>8. i.src_e <= last
  BY <1>4, <1>7
<1>9. i.dst + (end - i.src) < alloc
  <2>1. \A x, y \in Nat : x * y \in Nat
    OBVIOUS
  <2>2. n * Gain \in Nat
    BY <1>4, <1>7, <2>1
  <2> QED BY <1>4, <1>7, <2>2
<1> QED BY <1>1, <1>2, <1>3, <1>5, <1>6, <1>7, <1>8, <1>9

(* The match the second pass looks for is one the first pass has counted.   *)
LEMMA NextThere ==
  ASSUME IInv, Replacing, pc = "search", n # 0, NEW j \in Nat, changed - n = j
  PROVE  /\ Searching(i.src_e, Run(call, j).at)
         /\ \E q \in Nat :
              /\ Leftmost(q, FoundFrom(call, Run(call, j).at))
              /\ q + Shift + find_len <= last
              /\ Run(call, j + 1) = Treat(call, Run(call, j), q)
<1>1. /\ TypeOK /\ call \in Calls /\ size = Len(call.text) /\ Shift \in Nat
      /\ find_len # 0 /\ n <= changed /\ changed \in 1..call.n /\ Unread(i.src)
      /\ Run(call, changed).count = changed /\ Run(call, changed).at + Shift = last
  BY FillAt
<1>2. n < changed /\ i.src_e = i.src /\ Run(call, j) = Made(j, i.dst, i.src)
  BY DEF Replacing, SecondPass
<1>3. n \in Nat /\ changed \in Nat /\ i.src \in Nat /\ i.src_e \in Nat /\ call.n \in Nat
      /\ find_len \in Nat /\ find_len = Len(call.find) /\ call.start \in Nat /\ last \in Nat
  BY <1>1, Types, CallTypes DEF find_len
<1>4. /\ j \in 1..call.n /\ j \in 0..call.n /\ j \in 0..changed /\ j + 1 \in 0..changed
      /\ j \in 0..(call.n - 1) /\ j + 1 \in 0..call.n /\ changed \in 0..call.n
  BY <1>1, <1>2, <1>3
<1>5. Run(call, j).count = j /\ Run(call, j + 1).count = j + 1
      /\ Run(call, j + 1).at <= Run(call, changed).at
  BY <1>1, <1>4, RunAll
<1>6. /\ Run(call, j).at \in Nat /\ Run(call, changed).at \in Nat
      /\ Run(call, j + 1).at \in Nat
  BY <1>1, <1>4, RunType DEF Part
<1>7. Run(call, j).at + Shift = i.src_e
  <2>1. Run(call, j).at = i.src - Shift
    BY <1>2 DEF Made
  <2> QED BY <1>1, <1>2, <1>3, <2>1
<1>8. call.start <= Run(call, j).at
  BY <1>1, <1>4, <1>5, RunPast
<1>9. Searching(i.src_e, Run(call, j).at)
  <2>1. ~(Run(call, j).at < call.start) /\ 0 <= Shift
        /\ i.src_e = Shift + Run(call, j).at
    BY <1>1, <1>3, <1>6, <1>7, <1>8, SMTT(30)
  <2>2. Unread(i.src_e)
    BY <1>1, <1>2
  <2> QED BY <1>1, <1>6, <2>1, <2>2 DEF Searching
<1>10. PICK q \in Nat : Leftmost(q, FoundFrom(call, Run(call, j).at))
  BY <1>1, <1>4, <1>5, RunFinds
<1>11. Run(call, j + 1) = Treat(call, Run(call, j), q) /\ Run(call, j + 1).at = q + find_len
  BY <1>1, <1>3, <1>4, <1>10, RunNext
<1>12. q + Shift + find_len <= last
  <2>1. \A x, y, z, s, f \in Nat : x <= y /\ y + s = z /\ x = q + f => q + s + f <= z
    OBVIOUS
  <2> QED BY <1>1, <1>3, <1>5, <1>6, <1>11, <2>1
<1> QED BY <1>9, <1>10, <1>11, <1>12

(* So it is found, and it is the one that is expected.                      *)
LEMMA NextFound ==
  ASSUME IInv, Replacing, pc = "search", n # 0, NEW j \in Nat, changed - n = j
  PROVE  /\ ~NoMatch(i.src_e, last)
         /\ \A p \in Nat : MemMem(p, i.src_e, last)
              => Run(call, j + 1) = Treat(call, Run(call, j), p - Shift)
<1>1. /\ TypeOK /\ call \in Calls /\ Shift \in Nat /\ last <= end /\ Searching(i.src_e, Run(call, j).at)
      /\ last \in Nat /\ find_len \in Nat
  BY FillAt, NextThere, Types
<1>2. PICK q \in Nat :
        /\ Leftmost(q, FoundFrom(call, Run(call, j).at))
        /\ q + Shift + find_len <= last
        /\ Run(call, j + 1) = Treat(call, Run(call, j), q)
  BY NextThere
<1> DEFINE M == Matches(data, call.find, i.src_e, last)
           F == FoundFrom(call, Run(call, j).at)
<1>3. \A p \in Nat : p \in M <=> p - Shift \in F /\ p + find_len <= last
  BY <1>1, Searched
<1>4. q \in F /\ \A x \in F : q <= x
  BY <1>2 DEF Leftmost
<1>5. F \subseteq Nat
  <2>1. Run(call, j).at \in Nat
    BY <1>1 DEF Searching
  <2> QED BY <1>1, <2>1, FoundWithin
<1> HIDE DEF F
<1>6. q + Shift \in M
  <2>1. q + Shift \in Nat /\ (q + Shift) - Shift = q
    BY <1>1
  <2> QED BY <1>2, <1>3, <1>4, <2>1
<1>7. ASSUME NEW p \in Nat, MemMem(p, i.src_e, last) PROVE p - Shift = q
  <2>1. p \in M /\ p <= q + Shift
    BY <1>6, <1>7 DEF MemMem, Leftmost
  <2> HIDE DEF M
  <2>2. p - Shift \in F
    BY <1>3, <2>1
  <2>3. q <= p - Shift /\ p - Shift \in Nat
    BY <1>4, <1>5, <2>2
  <2> QED BY <1>1, <2>1, <2>3
<1>8. ~NoMatch(i.src_e, last)
  BY <1>6 DEF NoMatch
<1> QED BY <1>2, <1>7, <1>8

LEMMA FillEndMakes == ASSUME IInv, Replacing, FillEnd PROVE Replacing'
<1>1. /\ pc = "search" /\ UNCHANGED call /\ Done(changed)
      /\ n = 0 \/ NoMatch(i.src_e, last)
      /\ Works(Buffer, StrMove(data, i.dst, i.src, end - i.src), i.dst + (end - i.src))
  BY DEF FillEnd
<1>2. /\ TypeOK /\ size = Len(call.text) /\ Shift \in Nat /\ end < alloc
      /\ changed \in 1..call.n /\ call \in Calls /\ call.op \notin {"rmlast", "rplclast"}
      /\ Unread(i.src) /\ Run(call, changed).count = changed
      /\ i.src <= i.src_e /\ i.src_e <= last /\ last <= end
      /\ i.dst + (end - i.src) < alloc /\ n <= changed
  BY <1>1, FillAt
<1>3. /\ i.dst \in Nat /\ i.src \in Nat /\ i.src_e \in Nat /\ last \in Nat /\ end \in Nat
      /\ n \in Nat /\ changed \in Nat
  BY <1>2, Types
<1>4. n = 0
  <2>1. ASSUME n # 0 PROVE FALSE
    <3>1. PICK j \in Nat : changed - n = j
      BY <1>2, <1>3
    <3>2. ~NoMatch(i.src_e, last)
      BY <1>1, <2>1, <3>1, NextFound
    <3> QED BY <1>1, <2>1, <3>2
  <2> QED BY <2>1
<1>5. Run(call, changed) = Made(changed, i.dst, i.src)
  <2>1. changed - n = changed
    BY <1>3, <1>4
  <2>2. Run(call, changed - n) = Made(changed - n, i.dst, i.src)
    BY <1>1 DEF Replacing, SecondPass
  <2> QED BY <2>1, <2>2
<1>6. Run(call, changed) \in Part(call) /\ i.src <= end
  <2>1. changed \in 0..call.n /\ i.src <= end
    BY <1>2, <1>3
  <2> QED BY <1>2, <2>1, RunType
<1>7. Run(call, changed).at + Shift = i.src /\ Run(call, changed).out = Prefix(data, i.dst)
  <2>1. Run(call, changed).at = i.src - Shift /\ Run(call, changed).out = Prefix(data, i.dst)
    BY <1>5 DEF Made
  <2> QED BY <1>2, <1>3, <2>1
<1>8. Finished(call, Run(call, changed))
        = Prefix(StrMove(data, i.dst, i.src, end - i.src), i.dst + (end - i.src))
  <2>1. TypeOK /\ size = Len(call.text) /\ Shift \in Nat /\ end < alloc /\ Unread(i.src)
    BY <1>2
  <2> QED BY <1>2, <1>3, <1>6, <1>7, <2>1, TailMakes
<1>9. Expected(call) = Run(call, changed)
  <2>1. Expected(call) = Run(call, call.n)
    BY <1>2 DEF Expected
  <2>2. changed = call.n \/ FoundFrom(call, Run(call, changed).at) = {}
    BY <1>1 DEF Replacing, SecondPass
  <2>3. changed \in 0..call.n
    BY <1>2
  <2> QED BY <1>2, <2>1, <2>2, <2>3, RunStays
<1> QED BY <1>1, <1>2, <1>8, <1>9, DoneMakes DEF Works, Done

LEMMA FillNextMakes == ASSUME IInv, Replacing, FillNext PROVE Replacing'
<1>1. /\ pc = "search" /\ n # 0 /\ pc' = "fill"
      /\ UNCHANGED <<data, call, size, last, end, n, changed>>
  BY DEF FillNext
<1>2. /\ TypeOK /\ call \in Calls /\ size = Len(call.text) /\ Shift \in Nat
      /\ find_len # 0 /\ call.op \notin {"rmlast", "rplclast"}
      /\ n <= changed /\ changed \in 1..call.n
      /\ Shift <= i.src /\ Unread(i.src)
      /\ Run(call, changed).count = changed /\ Run(call, changed).at + Shift = last
  BY <1>1, FillAt
<1>3. alloc \in Nat /\ n \in Nat /\ changed \in Nat /\ call.n \in Nat
  BY <1>2, Types, CallTypes
<1>4. PICK p \in 0..alloc : MemMem(p, i.src_e, last) /\ i' = [i EXCEPT !.src_e = p]
  BY DEF FillNext
<1>5. p \in Nat /\ i'.dst = i.dst /\ i'.src = i.src /\ i'.src_e = p
  BY <1>2, <1>3, <1>4 DEF TypeOK
<1>6. find_len' = find_len /\ rplc_len' = rplc_len /\ Shift' = Shift
  BY <1>1 DEF find_len, rplc_len, Shift
<1>7. PICK j \in Nat : changed - n = j
  BY <1>2, <1>3
<1>8. j \in 0..call.n
  BY <1>2, <1>3, <1>7
<1>9. Run(call, j) \in Part(call)
  BY <1>2, <1>8, RunType
<1>10. Run(call, j) = Made(j, i.dst, i.src)
  BY <1>1, <1>7 DEF Replacing, SecondPass
<1>11. Run(call, j + 1) = Treat(call, Run(call, j), p - Shift)
  BY <1>1, <1>4, <1>5, <1>7, NextFound
<1>12. Made(changed - n, i.dst, i.src)' = Made(j, i.dst, i.src)
  BY <1>1, <1>5, <1>6, <1>7 DEF Made
<1>13. /\ Made(changed - n, i.dst, i.src)' \in Part(call')
       /\ Run(call', changed' - n' + 1)
            = Treat(call', Made(changed - n, i.dst, i.src)', i'.src_e - Shift')
  BY <1>1, <1>5, <1>6, <1>7, <1>9, <1>10, <1>11, <1>12
<1>14. /\ n' <= changed' /\ changed' <= call'.n /\ changed' > 0
       /\ 0 <= Shift' /\ Shift' <= i'.src
       /\ Run(call', changed').count = changed' /\ Run(call', changed').at + Shift' = last'
  BY <1>1, <1>2, <1>3, <1>5, <1>6
<1>15. changed' = call'.n \/ FoundFrom(call', Run(call', changed').at) = {}
  BY <1>1 DEF Replacing, SecondPass
<1>16. Unread(i.src)'
  BY <1>1, <1>2, <1>5, <1>6 DEF Unread
<1>17. SecondPass'
  BY <1>1, <1>13, <1>14, <1>15, <1>16 DEF SecondPass
<1>18. CallOK' /\ Sizes'
  BY <1>1, <1>2, <1>6 DEF Replacing, CallOK, Sizes, InLoop
<1>19. OnePass' /\ FirstPass' /\ Returned'
  BY <1>1 DEF OnePass, FirstPass, Returned
<1> QED BY <1>17, <1>18, <1>19 DEF Replacing

LEMMA FillStepMakes == ASSUME IInv, Replacing, FillStep PROVE Replacing'
<1> DEFINE prev == i.src_e - i.src
           d == i.dst + prev + rplc_len
           e == i.src_e + find_len
<1>1. /\ pc = "fill" /\ pc' = "search" /\ n' = n - 1
      /\ UNCHANGED <<call, size, last, first, end, changed>>
      /\ data' = PutAt(i.dst, i.src, prev)
      /\ i' = [dst |-> d, src |-> i.src + prev + find_len, src_e |-> e]
  BY DEF FillStep, Put, PutAt
<1>2. /\ TypeOK /\ call \in Calls /\ size = Len(call.text) /\ Shift \in Nat /\ end < alloc
      /\ find_len # 0 /\ call.op \notin {"rmlast", "rplclast"}
      /\ n <= changed /\ changed \in 1..call.n
      /\ Shift <= i.src /\ Unread(i.src)
      /\ Run(call, changed).count = changed /\ Run(call, changed).at + Shift = last
      /\ i.src <= i.src_e /\ last <= end
  BY <1>1, FillAt
<1>3. n > 0 /\ i.src_e + find_len <= last
  BY <1>1 DEF IInv, Ahead
<1>4. /\ find_len \in Nat /\ rplc_len \in Nat
      /\ i.dst \in Nat /\ i.src \in Nat /\ i.src_e \in Nat /\ last \in Nat /\ end \in Nat
      /\ n \in Nat /\ changed \in Nat /\ call.n \in Nat /\ alloc \in Nat /\ first \in Nat
  BY <1>2, Types, CallTypes
<1>5. /\ prev \in Nat /\ e <= end /\ i.src + prev + find_len = e /\ e \in Nat
      /\ i.src + prev <= alloc /\ d \in Nat /\ i.src <= e /\ e = i.src_e + find_len
  <2>1. \A s, x, f, l, m, a \in Nat :
          s <= x /\ x + f <= l /\ l <= m /\ m < a =>
            /\ x - s \in Nat /\ x + f <= m /\ s + (x - s) + f = x + f /\ x + f \in Nat
            /\ s + (x - s) <= a /\ s <= x + f
    OBVIOUS
  <2>2. i.src <= i.src_e /\ i.src_e + find_len <= last /\ last <= end /\ end < alloc
    BY <1>2, <1>3
  <2>3. /\ i.src_e - i.src \in Nat /\ i.src_e + find_len <= end
        /\ i.src + (i.src_e - i.src) + find_len = i.src_e + find_len /\ i.src_e + find_len \in Nat
        /\ i.src + (i.src_e - i.src) <= alloc /\ i.src <= i.src_e + find_len
    BY <1>4, <2>1, <2>2
  <2> QED BY <1>4, <2>3
<1>6. i'.dst = d /\ i'.src = e /\ i'.src_e = e
  BY <1>1, <1>5
<1>7. find_len' = find_len /\ rplc_len' = rplc_len /\ Shift' = Shift
  BY <1>1 DEF find_len, rplc_len, Shift
<1>8. d <= e
  <2>1. /\ i'.dst + n' * Gain' + (end' - i'.src) <= first' /\ first' <= end' /\ Gain' > 0
    BY <1>1, FillStepKeeps DEF IInv, Ahead
  <2>2. Gain' = Gain /\ Gain \in Int /\ end' = end /\ first' = first
    BY <1>1, <1>2, SameCall, Types
  <2>3. Gain \in Nat /\ n - 1 \in Nat
    BY <1>3, <1>4, <2>1, <2>2
  <2>4. \A x, y \in Nat : x * y \in Nat
    OBVIOUS
  <2>5. PICK m \in Nat : m = (n - 1) * Gain
    BY <2>3, <2>4
  <2>6. d + m + (end - e) <= first /\ first <= end
    BY <1>1, <1>6, <2>1, <2>2, <2>5
  <2> HIDE DEF d, e
  <2> QED BY <1>4, <1>5, <2>6
<1>9. PICK j \in Nat : changed - n = j
  BY <1>2, <1>4
<1>10. /\ Made(j, i.dst, i.src) \in Part(call)
       /\ Run(call, j + 1) = Treat(call, Made(j, i.dst, i.src), i.src_e - Shift)
  BY <1>1, <1>9 DEF Replacing, SecondPass
<1>11. PICK r \in Part(call) : r = Made(j, i.dst, i.src)
  BY <1>10
<1>12. r.at + Shift = i.src /\ r.out = Prefix(data, i.dst) /\ r.count = j
  <2>1. r.at = i.src - Shift /\ r.out = Prefix(data, i.dst) /\ r.count = j
    BY <1>11 DEF Made
  <2> QED BY <1>2, <1>4, <2>1
<1>13. Treat(call, r, i.src_e - Shift).out = Prefix(data', d)
  <2>1. i.src_e + find_len <= end /\ i.dst + (i.src_e - i.src) + rplc_len <= alloc
    BY <1>2, <1>4, <1>5, <1>8
  <2>2. TypeOK /\ size = Len(call.text) /\ Shift \in Nat /\ end < alloc /\ Unread(i.src)
        /\ i.src <= i.src_e
    BY <1>2
  <2>3. \A x, y, q \in Nat :
          /\ Unread(y) /\ r.at + Shift = y /\ r.out = Prefix(data, x)
          /\ y <= q /\ q + find_len <= end /\ x + (q - y) + rplc_len <= alloc
          => Treat(call, r, q - Shift).out = Prefix(PutAt(x, y, q - y), x + (q - y) + rplc_len)
    BY <2>2, PutMakes
  <2>4. Treat(call, r, i.src_e - Shift).out
          = Prefix(PutAt(i.dst, i.src, i.src_e - i.src), i.dst + (i.src_e - i.src) + rplc_len)
    <3>1. /\ i.dst \in Nat /\ i.src \in Nat /\ i.src_e \in Nat
          /\ Unread(i.src) /\ r.at + Shift = i.src /\ r.out = Prefix(data, i.dst)
          /\ i.src <= i.src_e /\ i.src_e + find_len <= end
          /\ i.dst + (i.src_e - i.src) + rplc_len <= alloc
      BY <1>4, <1>12, <2>1, <2>2
    <3> HIDE DEF prev, d, e
    <3> QED BY <2>3, <3>1
  <2> QED BY <1>1, <2>4
<1>14. /\ Treat(call, r, i.src_e - Shift).at = e - Shift
       /\ Treat(call, r, i.src_e - Shift).count = j + 1
  <2>1. /\ Treat(call, r, i.src_e - Shift).at = (i.src_e - Shift) + Len(call.find)
        /\ Treat(call, r, i.src_e - Shift).count = r.count + 1
    BY DEF Treat
  <2>2. find_len = Len(call.find)
    BY DEF find_len
  <2>3. (i.src_e - Shift) + find_len = e - Shift
    BY <1>2, <1>4
  <2> QED BY <1>12, <2>1, <2>2, <2>3
<1>15. Run(call, j + 1) = [at |-> e - Shift, out |-> Prefix(data', d), count |-> j + 1]
  <2>1. Run(call, j + 1) = Treat(call, r, i.src_e - Shift)
    BY <1>10, <1>11
  <2>2. Treat(call, r, i.src_e - Shift)
          = [at |-> Treat(call, r, i.src_e - Shift).at,
             out |-> Treat(call, r, i.src_e - Shift).out,
             count |-> Treat(call, r, i.src_e - Shift).count]
    BY DEF Treat
  <2> HIDE DEF d, e
  <2> QED BY <1>13, <1>14, <2>1, <2>2
<1>16. ASSUME NEW k \in e..(end - 1)
       PROVE  data'[k] = call.text[k - Shift + 1]
  <2>1. k \in 0..(alloc - 1) /\ k \in i.src..(end - 1)
    <3>1. \A s, x, m, a \in Nat : \A y \in x..(m - 1) :
            s <= x /\ m < a => y \in 0..(a - 1) /\ y \in s..(m - 1)
      OBVIOUS
    <3>2. i.src <= e /\ end < alloc /\ e \in Nat
      BY <1>2, <1>5
    <3> HIDE DEF e
    <3> QED BY <1>4, <3>1, <3>2
  <2>2. ~(k < i.dst + prev + rplc_len) /\ ~(k < i.dst + prev)
    <3>1. k \in Nat /\ e <= k
      BY <1>4, <1>5
    <3>2. e \in Nat /\ d <= e /\ d = i.dst + prev + rplc_len /\ prev \in Nat
      BY <1>5, <1>8
    <3> HIDE DEF d, e, prev
    <3> QED BY <1>4, <3>1, <3>2
  <2>3. data'[k] = data[k]
    <3>1. \A x, y, z \in Nat : y + z <= alloc =>
            PutAt(x, y, z)[k]
              = IF x + z <= k /\ k < x + z + rplc_len THEN call.rplc[k - (x + z) + 1]
                ELSE IF x <= k /\ k < x + z THEN data[k - x + y] ELSE data[k]
      BY <1>2, <2>1, PutByte
    <3>2. prev \in Nat /\ i.src + prev <= alloc
      BY <1>5
    <3> HIDE DEF prev
    <3>3. PutAt(i.dst, i.src, prev)[k] = data[k]
      BY <1>4, <2>2, <3>1, <3>2
    <3> QED BY <1>1, <3>3
  <2> QED BY <1>2, <2>1, <2>3 DEF Unread
<1> HIDE DEF d, e, prev
<1>17. Unread(i.src)'
  BY <1>1, <1>6, <1>7, <1>16 DEF Unread
<1>18. Run(call', changed' - n') = Made(changed - n, i.dst, i.src)'
  <2>1. changed' - n' = j + 1
    BY <1>1, <1>4, <1>9
  <2>2. Made(changed - n, i.dst, i.src)'
          = [at |-> e - Shift, out |-> Prefix(data', d), count |-> j + 1]
    BY <1>6, <1>7, <2>1 DEF Made
  <2> QED BY <1>1, <1>15, <2>1, <2>2
<1>19. /\ n' <= changed' /\ changed' <= call'.n /\ changed' > 0
       /\ 0 <= Shift' /\ Shift' <= i'.src /\ n' < changed' /\ i'.src_e = i'.src
       /\ Run(call', changed').count = changed' /\ Run(call', changed').at + Shift' = last'
  <2>1. Shift <= e
    BY <1>2, <1>4, <1>5 DEF e
  <2> QED BY <1>1, <1>2, <1>3, <1>4, <1>6, <1>7, <2>1
<1>20. changed' = call'.n \/ FoundFrom(call', Run(call', changed').at) = {}
  BY <1>1 DEF Replacing, SecondPass
<1>21. SecondPass'
  BY <1>1, <1>17, <1>18, <1>19, <1>20 DEF SecondPass
<1>22. CallOK' /\ Sizes'
  BY <1>1, <1>2, <1>7 DEF Replacing, CallOK, Sizes, InLoop
<1>23. OnePass' /\ FirstPass' /\ Returned'
  BY <1>1 DEF OnePass, FirstPass, Returned
<1> QED BY <1>21, <1>22, <1>23 DEF Replacing

(***************************************************************************)
(* All together.                                                           *)
(***************************************************************************)

LEMMA InitReplacing == Init => Replacing
<1> SUFFICES ASSUME Init PROVE Replacing
  OBVIOUS
<1>1. pc = "entry"
  BY DEF Init
<1>2. PICK text \in Texts, op \in Ops, start \in Nat,
           find \in Finds, rplc \in Rplcs, cnt \in Counts :
        /\ size = Len(text)
        /\ op \in {"rmlast", "rplclast"} => start = 0
        /\ op \in {"rm", "rmn", "rmlast"} => rplc = <<>>
        /\ op \notin {"rmn", "rplcn"} => cnt = 1
        /\ call = [op |-> op, start |-> start, find |-> find, rplc |-> rplc,
                   n |-> cnt, text |-> text]
        /\ n = cnt
  BY DEF Init
<1>3. /\ call.op = op /\ call.start = start /\ call.rplc = rplc /\ call.n = cnt
      /\ call.text = text
  BY <1>2
<1>4. CallOK
  <2>1. Len(<<>>) = 0
    OBVIOUS
  <2> QED BY <1>2, <1>3, <2>1 DEF CallOK, rplc_len
<1>5. Sizes
  BY <1>1, <1>2, <1>3 DEF Sizes, InLoop
<1> QED
  BY <1>1, <1>4, <1>5 DEF Replacing, OnePass, FirstPass, SecondPass, Returned

LEMMA NextMakes == ASSUME IInv, Replacing, [Next]_vars PROVE Replacing'
<1>1. CASE UNCHANGED vars
  <2>1. /\ UNCHANGED <<data, size, call, pc, i>>
        /\ UNCHANGED <<first, last, end, n, changed, ret>>
    BY <1>1 DEF vars
  <2>2. find_len' = find_len /\ rplc_len' = rplc_len /\ Shift' = Shift
    BY <2>1 DEF find_len, rplc_len, Shift
  <2>3. CallOK' /\ Sizes' /\ Returned'
    BY <2>1, <2>2 DEF Replacing, CallOK, Sizes, InLoop, Returned
  <2>4. OnePass' /\ FirstPass'
    BY <2>1, <2>2 DEF Replacing, OnePass, FirstPass, Made, Unread
  <2>5. SecondPass'
    BY <2>1, <2>2 DEF Replacing, SecondPass, Made, Unread
  <2> QED BY <2>3, <2>4, <2>5 DEF Replacing
<1> QED
  BY <1>1, RmOneMakes, RmLastMakes, RplcLastMakes, RplcOneMakes, NothingDone,
     RmnFirstMakes, RmnStepMakes, RmnEndMakes, RplcNChrMakes,
     InPlaceStepMakes, InPlaceEndMakes, CountMakes, CountedOneMakes,
     MakeRoomMakes, FillStepMakes, FillNextMakes, FillEndMakes
  DEF Next

-----------------------------------------------------------------------------

(* The loops write behind what they have still to read and inside the block, *)
(* and the first pass counts in the second pass's room.                      *)
THEOREM Inductive == Spec => []IInv
<1>1. Init => IInv
  BY InitInv
<1>2. IInv /\ [Next]_vars => IInv'
  BY NextKeeps
<1> QED BY <1>1, <1>2, PTL DEF Spec

(* NeverClobbers: no loop writes over text it has still to read, and no call *)
(* touches a byte outside the block.                                         *)
THEOREM StaysBehind == Spec => []NeverClobbers
<1>1. IInv => NeverClobbers
  <2> SUFFICES ASSUME IInv PROVE NeverClobbers
    OBVIOUS
  <2>1. /\ find_len \in Nat /\ i.src_e \in Nat /\ last \in Nat /\ end \in Nat
    BY Types DEF IInv
  <2>2. pc \in {"fill", "search"} =>
          /\ i.dst + n * (rplc_len - find_len) + (end - i.src) <= first
          /\ i.src <= i.src_e /\ i.src_e <= end
    <3>1. CASE pc = "fill"
      <4>1. i.src_e + find_len <= last /\ last <= end
        BY <3>1 DEF IInv, Ahead
      <4>2. i.src_e <= end
        BY <2>1, <4>1
      <4> QED BY <3>1, <4>2 DEF IInv, Ahead, Gain
    <3>2. CASE pc = "search"
      <4>1. i.src_e <= last /\ last <= end
        BY <3>2 DEF IInv, Ahead
      <4>2. i.src_e <= end
        BY <2>1, <4>1
      <4> QED BY <3>2, <4>2 DEF IInv, Ahead, Gain
    <3> QED BY <3>1, <3>2
  <2> QED BY <2>2 DEF IInv, Behind, NeverClobbers
<1> QED BY <1>1, Inductive, PTL

(* EndsWell: every call that returns leaves a terminated string, and one that *)
(* found no memory the string it was given.                                   *)
THEOREM ReturnsTerminated == Spec => []EndsWell
<1>1. IInv => EndsWell
  BY DEF IInv, Terminated, EndsWell
<1> QED BY <1>1, Inductive, PTL

(* ReplacesAll: a call that succeeds has replaced the leftmost matches that  *)
(* do not overlap, as many as it was asked to, and returns how many; one     *)
(* that has run out of memory leaves the string as it was.                   *)
THEOREM ReplacesLeftmost == Spec => []ReplacesAll
<1>1. Init => IInv /\ Replacing
  BY InitInv, InitReplacing
<1>2. IInv /\ Replacing /\ [Next]_vars => (IInv /\ Replacing)'
  BY NextKeeps, NextMakes
<1>3. IInv /\ Replacing => ReplacesAll
  BY DEF IInv, Terminated, EndsWell, Replacing, Returned, ReplacesAll
<1> QED BY <1>1, <1>2, <1>3, PTL DEF Spec
=============================================================================
