------------------------- MODULE JstrBuilder_proofs -------------------------
(***************************************************************************)
(* Theorems about JstrBuilder: for every set of characters and of source   *)
(* strings, every JSTR_MIN_CAP and every bound, no sequence of calls makes *)
(* the library believe in a capacity it does not have, lose the byte of    *)
(* the terminator or leave its block; a terminated string stays so; and    *)
(* what a call does to the contents is what JString says.                  *)
(***************************************************************************)
EXTENDS JstrBuilder, JstrReserve, JstrMem_proofs

(* What every call relies on and keeps. *)
IInv == TypeOK /\ Backed /\ RoomForNul /\ InBounds

(***************************************************************************)
(* The buffers a call may work in.                                         *)
(***************************************************************************)

LEMMA BufferSound ==
  ASSUME IInv, Callable
  PROVE  Sound(Buffer) /\ Buffer.data = data /\ Buffer.alloc = alloc
         /\ capacity = alloc
BY KeepUsingAssumption
   DEF IInv, TypeOK, Backed, Usable, Callable, Sound, Buffer

(* jstr_reservealways, when it succeeds, leaves room for what was asked for *)
(* and for the string that was there.                                       *)
LEMMA ReservedAlwaysSound ==
  ASSUME IInv, Callable, NEW need \in Nat, NEW b \in ReservedAlways(Buffer, need)
  PROVE  Sound(b) /\ b.alloc >= need /\ b.alloc > size
<1>1. Sound(Buffer) /\ Buffer.alloc = alloc
  BY BufferSound
<1>2. Sound(b) /\ b.alloc >= need /\ b.alloc >= alloc /\ b.alloc > 0
  BY <1>1, GrownSound
<1> QED BY <1>2 DEF IInv, TypeOK, RoomForNul, Sound

LEMMA ReservedSound ==
  ASSUME IInv, Callable, NEW need \in Nat, NEW b \in Reserved(Buffer, need)
  PROVE  /\ Sound(b)
         /\ b.alloc >= need
         /\ b.alloc > size \/ (b.alloc = 0 /\ size = 0)
<1>1. Sound(Buffer) /\ Buffer.alloc = alloc
  BY BufferSound
<1>2. Sound(b) /\ b.alloc >= need /\ b.alloc >= alloc
  BY <1>1, ReserveSound
<1> QED BY <1>2 DEF IInv, TypeOK, RoomForNul, Sound

LEMMA ReservedExactAlwaysSound ==
  ASSUME IInv, Callable, NEW need \in Nat, NEW b \in ReservedExactAlways(need),
         need = 0 \/ need > size
  PROVE  /\ Sound(b)
         /\ b.alloc >= need
         /\ b.alloc > size \/ (b.alloc = 0 /\ size = 0)
<1>1. CASE need = 0
  <2>1. b = Buffer
    BY <1>1 DEF ReservedExactAlways
  <2> QED BY <1>1, <2>1, BufferSound DEF IInv, TypeOK, RoomForNul
<1>2. CASE need # 0
  <2>1. b = Resized(Buffer, need) /\ need \in 1..MaxCap
    BY <1>2 DEF ReservedExactAlways
  <2>2. Sound(b) /\ b.alloc = need
    BY <2>1, BufferSound, ResizedSound
  <2> QED BY <1>2, <2>2 DEF IInv, TypeOK
<1> QED BY <1>1, <1>2

LEMMA ReservedExactSound ==
  ASSUME IInv, Callable, NEW need \in Nat, NEW b \in ReservedExact(need)
  PROVE  /\ Sound(b)
         /\ b.alloc >= need
         /\ b.alloc > size \/ (b.alloc = 0 /\ size = 0)
<1>0. capacity = alloc /\ size \in Nat /\ alloc \in Nat
  BY BufferSound DEF IInv, TypeOK
<1>1. CASE need < capacity
  <2>1. b = Buffer
    BY <1>1 DEF ReservedExact
  <2> QED BY <1>0, <1>1, <2>1, BufferSound DEF IInv, RoomForNul
<1>2. CASE ~(need < capacity)
  <2>1. need = 0 \/ need > size
    BY <1>0, <1>2 DEF IInv, RoomForNul
  <2> QED BY <1>2, <2>1, ReservedExactAlwaysSound DEF ReservedExact
<1> QED BY <1>1, <1>2

(***************************************************************************)
(* How a call ends.                                                        *)
(***************************************************************************)

LEMMA ReturnKeeps ==
  ASSUME NEW op \in Ops, NEW b, Sound(b), NEW d \in Block(b.alloc),
         NEW sz \in Nat, NEW extent \in Int,
         extent <= b.alloc,
         sz < b.alloc \/ (b.alloc = 0 /\ sz = 0),
         Return(op, b, d, sz, extent)
  PROVE  IInv'
<1>1. TypeOK'
  BY DEF TypeOK, Return, Rets, Sound
<1>2. ~(extent > b.alloc)
  BY DEF Sound
<1>3. ~overrun'
  BY <1>2 DEF Return
<1>4. Backed' /\ RoomForNul'
  BY DEF Backed, RoomForNul, Return, Sound
<1> QED BY <1>1, <1>3, <1>4 DEF IInv, InBounds

LEMMA FailKeeps ==
  ASSUME IInv, Callable, NEW op \in Ops, Fail(op)
  PROVE  IInv'
<1>1. capacity = alloc /\ ~overrun
  BY BufferSound DEF Callable
<1> QED BY <1>1 DEF IInv, TypeOK, Backed, RoomForNul, InBounds, Fail, Rets

LEMMA FailExactKeeps ==
  ASSUME IInv, Callable, NEW op \in ExactOps, NEW need \in Nat, FailExact(op, need)
  PROVE  IInv'
<1>1. ~overrun
  BY DEF Callable
<1> QED BY <1>1
        DEF IInv, TypeOK, Backed, Usable, RoomForNul, InBounds, FailExact, Rets, Ops

(* Space for need bytes is reserved, then less than need characters and the *)
(* terminator are written.                                                   *)
LEMMA GrowAndWriteKeeps ==
  ASSUME IInv, Callable, NEW op \in Ops,
         NEW need \in Nat, NEW b \in Reserved(Buffer, need),
         NEW d \in Block(b.alloc), NEW sz \in Nat, NEW extent \in Nat,
         sz < need, extent <= need,
         Return(op, b, d, sz, extent)
  PROVE  IInv'
<1>1. Sound(b) /\ b.alloc >= need
  BY ReservedSound
<1>2. extent <= b.alloc /\ sz < b.alloc /\ b.alloc \in Nat
  BY <1>1 DEF Sound
<1> QED BY <1>1, <1>2, ReturnKeeps

(* The call works in the block as it is. *)
LEMMA InPlaceKeeps ==
  ASSUME IInv, Callable, NEW op \in Ops,
         NEW d \in Block(alloc), NEW sz \in Nat, NEW extent \in Nat,
         sz <= size, extent <= alloc,
         Return(op, Buffer, d, sz, extent)
  PROVE  IInv'
<1>1. Sound(Buffer) /\ Buffer.alloc = alloc
  BY BufferSound
<1>2. sz < alloc \/ (alloc = 0 /\ sz = 0)
  BY DEF IInv, TypeOK, RoomForNul
<1> QED BY <1>1, <1>2, ReturnKeeps

(***************************************************************************)
(* One lemma for each operation.                                           *)
(***************************************************************************)

LEMMA ReserveKeeps == ASSUME IInv, Reserve PROVE IInv'
<1>1. PICK need \in 0..MaxCap :
        \/ \E b \in Reserved(Buffer, need) : Return("reserve", b, b.data, size, 0)
        \/ ReserveFails(Buffer, need) /\ Fail("reserve")
  BY DEF Reserve
<1>2. Callable /\ need \in Nat /\ size \in Nat
  BY BoundsAssumption DEF Reserve, IInv, TypeOK
<1>3. ASSUME NEW b \in Reserved(Buffer, need), Return("reserve", b, b.data, size, 0)
      PROVE  IInv'
  <2>1. Sound(b) /\ (size < b.alloc \/ (b.alloc = 0 /\ size = 0))
    BY <1>2, ReservedSound
  <2> QED BY <1>2, <1>3, <2>1, ReturnKeeps, SMTT(30) DEF Sound, Ops
<1>4. CASE Fail("reserve")
  BY <1>2, <1>4, FailKeeps DEF Ops
<1> QED BY <1>1, <1>3, <1>4

LEMMA ReserveAlwaysKeeps == ASSUME IInv, ReserveAlways PROVE IInv'
<1>1. PICK need \in 0..MaxCap :
        \/ \E b \in ReservedAlways(Buffer, need) :
             Return("reservealways", b, b.data, size, 0)
        \/ Fail("reservealways")
  BY DEF ReserveAlways
<1>2. Callable /\ need \in Nat /\ size \in Nat
  BY BoundsAssumption DEF ReserveAlways, IInv, TypeOK
<1>3. ASSUME NEW b \in ReservedAlways(Buffer, need),
             Return("reservealways", b, b.data, size, 0)
      PROVE  IInv'
  <2>1. Sound(b) /\ size < b.alloc
    BY <1>2, ReservedAlwaysSound DEF Sound
  <2>2. b.data \in Block(b.alloc) /\ 0 <= b.alloc /\ "reservealways" \in Ops
    BY <2>1 DEF Sound, Ops
  <2> QED BY <1>2, <1>3, <2>1, <2>2, ReturnKeeps
<1>4. CASE Fail("reservealways")
  BY <1>2, <1>4, FailKeeps DEF Ops
<1> QED BY <1>1, <1>3, <1>4

LEMMA ReserveExactKeeps == ASSUME IInv, ReserveExact PROVE IInv'
<1>1. PICK need \in 0..MaxCap :
        \/ \E b \in ReservedExact(need) :
             Return("reserveexact", b, b.data, size, 0)
        \/ need >= capacity /\ FailExact("reserveexact", need)
  BY DEF ReserveExact
<1>2. Callable /\ need \in Nat /\ size \in Nat
  BY BoundsAssumption DEF ReserveExact, IInv, TypeOK
<1>3. ASSUME NEW b \in ReservedExact(need),
             Return("reserveexact", b, b.data, size, 0)
      PROVE  IInv'
  <2>1. Sound(b) /\ (size < b.alloc \/ (b.alloc = 0 /\ size = 0))
    BY <1>2, ReservedExactSound
  <2> QED BY <1>2, <1>3, <2>1, ReturnKeeps DEF Sound, Ops, ExactOps
<1>4. CASE FailExact("reserveexact", need)
  BY <1>2, <1>4, FailExactKeeps DEF ExactOps
<1> QED BY <1>1, <1>3, <1>4

LEMMA ReserveExactAlwaysKeeps == ASSUME IInv, ReserveExactAlways PROVE IInv'
<1>1. PICK need \in {0} \cup (size + 1)..MaxCap :
        \/ \E b \in ReservedExactAlways(need) :
             Return("reserveexactalways", b, b.data, size, 0)
        \/ FailExact("reserveexactalways", need)
  BY DEF ReserveExactAlways
<1>2. Callable /\ need \in Nat /\ size \in Nat /\ (need = 0 \/ need > size)
  BY BoundsAssumption DEF ReserveExactAlways, IInv, TypeOK
<1>3. ASSUME NEW b \in ReservedExactAlways(need),
             Return("reserveexactalways", b, b.data, size, 0)
      PROVE  IInv'
  <2>1. Sound(b) /\ (size < b.alloc \/ (b.alloc = 0 /\ size = 0))
    BY <1>2, ReservedExactAlwaysSound
  <2> QED BY <1>2, <1>3, <2>1, ReturnKeeps DEF Sound, Ops, ExactOps
<1>4. CASE FailExact("reserveexactalways", need)
  BY <1>2, <1>4, FailExactKeeps DEF ExactOps
<1> QED BY <1>1, <1>3, <1>4

LEMMA ShrinkToFitKeeps == ASSUME IInv, ShrinkToFit PROVE IInv'
<1>1. Callable /\ size \in Nat /\ size + 1 \in Nat
  BY DEF ShrinkToFit, IInv, TypeOK
<1>2. ASSUME NEW b \in ReservedExactAlways(size + 1),
             Return("shrink_to_fit", b, b.data, size, 0)
      PROVE  IInv'
  <2>1. Sound(b) /\ (size < b.alloc \/ (b.alloc = 0 /\ size = 0))
    BY <1>1, ReservedExactAlwaysSound
  <2> QED BY <1>1, <1>2, <2>1, ReturnKeeps DEF Sound, Ops, ExactOps
<1>3. CASE FailExact("shrink_to_fit", size + 1)
  BY <1>1, <1>3, FailExactKeeps DEF ExactOps
<1> QED BY <1>2, <1>3 DEF ShrinkToFit

LEMMA NullType == Null \in Block(0)
BY DEF Null, Block

LEMMA FreeKeeps == ASSUME IInv, Free PROVE IInv'
BY NullType
   DEF Free, IInv, TypeOK, Backed, RoomForNul, InBounds, Rets, Ops

LEMMA AppendLenKeeps == ASSUME IInv, AppendLen PROVE IInv'
<1>1. Callable /\ size \in Nat
  BY DEF AppendLen, IInv, TypeOK
<1>2. PICK src \in Srcs :
        \/ \E b \in Reserved(Buffer, size + Len(src) + 1) :
             Return("append_len", b, StrCpy(b.data, size, src),
                    size + Len(src), size + Len(src) + 1)
        \/ Fail("append_len")
  BY DEF AppendLen
<1>3. src \in Seq(Char) /\ Len(src) \in Nat
  BY <1>1, SrcsAssumption
<1>4. ASSUME NEW b \in Reserved(Buffer, size + Len(src) + 1),
             Return("append_len", b, StrCpy(b.data, size, src),
                    size + Len(src), size + Len(src) + 1)
      PROVE  IInv'
  <2>1. Sound(b)
    BY <1>1, <1>3, ReservedSound
  <2>2. StrCpy(b.data, size, src) \in Block(b.alloc)
    BY <1>1, <1>3, <2>1, StrCpyType DEF Sound
  <2>3. /\ size + Len(src) + 1 \in Nat /\ size + Len(src) \in Nat /\ size + Len(src) + 1 \in Nat
        /\ size + Len(src) < size + Len(src) + 1
        /\ size + Len(src) + 1 <= size + Len(src) + 1
    BY <1>1, <1>3
  <2>4. "append_len" \in Ops
    BY DEF Ops
  <2> QED BY <1>1, <1>4, <2>2, <2>3, <2>4, GrowAndWriteKeeps
<1>5. CASE Fail("append_len")
  BY <1>1, <1>5, FailKeeps DEF Ops
<1> QED BY <1>2, <1>4, <1>5

LEMMA AssignLenKeeps == ASSUME IInv, AssignLen PROVE IInv'
<1>1. Callable /\ size \in Nat
  BY DEF AssignLen, IInv, TypeOK
<1>2. PICK src \in Srcs :
        \/ \E b \in Reserved(Buffer, size + Len(src) + 1) :
             Return("assign_len", b, StrCpy(b.data, 0, src),
                    Len(src), Len(src) + 1)
        \/ Fail("assign_len")
  BY DEF AssignLen
<1>3. src \in Seq(Char) /\ Len(src) \in Nat
  BY <1>1, SrcsAssumption
<1>4. ASSUME NEW b \in Reserved(Buffer, size + Len(src) + 1),
             Return("assign_len", b, StrCpy(b.data, 0, src),
                    Len(src), Len(src) + 1)
      PROVE  IInv'
  <2>1. Sound(b)
    BY <1>1, <1>3, ReservedSound
  <2>2. StrCpy(b.data, 0, src) \in Block(b.alloc)
    BY <1>1, <1>3, <2>1, StrCpyType DEF Sound
  <2>3. /\ size + Len(src) + 1 \in Nat /\ Len(src) \in Nat /\ Len(src) + 1 \in Nat
        /\ Len(src) < size + Len(src) + 1
        /\ Len(src) + 1 <= size + Len(src) + 1
    BY <1>1, <1>3
  <2>4. "assign_len" \in Ops
    BY DEF Ops
  <2> QED BY <1>1, <1>4, <2>2, <2>3, <2>4, GrowAndWriteKeeps
<1>5. CASE Fail("assign_len")
  BY <1>1, <1>5, FailKeeps DEF Ops
<1> QED BY <1>2, <1>4, <1>5

LEMMA PushBackKeeps == ASSUME IInv, PushBack PROVE IInv'
<1>1. Callable /\ size \in Nat
  BY DEF PushBack, IInv, TypeOK
<1>2. PICK c \in Char :
        \/ \E b \in Reserved(Buffer, size + 1 + 1) :
             Return("pushback", b, StrCpy(b.data, size, <<c>>),
                    size + 1, size + 2)
        \/ Fail("pushback")
  BY DEF PushBack
<1>3. <<c>> \in Seq(Char) /\ size + 1 + 1 \in Nat
  BY <1>1 DEF Byte
<1>4. ASSUME NEW b \in Reserved(Buffer, size + 1 + 1),
             Return("pushback", b, StrCpy(b.data, size, <<c>>),
                    size + 1, size + 2)
      PROVE  IInv'
  <2>1. Sound(b)
    BY <1>1, <1>3, ReservedSound
  <2>2. StrCpy(b.data, size, <<c>>) \in Block(b.alloc)
    BY <1>1, <1>3, <2>1, StrCpyType DEF Sound
  <2>3. /\ size + 1 + 1 \in Nat /\ size + 1 \in Nat /\ size + 2 \in Nat
        /\ size + 1 < size + 1 + 1
        /\ size + 2 <= size + 1 + 1
    BY <1>1, <1>3
  <2>4. "pushback" \in Ops
    BY DEF Ops
  <2> QED BY <1>1, <1>4, <2>2, <2>3, <2>4, GrowAndWriteKeeps
<1>5. CASE Fail("pushback")
  BY <1>1, <1>5, FailKeeps DEF Ops
<1> QED BY <1>2, <1>4, <1>5

LEMMA PushBackNKeeps == ASSUME IInv, PushBackN PROVE IInv'
<1>1. Callable /\ size \in Nat
  BY DEF PushBackN, IInv, TypeOK
<1>2. PICK c \in Char, n \in 0..MaxN :
        \/ \E b \in Reserved(Buffer, size + n + 1) :
             Return("pushbackn", b, Fill(b.data, size, c, n),
                    size + n, size + n)
        \/ Fail("pushbackn")
  BY DEF PushBackN
<1>3. c \in Byte /\ n \in Nat
  BY <1>1, RepeatAssumption DEF Byte
<1>4. ASSUME NEW b \in Reserved(Buffer, size + n + 1),
             Return("pushbackn", b, Fill(b.data, size, c, n),
                    size + n, size + n)
      PROVE  IInv'
  <2>1. Sound(b)
    BY <1>1, <1>3, ReservedSound
  <2>2. Fill(b.data, size, c, n) \in Block(b.alloc)
    BY <1>1, <1>3, <2>1, FillType DEF Sound
  <2>3. /\ size + n + 1 \in Nat /\ size + n \in Nat /\ size + n \in Nat
        /\ size + n < size + n + 1
        /\ size + n <= size + n + 1
    BY <1>1, <1>3
  <2>4. "pushbackn" \in Ops
    BY DEF Ops
  <2> QED BY <1>1, <1>4, <2>2, <2>3, <2>4, GrowAndWriteKeeps
<1>5. CASE Fail("pushbackn")
  BY <1>1, <1>5, FailKeeps DEF Ops
<1> QED BY <1>2, <1>4, <1>5

LEMMA PushFrontKeeps == ASSUME IInv, PushFront PROVE IInv'
<1>1. Callable /\ size \in Nat
  BY DEF PushFront, IInv, TypeOK
<1>2. PICK c \in Char :
        \/ \E b \in Reserved(Buffer, size + 1 + 1) :
             Return("pushfront", b, Fill(StrMove(b.data, 1, 0, size), 0, c, 1),
                    size + 1, size + 2)
        \/ Fail("pushfront")
  BY DEF PushFront
<1>3. c \in Byte /\ size + 1 + 1 \in Nat
  BY <1>1 DEF Byte
<1>4. ASSUME NEW b \in Reserved(Buffer, size + 1 + 1),
             Return("pushfront", b, Fill(StrMove(b.data, 1, 0, size), 0, c, 1),
                    size + 1, size + 2)
      PROVE  IInv'
  <2>1. Sound(b)
    BY <1>1, <1>3, ReservedSound
  <2>2. Fill(StrMove(b.data, 1, 0, size), 0, c, 1) \in Block(b.alloc)
    BY <1>1, <1>3, <2>1, FillType, StrMoveType DEF Sound
  <2>3. /\ size + 1 + 1 \in Nat /\ size + 1 \in Nat /\ size + 2 \in Nat
        /\ size + 1 < size + 1 + 1
        /\ size + 2 <= size + 1 + 1
    BY <1>1, <1>3
  <2>4. "pushfront" \in Ops
    BY DEF Ops
  <2> QED BY <1>1, <1>4, <2>2, <2>3, <2>4, GrowAndWriteKeeps
<1>5. CASE Fail("pushfront")
  BY <1>1, <1>5, FailKeeps DEF Ops
<1> QED BY <1>2, <1>4, <1>5

LEMMA PushFrontNKeeps == ASSUME IInv, PushFrontN PROVE IInv'
<1>1. Callable /\ size \in Nat
  BY DEF PushFrontN, IInv, TypeOK
<1>2. PICK c \in Char, n \in 0..MaxN :
        \/ \E b \in Reserved(Buffer, size + n + 1) :
             Return("pushfrontn", b, Fill(StrMove(b.data, n, 0, size), 0, c, n),
                    size + n, size + n + 1)
        \/ Fail("pushfrontn")
  BY DEF PushFrontN
<1>3. c \in Byte /\ n \in Nat
  BY <1>1, RepeatAssumption DEF Byte
<1>4. ASSUME NEW b \in Reserved(Buffer, size + n + 1),
             Return("pushfrontn", b, Fill(StrMove(b.data, n, 0, size), 0, c, n),
                    size + n, size + n + 1)
      PROVE  IInv'
  <2>1. Sound(b)
    BY <1>1, <1>3, ReservedSound
  <2>2. Fill(StrMove(b.data, n, 0, size), 0, c, n) \in Block(b.alloc)
    BY <1>1, <1>3, <2>1, FillType, StrMoveType DEF Sound
  <2>3. /\ size + n + 1 \in Nat /\ size + n \in Nat /\ size + n + 1 \in Nat
        /\ size + n < size + n + 1
        /\ size + n + 1 <= size + n + 1
    BY <1>1, <1>3
  <2>4. "pushfrontn" \in Ops
    BY DEF Ops
  <2> QED BY <1>1, <1>4, <2>2, <2>3, <2>4, GrowAndWriteKeeps
<1>5. CASE Fail("pushfrontn")
  BY <1>1, <1>5, FailKeeps DEF Ops
<1> QED BY <1>2, <1>4, <1>5

LEMMA PrependLenKeeps == ASSUME IInv, PrependLen PROVE IInv'
<1> DEFINE Moved(b, src) == IF size # 0
                            THEN StrMove(b.data, Len(src), 0, size)
                            ELSE Fill(b.data, Len(src), NUL, 1)
<1>1. Callable /\ size \in Nat
  BY DEF PrependLen, IInv, TypeOK
<1>2. PICK src \in Srcs :
        \/ \E b \in Reserved(Buffer, size + Len(src) + 1) :
             Return("prepend_len", b, Copy(Moved(b, src), 0, src),
                    size + Len(src), size + Len(src) + 1)
        \/ Fail("prepend_len")
  BY DEF PrependLen
<1>3. src \in Seq(Char) /\ Len(src) \in Nat
  BY SrcsAssumption
<1>4. ASSUME NEW b \in Reserved(Buffer, size + Len(src) + 1),
             Return("prepend_len", b, Copy(Moved(b, src), 0, src),
                    size + Len(src), size + Len(src) + 1)
      PROVE  IInv'
  <2>1. Sound(b)
    BY <1>1, <1>3, ReservedSound
  <2>2. Moved(b, src) \in Block(b.alloc)
    BY <1>1, <1>3, <2>1, StrMoveType, FillType, NULType DEF Sound
  <2>3. Copy(Moved(b, src), 0, src) \in Block(b.alloc)
    BY <1>3, <2>1, <2>2, CopyType DEF Sound
  <2>4. size + Len(src) + 1 \in Nat /\ size + Len(src) \in Nat
    BY <1>1, <1>3
  <2>5. size + Len(src) < size + Len(src) + 1
    BY <1>1, <1>3
  <2>6. "prepend_len" \in Ops
    BY DEF Ops
  <2> QED BY <1>1, <1>4, <2>3, <2>4, <2>5, <2>6, GrowAndWriteKeeps
<1>5. CASE Fail("prepend_len")
  BY <1>1, <1>5, FailKeeps DEF Ops
<1> QED BY <1>2, <1>4, <1>5

(* What jstr_cat and jstr_internal_cat do with arguments that spell src. *)
LEMMA AppendTextKeeps ==
  ASSUME IInv, Callable, NEW op \in Ops, NEW src \in Seq(Char),
         NEW b \in Reserved(Buffer, size + Len(src) + 1),
         Return(op, b, StrCpy(b.data, size, src),
                size + Len(src), size + Len(src) + 1)
  PROVE  IInv'
<1>1. size \in Nat /\ Len(src) \in Nat
  BY DEF IInv, TypeOK
<1>2. Sound(b)
  BY <1>1, ReservedSound
<1>3. StrCpy(b.data, size, src) \in Block(b.alloc)
  BY <1>1, <1>2, StrCpyType DEF Sound
<1>4. size + Len(src) + 1 \in Nat /\ size + Len(src) \in Nat
  BY <1>1
<1>5. size + Len(src) < size + Len(src) + 1
  BY <1>1
<1> QED BY <1>3, <1>4, <1>5, GrowAndWriteKeeps

LEMMA CatKeeps == ASSUME IInv, Cat PROVE IInv'
<1>1. Callable /\ size \in Nat /\ alloc \in Nat /\ data \in Block(alloc)
  BY DEF Cat, IInv, TypeOK
<1>2. PICK x \in Srcs, y \in Srcs :
        \/ Return("cat", Buffer, data, size, 0)
        \/ \E b \in Reserved(Buffer, size + Len(x \o y) + 1) :
             Return("cat", b, StrCpy(b.data, size, x \o y),
                    size + Len(x \o y), size + Len(x \o y) + 1)
        \/ Fail("cat")
  BY DEF Cat
<1>3. x \o y \in Seq(Char) /\ "cat" \in Ops
  BY SrcsAssumption DEF Ops
<1>4. CASE Return("cat", Buffer, data, size, 0)
  BY <1>1, <1>3, <1>4, InPlaceKeeps
<1>5. CASE Fail("cat")
  BY <1>1, <1>3, <1>5, FailKeeps
<1> QED BY <1>1, <1>2, <1>3, <1>4, <1>5, AppendTextKeeps

LEMMA InternalCatKeeps == ASSUME IInv, InternalCat PROVE IInv'
<1>1. Callable /\ size \in Nat /\ "internal_cat" \in Ops
  BY DEF InternalCat, IInv, TypeOK, Ops
<1>2. CASE Fail("internal_cat")
  BY <1>1, <1>2, FailKeeps
<1>3. ASSUME NEW b \in Reserved(Buffer, size + 1),
             Return("internal_cat", b, b.data, size, 0)
      PROVE  IInv'
  <2>1. b.data \in Block(b.alloc)
    BY <1>1, ReservedSound DEF Sound
  <2>2. size + 1 \in Nat /\ size < size + 1 /\ 0 <= size + 1
    BY <1>1
  <2> QED BY <1>1, <1>3, <2>1, <2>2, GrowAndWriteKeeps
<1>4. ASSUME NEW x \in Srcs, NEW y \in Srcs,
             NEW b \in Reserved(Buffer, size + Len(x \o y) + 1),
             Return("internal_cat", b, StrCpy(b.data, size, x \o y),
                    size + Len(x \o y), size + Len(x \o y) + 1)
      PROVE  IInv'
  <2>1. x \o y \in Seq(Char)
    BY SrcsAssumption
  <2> QED BY <1>1, <1>4, <2>1, AppendTextKeeps
<1> QED BY <1>2, <1>3, <1>4 DEF InternalCat

LEMMA StrSetKeeps == ASSUME IInv, StrSet PROVE IInv'
<1>1. Callable /\ size \in Nat /\ alloc \in Nat /\ data \in Block(alloc)
  BY DEF StrSet, IInv, TypeOK
<1>2. PICK n \in 0..(alloc - 1), c \in Char :
        Return("strset", Buffer, Fill(data, 0, c, n), size, n + 1)
  BY DEF StrSet
<1>3. Fill(data, 0, c, n) \in Block(alloc)
  BY <1>1, FillType DEF Byte
<1>4. n + 1 \in Nat /\ n + 1 <= alloc /\ size <= size
  BY <1>1
<1>5. "strset" \in Ops
  BY DEF Ops
<1> QED BY <1>1, <1>2, <1>3, <1>4, <1>5, InPlaceKeeps

LEMMA AssignNChrKeeps == ASSUME IInv, AssignNChr PROVE IInv'
<1> DEFINE New(b, c, n) == Fill(Fill(b.data, 0, c, n), n, NUL, 1)
<1>1. /\ Callable /\ ~overrun /\ "assignnchr" \in Ops
      /\ size \in Nat /\ alloc \in Nat
  BY DEF AssignNChr, IInv, TypeOK, Ops, Callable
<1>2. PICK c \in Char, n \in 0..MaxN :
        \/ \E b \in IF n > size THEN ReservedAlways(Buffer, n + 1) ELSE {Buffer} :
             Return("assignnchr", b, New(b, c, n), n, n + 1)
        \/ Fail("assignnchr")
  BY DEF AssignNChr
<1>3. n \in Nat /\ c \in Byte
  BY RepeatAssumption DEF Byte
<1>4. ASSUME NEW b, Sound(b) PROVE New(b, c, n) \in Block(b.alloc)
  BY <1>3, <1>4, FillType, NULType DEF Sound
<1>5. CASE Fail("assignnchr")
  BY <1>1, <1>5, FailKeeps
<1>6. ASSUME NEW b \in ReservedAlways(Buffer, n + 1),
             Return("assignnchr", b, New(b, c, n), n, n + 1)
      PROVE  IInv'
  <2>1. Sound(b) /\ n + 1 <= b.alloc /\ n < b.alloc
    BY <1>1, <1>3, ReservedAlwaysSound DEF Sound
  <2>2. n + 1 \in Int
    BY <1>3
  <2> QED BY <1>1, <1>3, <1>4, <1>6, <2>1, <2>2, ReturnKeeps
<1>7. ASSUME ~(n > size), Return("assignnchr", Buffer, New(Buffer, c, n), n, n + 1)
      PROVE  IInv'
  <2>1. Sound(Buffer) /\ Buffer.alloc = alloc
    BY <1>1, BufferSound
  <2>2. CASE alloc # 0
    <3>1. n < alloc /\ n + 1 <= alloc /\ n + 1 \in Int
      BY <1>1, <1>3, <1>7, <2>2 DEF IInv, RoomForNul
    <3> QED BY <1>1, <1>3, <1>4, <1>7, <2>1, <3>1, ReturnKeeps
  <2>3. CASE alloc = 0
    <3>1. n = 0
      BY <1>1, <1>3, <1>7, <2>3 DEF IInv, RoomForNul
    <3>2. New(Buffer, c, n) \in Block(Buffer.alloc)
      BY <1>4, <2>1
    <3>3. alloc' = 0 /\ size' = 0 /\ capacity' = 0 /\ data' \in Block(alloc')
      BY <1>7, <2>1, <2>3, <3>1, <3>2 DEF Return, Sound
    <3>4. last' = [op |-> "assignnchr", ret |-> "SUCC"] /\ overrun' \in BOOLEAN
      BY <1>7 DEF Return
    <3>5. Backed' /\ RoomForNul' /\ InBounds'
      BY <3>3, <3>4 DEF Backed, RoomForNul, InBounds
    <3>6. TypeOK'
      BY <1>1, <3>3, <3>4 DEF TypeOK, Rets
    <3> QED BY <3>5, <3>6 DEF IInv
  <2> QED BY <2>2, <2>3
<1> QED BY <1>2, <1>5, <1>6, <1>7

LEMMA PopBackKeeps == ASSUME IInv, PopBack PROVE IInv'
<1>1. /\ Callable /\ "popback" \in Ops
      /\ size \in Nat /\ alloc \in Nat /\ data \in Block(alloc)
  BY DEF PopBack, IInv, TypeOK, Ops
<1>2. CASE Return("popback", Buffer, data, size, 0)
  BY <1>1, <1>2, InPlaceKeeps
<1>3. ASSUME size # 0,
             Return("popback", Buffer, Fill(data, size - 1, NUL, 1), size - 1, size)
      PROVE  IInv'
  <2>1. Fill(data, size - 1, NUL, 1) \in Block(alloc)
    BY <1>1, FillType, NULType
  <2>2. size - 1 \in Nat /\ size - 1 <= size /\ size <= alloc
    BY <1>1, <1>3 DEF IInv, RoomForNul
  <2> QED BY <1>1, <1>3, <2>1, <2>2, InPlaceKeeps
<1> QED BY <1>2, <1>3 DEF PopBack

LEMMA PopFrontKeeps == ASSUME IInv, PopFront PROVE IInv'
<1>1. /\ Callable /\ "popfront" \in Ops
      /\ size \in Nat /\ alloc \in Nat /\ data \in Block(alloc)
  BY DEF PopFront, IInv, TypeOK, Ops
<1>2. CASE Return("popfront", Buffer, data, size, 0)
  BY <1>1, <1>2, InPlaceKeeps
<1>3. ASSUME size # 0,
             Return("popfront", Buffer, Move(data, 0, 1, size), size - 1, size + 1)
      PROVE  IInv'
  <2>1. Move(data, 0, 1, size) \in Block(alloc)
    BY <1>1, MoveType
  <2>2. /\ size - 1 \in Nat /\ size - 1 <= size
        /\ size + 1 \in Nat /\ size + 1 <= alloc
    BY <1>1, <1>3 DEF IInv, RoomForNul
  <2> QED BY <1>1, <1>3, <2>1, <2>2, InPlaceKeeps
<1> QED BY <1>2, <1>3 DEF PopFront

LEMMA EmptyKeeps == ASSUME IInv, Empty PROVE IInv'
<1> DEFINE extent == IF alloc = 0 THEN 0 ELSE 1
<1>1. /\ Callable /\ "empty" \in Ops
      /\ size \in Nat /\ alloc \in Nat /\ data \in Block(alloc)
  BY DEF Empty, IInv, TypeOK, Ops
<1>2. Fill(data, 0, NUL, 1) \in Block(alloc)
  BY <1>1, FillType, NULType
<1>3. extent \in Nat /\ extent <= alloc /\ 0 <= size
  BY <1>1
<1>4. Return("empty", Buffer, Fill(data, 0, NUL, 1), 0, extent)
  BY DEF Empty
<1> QED BY <1>1, <1>2, <1>3, <1>4, InPlaceKeeps

(* vsprintf into a block with room for the whole text. *)
LEMMA PrintedKeeps ==
  ASSUME IInv, Callable, NEW op \in PrintOps, NEW b, NEW at \in Nat,
         NEW src \in Seq(Char),
         Sound(b), at + MaxLen(src) <= b.alloc, size < b.alloc,
         Printed(op, b, at, src)
  PROVE  IInv'
<1>1. /\ Len(src) \in Nat /\ b.alloc \in Nat /\ size \in Nat /\ op \in Ops
      /\ b.data \in Block(b.alloc)
  BY DEF Sound, IInv, TypeOK, Ops
<1>2. ASSUME Return(op, b, StrCpy(b.data, at, src), at + Len(src),
                    at + Len(src) + 1)
      PROVE  IInv'
  <2>1. StrCpy(b.data, at, src) \in Block(b.alloc)
    BY <1>1, StrCpyType
  <2>2. /\ at + Len(src) \in Nat /\ at + Len(src) < b.alloc
        /\ at + Len(src) + 1 \in Int /\ at + Len(src) + 1 <= b.alloc
    BY <1>1 DEF MaxLen
  <2> QED BY <1>1, <1>2, <2>1, <2>2, ReturnKeeps
<1>3. ASSUME NEW n \in 0..Len(src),
             data' = Copy(b.data, at, SubSeq(src, 1, n)),
             alloc' = b.alloc, capacity' = b.cap,
             overrun' = (at + n > b.alloc),
             last' = [op |-> op, ret |-> "ERR"],
             size' = size
      PROVE  IInv'
  <2>1. SubSeq(src, 1, n) \in Seq(Char)
    BY <1>1
  <2>2. data' \in Block(alloc')
    BY <1>1, <1>3, <2>1, CopyType
  <2>3. ~(at + n > b.alloc)
    BY <1>1 DEF MaxLen
  <2>4. ~overrun'
    BY <1>3, <2>3
  <2>5. TypeOK'
    BY <1>1, <1>3, <2>2 DEF TypeOK, Rets, Sound
  <2>6. Backed' /\ RoomForNul' /\ InBounds'
    BY <1>1, <1>3, <2>4 DEF Backed, RoomForNul, InBounds, Sound
  <2> QED BY <2>5, <2>6 DEF IInv
<1> QED BY <1>2, <1>3 DEF Printed

LEMMA AsprintfKeeps == ASSUME IInv, Asprintf PROVE IInv'
<1>1. Callable /\ size \in Nat /\ alloc \in Nat
  BY DEF Asprintf, IInv, TypeOK
<1>2. "asprintf" \in Ops /\ "asprintf" \in ExactOps /\ "asprintf" \in PrintOps
  BY DEF Ops, ExactOps, PrintOps
<1>3. CASE Fail("asprintf")
  BY <1>1, <1>2, <1>3, FailKeeps
<1>4. ASSUME NEW src \in Srcs, FailExact("asprintf", MaxLen(src))
      PROVE  IInv'
  <2>1. MaxLen(src) \in Nat
    BY SrcsAssumption DEF MaxLen
  <2> QED BY <1>1, <1>2, <1>4, <2>1, FailExactKeeps
<1>5. ASSUME NEW src \in Srcs, NEW b \in ReservedExact(MaxLen(src)),
             Printed("asprintf", b, 0, src)
      PROVE  IInv'
  <2>1. src \in Seq(Char) /\ MaxLen(src) \in Nat /\ MaxLen(src) > 0
    BY SrcsAssumption DEF MaxLen
  <2>2. /\ Sound(b) /\ b.alloc >= MaxLen(src)
        /\ b.alloc > size \/ (b.alloc = 0 /\ size = 0)
    BY <1>1, <2>1, ReservedExactSound
  <2>3. 0 + MaxLen(src) <= b.alloc /\ size < b.alloc
    BY <1>1, <2>1, <2>2 DEF Sound
  <2> QED BY <1>1, <1>2, <1>5, <2>1, <2>2, <2>3, PrintedKeeps
<1> QED BY <1>3, <1>4, <1>5 DEF Asprintf

(* jstr_asprintf_append and jstr_asprintf_from, which print at at. *)
LEMMA PrintAtKeeps ==
  ASSUME IInv, Callable, NEW op \in PrintOps, NEW at \in Nat, NEW src \in Srcs,
         NEW b \in Reserved(Buffer, at + MaxLen(src)),
         Printed(op, b, at, src)
  PROVE  IInv'
<1>1. /\ src \in Seq(Char) /\ MaxLen(src) \in Nat /\ MaxLen(src) > 0
      /\ size \in Nat /\ at + MaxLen(src) \in Nat
  BY SrcsAssumption DEF MaxLen, IInv, TypeOK
<1>2. /\ Sound(b) /\ b.alloc >= at + MaxLen(src)
      /\ b.alloc > size \/ (b.alloc = 0 /\ size = 0)
  BY <1>1, ReservedSound
<1>3. at + MaxLen(src) <= b.alloc /\ size < b.alloc
  BY <1>1, <1>2 DEF Sound
<1> QED BY <1>1, <1>2, <1>3, PrintedKeeps

LEMMA AsprintfAppendKeeps == ASSUME IInv, AsprintfAppend PROVE IInv'
<1>1. Callable /\ size \in Nat
  BY DEF AsprintfAppend, IInv, TypeOK
<1>2. "asprintf_append" \in Ops /\ "asprintf_append" \in PrintOps
  BY DEF Ops, PrintOps
<1>3. CASE Fail("asprintf_append")
  BY <1>1, <1>2, <1>3, FailKeeps
<1>4. ASSUME NEW src \in Srcs, NEW b \in Reserved(Buffer, size + MaxLen(src)),
             Printed("asprintf_append", b, size, src)
      PROVE  IInv'
  BY <1>1, <1>2, <1>4, PrintAtKeeps
<1> QED BY <1>3, <1>4 DEF AsprintfAppend

LEMMA AsprintfFromKeeps == ASSUME IInv, AsprintfFrom PROVE IInv'
<1>1. Callable /\ size \in Nat
  BY DEF AsprintfFrom, IInv, TypeOK
<1>2. "asprintf_from" \in Ops /\ "asprintf_from" \in PrintOps
  BY DEF Ops, PrintOps
<1>3. CASE Fail("asprintf_from")
  BY <1>1, <1>2, <1>3, FailKeeps
<1>4. ASSUME NEW src \in Srcs, NEW start \in 0..size,
             NEW b \in Reserved(Buffer, start + MaxLen(src)),
             Printed("asprintf_from", b, start, src)
      PROVE  IInv'
  BY <1>1, <1>2, <1>4, PrintAtKeeps
<1> QED BY <1>3, <1>4 DEF AsprintfFrom

LEMMA SprintfFromKeeps == ASSUME IInv, SprintfFrom PROVE IInv'
<1>1. Callable /\ size \in Nat /\ alloc \in Nat /\ "sprintf_from" \in PrintOps
  BY DEF SprintfFrom, IInv, TypeOK, PrintOps
<1>2. PICK src \in Srcs, start \in 0..size :
        /\ start + Len(src) + 1 <= capacity
        /\ Printed("sprintf_from", Buffer, start, src)
  BY DEF SprintfFrom
<1>3. Sound(Buffer) /\ Buffer.alloc = alloc /\ capacity = alloc
  BY <1>1, BufferSound
<1>4. src \in Seq(Char) /\ Len(src) \in Nat
  BY SrcsAssumption
<1>5. start \in Nat /\ start + MaxLen(src) <= Buffer.alloc
  BY <1>1, <1>2, <1>3, <1>4 DEF MaxLen
<1>6. size < Buffer.alloc
  BY <1>1, <1>3, <1>4, <1>5 DEF MaxLen, IInv, RoomForNul
<1> QED BY <1>1, <1>2, <1>3, <1>4, <1>5, <1>6, PrintedKeeps

(***************************************************************************)
(* The theorems.                                                           *)
(***************************************************************************)

LEMMA InitInv == Init => IInv
<1> SUFFICES ASSUME Init PROVE IInv
  OBVIOUS
<1>1. overrun \in BOOLEAN /\ ~overrun
  BY DEF Init
<1>2. data \in Block(alloc) /\ alloc \in Nat /\ size \in Nat /\ capacity \in Nat
  BY NullType DEF Init
<1>3. last \in [op : Ops, ret : Rets]
  BY DEF Init, Ops, Rets
<1>4. Backed /\ RoomForNul
  BY DEF Init, Backed, RoomForNul
<1> QED BY <1>1, <1>2, <1>3, <1>4 DEF IInv, TypeOK, InBounds

LEMMA NextInv == IInv /\ [Next]_vars => IInv'
<1> SUFFICES ASSUME IInv, [Next]_vars PROVE IInv'
  OBVIOUS
<1>1. CASE Next
  BY <1>1, ReserveKeeps, ReserveAlwaysKeeps, ReserveExactKeeps,
     ReserveExactAlwaysKeeps, ShrinkToFitKeeps, FreeKeeps, AppendLenKeeps,
     CatKeeps, InternalCatKeeps, StrSetKeeps, AssignNChrKeeps, AssignLenKeeps,
     PushBackKeeps, PushBackNKeeps, PushFrontKeeps, PushFrontNKeeps,
     PrependLenKeeps, PopBackKeeps, PopFrontKeeps, EmptyKeeps, AsprintfKeeps,
     AsprintfAppendKeeps, AsprintfFromKeeps, SprintfFromKeeps
  DEF Next
<1>2. CASE UNCHANGED vars
  BY <1>2 DEF vars, IInv, TypeOK, Backed, Usable, RoomForNul, InBounds
<1> QED BY <1>1, <1>2

(* The inductive invariant holds in every reachable state. *)
THEOREM Inductive == Spec => []IInv
BY InitInv, NextInv, PTL DEF Spec

(* Every field of a jstr_ty and every byte of its block keeps its type. *)
THEOREM TypeCorrect == Spec => []TypeOK
BY Inductive, PTL DEF IInv

(* The capacity of a string that may be used is the size of its block. *)
THEOREM CapacityIsBacked == Spec => []Backed
BY Inductive, PTL DEF IInv

(* A block always has a byte left for the terminator. *)
THEOREM TerminatorFits == Spec => []RoomForNul
BY Inductive, PTL DEF IInv

(* No call leaves the block but jstr_assignnchr on a string without one. *)
THEOREM StaysInBounds == Spec => []InBounds
BY Inductive, PTL DEF IInv

-----------------------------------------------------------------------------

(***************************************************************************)
(* A call on a terminated string leaves it terminated.  A call ends in one *)
(* of four ways: it writes a NUL at the new size, it leaves the byte there *)
(* and the size alone, it moves the terminator along with the text, or it  *)
(* is one of the exceptions KeepsTerminator names.                         *)
(***************************************************************************)

Terminated == alloc # 0 /\ data[size] = NUL

Kept ==
  \/ alloc' = 0
  \/ data'[size'] = NUL
  \/ last'.op = "pushbackn"
  \/ last'.ret = "ERR" /\ last'.op \in PrintOps

(***************************************************************************)
(* What the helpers leave in a byte.                                       *)
(***************************************************************************)

LEMMA FillSets ==
  ASSUME NEW n \in Nat, NEW m \in Block(n), NEW c, NEW k \in 0..(n - 1)
  PROVE  Fill(m, k, c, 1)[k] = c
BY DEF Fill, Block

LEMMA FillLeaves ==
  ASSUME NEW n \in Nat, NEW m \in Block(n), NEW dst \in Nat, NEW c, NEW len \in Nat,
         NEW k \in 0..(n - 1), k < dst \/ k >= dst + len
  PROVE  Fill(m, dst, c, len)[k] = m[k]
BY DEF Fill, Block

LEMMA CopyLeaves ==
  ASSUME NEW n \in Nat, NEW m \in Block(n), NEW src \in Seq(Char),
         NEW k \in 0..(n - 1), k >= Len(src)
  PROVE  Copy(m, 0, src)[k] = m[k]
BY DEF Copy, Block

LEMMA StrCpyTerminates ==
  ASSUME NEW n \in Nat, NEW m \in Block(n), NEW dst \in Nat, NEW src \in Seq(Char),
         dst + Len(src) < n
  PROVE  StrCpy(m, dst, src)[dst + Len(src)] = NUL
<1>1. Copy(m, dst, src) \in Block(n)
  BY CopyType
<1>2. dst + Len(src) \in 0..(n - 1)
  OBVIOUS
<1> QED BY <1>1, <1>2, FillSets DEF StrCpy

LEMMA StrMoveTerminates ==
  ASSUME NEW n \in Nat, NEW m \in Block(n), NEW dst \in Nat, NEW len \in Nat,
         dst + len < n
  PROVE  StrMove(m, dst, 0, len)[dst + len] = NUL
<1>1. Move(m, dst, 0, len) \in Block(n)
  BY MoveType
<1>2. dst + len \in 0..(n - 1)
  OBVIOUS
<1> QED BY <1>1, <1>2, FillSets DEF StrMove

(***************************************************************************)
(* Reserving space leaves the terminator where it is.                      *)
(***************************************************************************)

LEMMA ResizedLeavesNul ==
  ASSUME NEW c \in Nat, IInv, size < alloc, size < c
  PROVE  Resized(Buffer, c).data[size] = data[size]
<1>1. size \in 0..(c - 1) /\ alloc \in Nat
  BY DEF IInv, TypeOK
<1> QED BY <1>1, ReallocKeeps DEF Resized, Buffer

LEMMA ReservedAlwaysLeavesNul ==
  ASSUME IInv, Callable, Terminated, NEW need \in Nat,
         NEW b \in ReservedAlways(Buffer, need)
  PROVE  b.data[size] = NUL
<1>1. size < alloc /\ size \in Nat
  BY DEF IInv, RoomForNul, Terminated, TypeOK
<1>2. PICK c \in 1..MaxCap : b = Resized(Buffer, c)
  BY DEF ReservedAlways
<1>3. c \in Nat /\ b.alloc = c
  BY <1>2, BoundsAssumption DEF Resized
<1>4. size < c
  BY <1>1, <1>3, ReservedAlwaysSound
<1> QED BY <1>1, <1>2, <1>3, <1>4, ResizedLeavesNul DEF Terminated

LEMMA ReservedLeavesNul ==
  ASSUME IInv, Callable, Terminated, NEW need \in Nat,
         NEW b \in Reserved(Buffer, need)
  PROVE  b.data[size] = NUL
BY ReservedAlwaysLeavesNul DEF Reserved, Buffer, Terminated

LEMMA ReservedExactAlwaysLeavesNul ==
  ASSUME IInv, Callable, Terminated, NEW need \in Nat,
         NEW b \in ReservedExactAlways(need), need = 0 \/ need > size
  PROVE  b.data[size] = NUL
<1>1. size < alloc /\ size \in Nat
  BY DEF IInv, RoomForNul, Terminated, TypeOK
<1>2. CASE need = 0
  BY <1>2 DEF ReservedExactAlways, Buffer, Terminated
<1>3. CASE need # 0
  <2>1. b = Resized(Buffer, need)
    BY <1>3 DEF ReservedExactAlways
  <2> QED BY <1>1, <1>3, <2>1, ResizedLeavesNul DEF Terminated
<1> QED BY <1>2, <1>3

LEMMA ReservedExactLeavesNul ==
  ASSUME IInv, Callable, Terminated, NEW need \in Nat, NEW b \in ReservedExact(need)
  PROVE  b.data[size] = NUL
<1>1. size < alloc /\ capacity = alloc /\ size \in Nat /\ alloc \in Nat
  BY BufferSound DEF IInv, RoomForNul, Terminated, TypeOK
<1>2. CASE need < capacity
  BY <1>2 DEF ReservedExact, Buffer, Terminated
<1>3. CASE ~(need < capacity)
  <2>1. need > size /\ b \in ReservedExactAlways(need)
    BY <1>1, <1>3 DEF ReservedExact
  <2> QED BY <2>1, ReservedExactAlwaysLeavesNul
<1> QED BY <1>2, <1>3

(***************************************************************************)
(* How a call ends.                                                        *)
(***************************************************************************)

LEMMA ReturnTerminated ==
  ASSUME NEW op, NEW b, NEW d, NEW sz, NEW extent, d[sz] = NUL,
         Return(op, b, d, sz, extent)
  PROVE  Kept
BY DEF Return, Kept

LEMMA FailTerminated ==
  ASSUME Terminated, NEW op, Fail(op)
  PROVE  Kept
BY DEF Fail, Kept, Terminated

LEMMA FailExactTerminated ==
  ASSUME Terminated, NEW op, NEW need, FailExact(op, need)
  PROVE  Kept
BY DEF FailExact, Kept, Terminated

(* A text and its terminator go where space for both has been reserved. *)
LEMMA CopiedTerminated ==
  ASSUME NEW b, Sound(b), NEW dst \in Nat, NEW src \in Seq(Char),
         dst + Len(src) < b.alloc, NEW op, NEW extent,
         Return(op, b, StrCpy(b.data, dst, src), dst + Len(src), extent)
  PROVE  Kept
<1>1. StrCpy(b.data, dst, src)[dst + Len(src)] = NUL
  BY StrCpyTerminates DEF Sound
<1> QED BY <1>1, ReturnTerminated

(* The same in the space jstr_reserve has made for it. *)
LEMMA ReservedTerminated ==
  ASSUME IInv, Callable, NEW dst \in Nat, NEW src \in Seq(Char), NEW need \in Nat,
         NEW b \in Reserved(Buffer, need), dst + Len(src) < need, NEW op, NEW extent,
         Return(op, b, StrCpy(b.data, dst, src), dst + Len(src), extent)
  PROVE  Kept
<1>1. Sound(b) /\ b.alloc >= need
  BY ReservedSound
<1>2. dst + Len(src) < b.alloc
  BY <1>1 DEF Sound
<1> QED BY <1>1, <1>2, CopiedTerminated

LEMMA PrintedTerminated ==
  ASSUME NEW op \in PrintOps, NEW b, NEW at \in Nat, NEW src \in Seq(Char),
         Sound(b), at + MaxLen(src) <= b.alloc, Printed(op, b, at, src)
  PROVE  Kept
<1>1. at + Len(src) < b.alloc
  BY DEF MaxLen, Sound
<1>2. CASE Return(op, b, StrCpy(b.data, at, src), at + Len(src), at + Len(src) + 1)
  BY <1>1, <1>2, CopiedTerminated
<1>3. CASE last' = [op |-> op, ret |-> "ERR"]
  BY <1>3 DEF Kept
<1> QED BY <1>2, <1>3 DEF Printed

(***************************************************************************)
(* The calls that write text and terminator at the end, or all of it.      *)
(***************************************************************************)

LEMMA AppendsTerminated ==
  ASSUME IInv, Terminated, AppendLen \/ AssignLen \/ PushBack PROVE Kept
<1>1. size \in Nat
  BY DEF IInv, TypeOK
<1>2. \A src \in Srcs : src \in Seq(Char) /\ Len(src) \in Nat
  BY SrcsAssumption
<1>3. CASE AppendLen
  <2>1. PICK src \in Srcs :
          \/ \E b \in Reserved(Buffer, size + Len(src) + 1) :
               Return("append_len", b, StrCpy(b.data, size, src),
                      size + Len(src), size + Len(src) + 1)
          \/ Fail("append_len")
    BY <1>3 DEF AppendLen
  <2>2. size + Len(src) + 1 \in Nat /\ size + Len(src) < size + Len(src) + 1
    BY <1>1, <1>2
  <2>3. Callable
    BY <1>3 DEF AppendLen
  <2> QED BY <1>1, <1>2, <2>1, <2>2, <2>3, FailTerminated, ReservedTerminated
<1>4. CASE AssignLen
  <2>1. PICK src \in Srcs :
          \/ \E b \in Reserved(Buffer, size + Len(src) + 1) :
               Return("assign_len", b, StrCpy(b.data, 0, src),
                      Len(src), Len(src) + 1)
          \/ Fail("assign_len")
    BY <1>4 DEF AssignLen
  <2>2. /\ size + Len(src) + 1 \in Nat /\ 0 + Len(src) = Len(src)
        /\ 0 + Len(src) < size + Len(src) + 1
    BY <1>1, <1>2
  <2>3. Callable
    BY <1>4 DEF AssignLen
  <2>4. CASE Fail("assign_len")
    BY <2>4, FailTerminated
  <2>5. ASSUME NEW b \in Reserved(Buffer, size + Len(src) + 1),
               Return("assign_len", b, StrCpy(b.data, 0, src),
                      Len(src), Len(src) + 1)
        PROVE  Kept
    <3>1. Return("assign_len", b, StrCpy(b.data, 0, src),
                 0 + Len(src), Len(src) + 1)
      BY <2>2, <2>5
    <3> QED BY <1>2, <2>2, <2>3, <3>1, ReservedTerminated
  <2> QED BY <2>1, <2>4, <2>5
<1>5. CASE PushBack
  <2>1. PICK c \in Char :
          \/ \E b \in Reserved(Buffer, size + 1 + 1) :
               Return("pushback", b, StrCpy(b.data, size, <<c>>),
                      size + 1, size + 2)
          \/ Fail("pushback")
    BY <1>5 DEF PushBack
  <2>2. /\ <<c>> \in Seq(Char) /\ Len(<<c>>) = 1
        /\ size + 1 + 1 \in Nat /\ size + 1 < size + 1 + 1
    BY <1>1
  <2>3. Callable
    BY <1>5 DEF PushBack
  <2> QED BY <1>1, <2>1, <2>2, <2>3, FailTerminated, ReservedTerminated
<1> QED BY <1>3, <1>4, <1>5

LEMMA CatsTerminated ==
  ASSUME IInv, Terminated, Cat \/ InternalCat PROVE Kept
<1>1. size \in Nat /\ data[size] = NUL
  BY DEF IInv, TypeOK, Terminated
<1>2. ASSUME NEW x \in Srcs, NEW y \in Srcs, Callable, NEW op,
             NEW b \in Reserved(Buffer, size + Len(x \o y) + 1),
             Return(op, b, StrCpy(b.data, size, x \o y),
                    size + Len(x \o y), size + Len(x \o y) + 1)
      PROVE  Kept
  <2>1. x \o y \in Seq(Char) /\ Len(x \o y) \in Nat
    BY SrcsAssumption
  <2>2. /\ size + Len(x \o y) + 1 \in Nat
        /\ size + Len(x \o y) < size + Len(x \o y) + 1
    BY <1>1, <2>1
  <2> QED BY <1>1, <1>2, <2>1, <2>2, ReservedTerminated
<1>3. CASE Cat
  <2>1. PICK x \in Srcs, y \in Srcs :
          \/ Return("cat", Buffer, data, size, 0)
          \/ \E b \in Reserved(Buffer, size + Len(x \o y) + 1) :
               Return("cat", b, StrCpy(b.data, size, x \o y),
                      size + Len(x \o y), size + Len(x \o y) + 1)
          \/ Fail("cat")
    BY <1>3 DEF Cat
  <2>2. Callable
    BY <1>3 DEF Cat
  <2> QED BY <1>1, <1>2, <2>1, <2>2, FailTerminated, ReturnTerminated
<1>4. CASE InternalCat
  <2>1. Callable
    BY <1>4 DEF InternalCat
  <2>2. ASSUME NEW b \in Reserved(Buffer, size + 1),
               Return("internal_cat", b, b.data, size, 0)
        PROVE  Kept
    <3>1. b.data[size] = NUL
      BY <1>1, <2>1, ReservedLeavesNul
    <3> QED BY <2>2, <3>1, ReturnTerminated
  <2> QED BY <1>2, <1>4, <2>1, <2>2, FailTerminated DEF InternalCat
<1> QED BY <1>3, <1>4

LEMMA PrintsTerminated ==
  ASSUME IInv, Terminated, Asprintf \/ AsprintfAppend \/ AsprintfFrom \/ SprintfFrom
  PROVE  Kept
<1>1. size \in Nat
  BY DEF IInv, TypeOK
<1>2. PrintOps = {"asprintf", "asprintf_append", "asprintf_from", "sprintf_from"}
  BY DEF PrintOps
<1>3. \A src \in Srcs : src \in Seq(Char) /\ MaxLen(src) \in Nat
  BY SrcsAssumption DEF MaxLen
<1>4. ASSUME NEW op \in PrintOps, NEW at \in Nat, NEW src \in Srcs, Callable,
             NEW b \in Reserved(Buffer, at + MaxLen(src)), Printed(op, b, at, src)
      PROVE  Kept
  <2>1. at + MaxLen(src) \in Nat
    BY <1>3
  <2>2. Sound(b) /\ b.alloc >= at + MaxLen(src)
    BY <1>4, <2>1, ReservedSound
  <2>3. at + MaxLen(src) <= b.alloc
    BY <2>1, <2>2 DEF Sound
  <2> QED BY <1>3, <1>4, <2>2, <2>3, PrintedTerminated
<1>5. CASE Asprintf
  <2>1. ASSUME NEW src \in Srcs, NEW b \in ReservedExact(MaxLen(src)),
               Printed("asprintf", b, 0, src)
        PROVE  Kept
    <3>1. Sound(b) /\ b.alloc >= MaxLen(src)
      BY <1>3, <1>5, ReservedExactSound DEF Asprintf
    <3>2. 0 + MaxLen(src) <= b.alloc
      BY <1>3, <3>1 DEF Sound
    <3> QED BY <1>2, <1>3, <2>1, <3>1, <3>2, PrintedTerminated
  <2> QED BY <1>5, <2>1, FailTerminated, FailExactTerminated DEF Asprintf
<1>6. CASE AsprintfAppend
  BY <1>1, <1>2, <1>4, <1>6, FailTerminated DEF AsprintfAppend
<1>7. CASE AsprintfFrom
  BY <1>1, <1>2, <1>4, <1>7, FailTerminated DEF AsprintfFrom
<1>8. CASE SprintfFrom
  <2>1. PICK src \in Srcs, start \in 0..size :
          /\ start + Len(src) + 1 <= capacity
          /\ Printed("sprintf_from", Buffer, start, src)
    BY <1>8 DEF SprintfFrom
  <2>2. Sound(Buffer) /\ Buffer.alloc = alloc /\ capacity = alloc
    BY <1>8, BufferSound DEF SprintfFrom
  <2>3. Len(src) \in Nat /\ start \in Nat /\ start + MaxLen(src) <= Buffer.alloc
    BY <1>1, <1>3, <2>1, <2>2 DEF MaxLen
  <2> QED BY <1>2, <1>3, <2>1, <2>2, <2>3, PrintedTerminated
<1> QED BY <1>5, <1>6, <1>7, <1>8

(***************************************************************************)
(* The calls that only reserve or release space.                           *)
(***************************************************************************)

LEMMA ReservesTerminated ==
  ASSUME IInv, Terminated,
         Reserve \/ ReserveAlways \/ ReserveExact \/ ReserveExactAlways \/ ShrinkToFit
  PROVE  Kept
<1>1. size \in Nat /\ 0..MaxCap \subseteq Nat
  BY BoundsAssumption DEF IInv, TypeOK
<1>2. CASE Reserve
  BY <1>1, <1>2, ReservedLeavesNul, ReturnTerminated, FailTerminated DEF Reserve
<1>3. CASE ReserveAlways
  BY <1>1, <1>3, ReservedAlwaysLeavesNul, ReturnTerminated, FailTerminated
     DEF ReserveAlways
<1>4. CASE ReserveExact
  BY <1>1, <1>4, ReservedExactLeavesNul, ReturnTerminated, FailExactTerminated
     DEF ReserveExact
<1>5. CASE ReserveExactAlways
  <2>1. PICK need \in {0} \cup (size + 1)..MaxCap :
          \/ \E b \in ReservedExactAlways(need) :
               Return("reserveexactalways", b, b.data, size, 0)
          \/ FailExact("reserveexactalways", need)
    BY <1>5 DEF ReserveExactAlways
  <2>2. need \in Nat /\ (need = 0 \/ need > size)
    BY <1>1, BoundsAssumption
  <2>3. Callable
    BY <1>5 DEF ReserveExactAlways
  <2> QED BY <2>1, <2>2, <2>3, ReservedExactAlwaysLeavesNul, ReturnTerminated,
             FailExactTerminated
<1>6. CASE ShrinkToFit
  <2>1. size + 1 \in Nat /\ size + 1 > size
    BY <1>1
  <2> QED BY <1>6, <2>1, ReservedExactAlwaysLeavesNul, ReturnTerminated,
             FailExactTerminated DEF ShrinkToFit
<1> QED BY <1>2, <1>3, <1>4, <1>5, <1>6

LEMMA FreeTerminated == ASSUME Free PROVE Kept
BY DEF Free, Kept

(***************************************************************************)
(* The calls that put characters in front: the text and its terminator     *)
(* move up first.                                                          *)
(***************************************************************************)

LEMMA PushFrontTerminated == ASSUME IInv, Terminated, PushFront PROVE Kept
<1>1. Callable /\ size \in Nat /\ size + 1 + 1 \in Nat
  BY DEF PushFront, IInv, TypeOK
<1>2. ASSUME NEW c \in Char, NEW b \in Reserved(Buffer, size + 1 + 1)
      PROVE  Fill(StrMove(b.data, 1, 0, size), 0, c, 1)[size + 1] = NUL
  <2>1. Sound(b) /\ b.alloc >= size + 1 + 1
    BY <1>1, ReservedSound
  <2>2. StrMove(b.data, 1, 0, size) \in Block(b.alloc) /\ b.alloc \in Nat
    BY <1>1, <2>1, StrMoveType DEF Sound
  <2>3. 1 + size = size + 1 /\ 1 + size < b.alloc /\ size + 1 \in 0..(b.alloc - 1)
    BY <1>1, <2>1, <2>2
  <2>4. StrMove(b.data, 1, 0, size)[size + 1] = NUL
    BY <1>1, <2>1, <2>2, <2>3, StrMoveTerminates DEF Sound
  <2> QED BY <1>1, <2>2, <2>3, <2>4, FillLeaves
<1> QED BY <1>2, FailTerminated, ReturnTerminated DEF PushFront

LEMMA PushFrontNTerminated == ASSUME IInv, Terminated, PushFrontN PROVE Kept
<1>1. Callable /\ size \in Nat
  BY DEF PushFrontN, IInv, TypeOK
<1>2. ASSUME NEW c \in Char, NEW n \in 0..MaxN, NEW b \in Reserved(Buffer, size + n + 1)
      PROVE  Fill(StrMove(b.data, n, 0, size), 0, c, n)[size + n] = NUL
  <2>1. n \in Nat /\ size + n + 1 \in Nat
    BY <1>1, RepeatAssumption
  <2>2. Sound(b) /\ b.alloc >= size + n + 1
    BY <1>1, <2>1, ReservedSound
  <2>3. StrMove(b.data, n, 0, size) \in Block(b.alloc) /\ b.alloc \in Nat
    BY <1>1, <2>1, <2>2, StrMoveType DEF Sound
  <2>4. n + size = size + n /\ n + size < b.alloc /\ size + n \in 0..(b.alloc - 1)
    BY <1>1, <2>1, <2>2, <2>3
  <2>5. StrMove(b.data, n, 0, size)[size + n] = NUL
    BY <1>1, <2>1, <2>2, <2>3, <2>4, StrMoveTerminates DEF Sound
  <2>6. size + n >= 0 + n
    BY <1>1, <2>1
  <2> QED BY <2>1, <2>3, <2>4, <2>5, <2>6, FillLeaves
<1> QED BY <1>2, FailTerminated, ReturnTerminated DEF PushFrontN

LEMMA PrependLenTerminated == ASSUME IInv, Terminated, PrependLen PROVE Kept
<1> DEFINE Moved(b, src) == IF size # 0
                            THEN StrMove(b.data, Len(src), 0, size)
                            ELSE Fill(b.data, Len(src), NUL, 1)
<1>1. Callable /\ size \in Nat
  BY DEF PrependLen, IInv, TypeOK
<1>2. ASSUME NEW src \in Srcs, NEW b \in Reserved(Buffer, size + Len(src) + 1)
      PROVE  Copy(Moved(b, src), 0, src)[size + Len(src)] = NUL
  <2>1. src \in Seq(Char) /\ Len(src) \in Nat /\ size + Len(src) + 1 \in Nat
    BY <1>1, SrcsAssumption
  <2>2. Sound(b) /\ b.alloc >= size + Len(src) + 1
    BY <1>1, <2>1, ReservedSound
  <2>3. b.data \in Block(b.alloc) /\ b.alloc \in Nat
    BY <2>2 DEF Sound
  <2>4. /\ Len(src) + size = size + Len(src) /\ Len(src) + size < b.alloc
        /\ size + Len(src) \in 0..(b.alloc - 1) /\ size + Len(src) >= Len(src)
    BY <1>1, <2>1, <2>2, <2>3
  <2>5. Moved(b, src) \in Block(b.alloc)
    BY <1>1, <2>1, <2>3, StrMoveType, FillType, NULType
  <2>6. Moved(b, src)[size + Len(src)] = NUL
    <3>1. CASE size # 0
      BY <1>1, <2>1, <2>3, <2>4, <3>1, StrMoveTerminates
    <3>2. CASE size = 0
      <4>1. size + Len(src) = Len(src)
        BY <2>1, <3>2
      <4> QED BY <2>3, <2>4, <3>2, <4>1, FillSets
    <3> QED BY <3>1, <3>2
  <2> QED BY <2>1, <2>3, <2>4, <2>5, <2>6, CopyLeaves
<1>3. PICK src \in Srcs :
        \/ \E b \in Reserved(Buffer, size + Len(src) + 1) :
             Return("prepend_len", b, Copy(Moved(b, src), 0, src),
                    size + Len(src), size + Len(src) + 1)
        \/ Fail("prepend_len")
  BY DEF PrependLen
<1> QED BY <1>2, <1>3, FailTerminated, ReturnTerminated

(***************************************************************************)
(* The calls that work in the block as it is, and jstr_pushbackn, which    *)
(* KeepsTerminator excepts.                                                *)
(***************************************************************************)

LEMMA PushBackNExcepted == ASSUME Terminated, PushBackN PROVE Kept
BY FailTerminated DEF PushBackN, Return, Kept

(* The first NUL is not behind the terminator, and memset stops before it. *)
LEMMA StrSetTerminated == ASSUME IInv, Terminated, StrSet PROVE Kept
<1>1. /\ size \in Nat /\ alloc \in Nat /\ data \in Block(alloc)
      /\ size \in 0..(alloc - 1) /\ data[size] = NUL
  BY DEF IInv, TypeOK, RoomForNul, Terminated
<1>2. PICK n \in 0..(alloc - 1), c \in Char :
        /\ \A i \in 0..(n - 1) : data[i] \in Char
        /\ Return("strset", Buffer, Fill(data, 0, c, n), size, n + 1)
  BY DEF StrSet
<1>3. n \in Nat /\ ~(size < n)
  BY <1>1, <1>2, BytesDistinct
<1>4. size >= 0 + n
  BY <1>1, <1>3
<1>5. Fill(data, 0, c, n)[size] = NUL
  BY <1>1, <1>3, <1>4, FillLeaves
<1> QED BY <1>2, <1>5, ReturnTerminated

LEMMA AssignNChrTerminated == ASSUME IInv, Terminated, AssignNChr PROVE Kept
<1> DEFINE New(b, c, n) == Fill(Fill(b.data, 0, c, n), n, NUL, 1)
<1>1. /\ Callable /\ size \in Nat /\ alloc \in Nat /\ size < alloc
  BY DEF AssignNChr, IInv, TypeOK, RoomForNul, Terminated
<1>2. PICK c \in Char, n \in 0..MaxN :
        \/ \E b \in IF n > size THEN ReservedAlways(Buffer, n + 1) ELSE {Buffer} :
             Return("assignnchr", b, New(b, c, n), n, n + 1)
        \/ Fail("assignnchr")
  BY DEF AssignNChr
<1>3. n \in Nat /\ n + 1 \in Nat /\ c \in Byte
  BY RepeatAssumption DEF Byte
<1>4. ASSUME NEW b, Sound(b), n < b.alloc PROVE New(b, c, n)[n] = NUL
  <2>1. Fill(b.data, 0, c, n) \in Block(b.alloc)
    BY <1>3, <1>4, FillType DEF Sound
  <2>2. n \in 0..(b.alloc - 1)
    BY <1>3, <1>4 DEF Sound
  <2> QED BY <1>4, <2>1, <2>2, FillSets DEF Sound
<1>5. ASSUME NEW b \in ReservedAlways(Buffer, n + 1) PROVE Sound(b) /\ n < b.alloc
  <2>1. Sound(b) /\ b.alloc >= n + 1
    BY <1>1, <1>3, ReservedAlwaysSound
  <2> QED BY <1>3, <2>1 DEF Sound
<1>6. n <= size => Sound(Buffer) /\ n < Buffer.alloc
  BY <1>1, <1>3, BufferSound
<1>7. CASE n > size
  BY <1>2, <1>4, <1>5, <1>7, FailTerminated, ReturnTerminated
<1>8. CASE ~(n > size)
  <2>1. Sound(Buffer) /\ n < Buffer.alloc
    BY <1>1, <1>3, <1>6, <1>8
  <2>2. Return("assignnchr", Buffer, New(Buffer, c, n), n, n + 1) \/ Fail("assignnchr")
    BY <1>2, <1>8
  <2> QED BY <1>4, <2>1, <2>2, FailTerminated, ReturnTerminated
<1> QED BY <1>7, <1>8

LEMMA ShortensTerminated ==
  ASSUME IInv, Terminated, PopBack \/ PopFront \/ Empty PROVE Kept
<1>1. /\ size \in Nat /\ alloc \in Nat /\ data \in Block(alloc)
      /\ size < alloc /\ data[size] = NUL
  BY DEF IInv, TypeOK, RoomForNul, Terminated
<1>2. CASE PopBack
  <2>1. size # 0 => Fill(data, size - 1, NUL, 1)[size - 1] = NUL
    BY <1>1, FillSets
  <2> QED BY <1>1, <1>2, <2>1, ReturnTerminated DEF PopBack
<1>3. CASE PopFront
  <2>1. size # 0 => Move(data, 0, 1, size)[size - 1] = NUL
    BY <1>1 DEF Move, Block
  <2> QED BY <1>1, <1>3, <2>1, ReturnTerminated DEF PopFront
<1>4. CASE Empty
  <2>1. Fill(data, 0, NUL, 1)[0] = NUL
    BY <1>1, FillSets
  <2> QED BY <1>4, <2>1, ReturnTerminated DEF Empty
<1> QED BY <1>2, <1>3, <1>4

(***************************************************************************)
(* The theorem.                                                            *)
(***************************************************************************)

LEMMA NextTerminated == ASSUME IInv, Terminated, Next PROVE Kept
BY AppendsTerminated, CatsTerminated, PrintsTerminated, ReservesTerminated,
   FreeTerminated, PushFrontTerminated, PushFrontNTerminated, PrependLenTerminated,
   PushBackNExcepted, StrSetTerminated, AssignNChrTerminated, ShortensTerminated
   DEF Next

(* A string that is NUL terminated at its size stays so through every call, *)
(* but for jstr_pushbackn and a formatting call that failed half way.       *)
THEOREM StaysTerminated == Spec => KeepsTerminator
<1>1. IInv /\ [Next]_vars => [Terminated => Kept]_vars
  BY NextTerminated
<1>2. [Terminated => Kept]_vars
        => [(alloc # 0 /\ data[size] = NUL)
              => \/ alloc' = 0
                 \/ data'[size'] = NUL
                 \/ last'.op = "pushbackn"
                 \/ last'.ret = "ERR" /\ last'.op \in PrintOps]_vars
  BY DEF Terminated, Kept
<1> QED BY <1>1, <1>2, Inductive, PTL DEF Spec, KeepsTerminator

-----------------------------------------------------------------------------

(***************************************************************************)
(* JstrBuilder implements JString.  A block spells a string when its first *)
(* bytes are the string's characters.                                      *)
(***************************************************************************)

Spells(m, s) == s \in Seq(Char) /\ \A k \in 1..Len(s) : m[k - 1] = s[k]

(* The contents, which are characters: no NUL is among them. *)
Text == Prefix(data, size)

Contents == \A k \in 0..(size - 1) : data[k] \in Char

LEMMA TextSpelled ==
  ASSUME size \in Nat, Contents
  PROVE  Spells(data, Text) /\ Len(Text) = size
BY PrefixIsSeq DEF Spells, Contents, Text

(* A call leaves what it has spelled in the block it has worked in. *)
LEMMA SpelledIsText ==
  ASSUME NEW s, Spells(data', s), size' = Len(s)
  PROVE  Text' = s /\ Contents'
<1>1. Prefix(data', Len(s)) = s
  BY PrefixIs DEF Spells
<1>2. \A k \in 0..(Len(s) - 1) : data'[k] \in Char
  <2> TAKE k \in 0..(Len(s) - 1)
  <2>1. k + 1 \in 1..Len(s) /\ (k + 1) - 1 = k /\ s[k + 1] \in Char
    BY DEF Spells
  <2> QED BY <2>1 DEF Spells
<1> QED BY <1>1, <1>2 DEF Text, Contents

LEMMA ReturnText ==
  ASSUME NEW op, NEW b, NEW d, NEW extent, NEW s, NEW sz, Spells(d, s), sz = Len(s),
         Return(op, b, d, sz, extent)
  PROVE  Text' = s /\ Contents' /\ last' = [op |-> op, ret |-> "SUCC"]
BY SpelledIsText DEF Return

(***************************************************************************)
(* What the helpers make of a block that spells a string.                  *)
(***************************************************************************)

LEMMA SpellsPart ==
  ASSUME NEW m, NEW s, Spells(m, s), NEW n \in 0..Len(s)
  PROVE  Spells(m, SubSeq(s, 1, n)) /\ Len(SubSeq(s, 1, n)) = n
<1>1. s \in Seq(Char)
  BY DEF Spells
<1>2. SubSeq(s, 1, n) \in Seq(Char) /\ Len(SubSeq(s, 1, n)) = n
      /\ \A k \in 1..n : SubSeq(s, 1, n)[k] = s[k]
  BY <1>1
<1>3. \A k \in 1..n : k \in 1..Len(s)
  BY <1>1
<1>4. \A k \in 1..n : m[k - 1] = SubSeq(s, 1, n)[k]
  BY <1>2, <1>3 DEF Spells
<1> QED BY <1>2, <1>4 DEF Spells

(* A string and what follows it. *)
LEMMA SpellsConcat ==
  ASSUME NEW m, NEW s, Spells(m, s), NEW t \in Seq(Char),
         \A k \in 1..Len(t) : m[Len(s) + k - 1] = t[k]
  PROVE  Spells(m, s \o t) /\ Len(s \o t) = Len(s) + Len(t)
<1>1. s \in Seq(Char) /\ Len(s) \in Nat /\ Len(t) \in Nat
  BY DEF Spells
<1>2. /\ s \o t \in Seq(Char) /\ Len(s \o t) = Len(s) + Len(t)
      /\ \A k \in 1..(Len(s) + Len(t)) :
           (s \o t)[k] = IF k <= Len(s) THEN s[k] ELSE t[k - Len(s)]
  BY <1>1, ConcatProperties
<1>3. ASSUME NEW k \in 1..(Len(s) + Len(t))
      PROVE  m[k - 1] = (s \o t)[k]
  <2>1. CASE k <= Len(s)
    <3>1. k \in 1..Len(s)
      BY <1>1, <2>1
    <3> QED BY <1>2, <2>1, <3>1 DEF Spells
  <2>2. CASE ~(k <= Len(s))
    <3>0. k - Len(s) \in 1..Len(t)
      BY <1>1, <2>2
    <3>1. PICK j \in 1..Len(t) : j = k - Len(s)
      BY <3>0
    <3>2. Len(s) + j - 1 = k - 1
      BY <1>1, <3>1
    <3>3. m[Len(s) + j - 1] = t[j]
      OBVIOUS
    <3> QED BY <1>2, <2>2, <3>1, <3>2, <3>3
  <2> QED BY <2>1, <2>2
<1> QED BY <1>2, <1>3 DEF Spells

LEMMA SpellsSame ==
  ASSUME NEW m, NEW d, NEW s, Spells(m, s), \A k \in 0..(Len(s) - 1) : d[k] = m[k]
  PROVE  Spells(d, s)
<1>1. Len(s) \in Nat
  BY DEF Spells
<1>2. \A k \in 1..Len(s) : k - 1 \in 0..(Len(s) - 1)
  BY <1>1
<1> QED BY <1>2 DEF Spells

(* jstr_strcpy_len behind a string appends to it. *)
LEMMA StrCpySpells ==
  ASSUME NEW n \in Nat, NEW m \in Block(n), NEW s, Spells(m, s), NEW src \in Seq(Char),
         Len(s) + Len(src) <= n
  PROVE  Spells(StrCpy(m, Len(s), src), s \o src) /\ Len(s \o src) = Len(s) + Len(src)
<1>1. s \in Seq(Char) /\ Len(s) \in Nat /\ Len(src) \in Nat
  BY DEF Spells
<1>2. PICK dst \in Nat : dst = Len(s)
  BY <1>1
<1>3. \A k \in 0..(n - 1) :
        StrCpy(m, dst, src)[k]
          = IF k = dst + Len(src) THEN NUL
            ELSE IF dst <= k /\ k < dst + Len(src) THEN src[k - dst + 1] ELSE m[k]
  BY StrCpyByte
<1>4. \A k \in 0..(dst - 1) : StrCpy(m, dst, src)[k] = m[k]
  <2> TAKE k \in 0..(dst - 1)
  <2>1. k \in 0..(n - 1) /\ k # dst + Len(src) /\ ~(dst <= k)
    BY <1>1, <1>2
  <2> QED BY <1>3, <2>1
<1>5. Spells(StrCpy(m, dst, src), s)
  BY <1>2, <1>4, SpellsSame
<1>6. \A k \in 1..Len(src) : StrCpy(m, dst, src)[dst + k - 1] = src[k]
  <2> TAKE k \in 1..Len(src)
  <2>1. /\ dst + k - 1 \in 0..(n - 1) /\ dst + k - 1 # dst + Len(src)
        /\ dst <= dst + k - 1 /\ dst + k - 1 < dst + Len(src)
        /\ (dst + k - 1) - dst + 1 = k
    BY <1>1, <1>2
  <2> QED BY <1>3, <2>1
<1> QED BY <1>2, <1>5, <1>6, SpellsConcat

LEMMA TimesType ==
  ASSUME NEW c \in Char, NEW k \in Nat
  PROVE  /\ Abstract!Times(c, k) \in Seq(Char) /\ Len(Abstract!Times(c, k)) = k
         /\ \A j \in 1..k : Abstract!Times(c, k)[j] = c
<1>1. Abstract!Times(c, k) \in [1..k -> Char]
  BY DEF Abstract!Times
<1>2. Abstract!Times(c, k) \in Seq(Char)
  BY <1>1
<1>3. DOMAIN Abstract!Times(c, k) = 1..k
  BY DEF Abstract!Times
<1> QED BY <1>2, <1>3, LenProperties DEF Abstract!Times

(* memset behind a string. *)
LEMMA FillSpells ==
  ASSUME NEW n \in Nat, NEW m \in Block(n), NEW s, Spells(m, s), NEW c \in Char,
         NEW k \in Nat, Len(s) + k <= n
  PROVE  /\ Spells(Fill(m, Len(s), c, k), s \o Abstract!Times(c, k))
         /\ Len(s \o Abstract!Times(c, k)) = Len(s) + k
<1>1. s \in Seq(Char) /\ Len(s) \in Nat
  BY DEF Spells
<1>2. PICK dst \in Nat : dst = Len(s)
  BY <1>1
<1>3. PICK t \in Seq(Char) : t = Abstract!Times(c, k) /\ Len(t) = k /\ \A j \in 1..k : t[j] = c
  BY TimesType
<1>4. \A j \in 0..(n - 1) :
        Fill(m, dst, c, k)[j] = IF dst <= j /\ j < dst + k THEN c ELSE m[j]
  BY FillByte
<1>5. \A j \in 0..(dst - 1) : Fill(m, dst, c, k)[j] = m[j]
  <2> TAKE j \in 0..(dst - 1)
  <2>1. j \in 0..(n - 1) /\ ~(dst <= j)
    BY <1>2
  <2> QED BY <1>4, <2>1
<1>6. Spells(Fill(m, dst, c, k), s)
  BY <1>2, <1>5, SpellsSame
<1>7. \A j \in 1..k : Fill(m, dst, c, k)[dst + j - 1] = t[j]
  <2> TAKE j \in 1..k
  <2>1. dst + j - 1 \in 0..(n - 1) /\ dst <= dst + j - 1 /\ dst + j - 1 < dst + k
    BY <1>2
  <2> QED BY <1>3, <1>4, <2>1
<1>8. \A j \in 1..Len(t) : Fill(m, dst, c, k)[Len(s) + j - 1] = t[j]
  BY <1>2, <1>3, <1>7
<1>9. Spells(Fill(m, dst, c, k), s \o t) /\ Len(s \o t) = Len(s) + Len(t)
  BY <1>6, <1>8, SpellsConcat
<1> QED BY <1>2, <1>3, <1>9

(* Nothing is spelled by every block. *)
LEMMA SpellsNothing == ASSUME NEW m PROVE Spells(m, <<>>) /\ Len(<<>>) = 0
BY EmptySeq DEF Spells

(***************************************************************************)
(* The block a call works in spells what the string's own did.             *)
(***************************************************************************)

LEMMA InvSpells ==
  ASSUME IInv, Contents
  PROVE  /\ Text \in Seq(Char) /\ Len(Text) = size /\ Spells(data, Text)
         /\ size \in Nat /\ alloc \in Nat /\ data \in Block(alloc)
         /\ size <= alloc /\ (alloc # 0 => size < alloc)
<1>1. size \in Nat /\ alloc \in Nat /\ data \in Block(alloc)
  BY DEF IInv, TypeOK
<1>2. Spells(data, Text) /\ Len(Text) = size
  BY <1>1, TextSpelled
<1> QED BY <1>1, <1>2 DEF Spells, IInv, RoomForNul

LEMMA MovedSpells ==
  ASSUME IInv, Contents, NEW m, \A k \in 0..(size - 1) : m[k] = data[k]
  PROVE  Spells(m, Text)
BY InvSpells, SpellsSame

LEMMA ReservedSpells ==
  ASSUME IInv, Callable, Contents, NEW need \in Nat, NEW b \in Reserved(Buffer, need)
  PROVE  /\ Spells(b.data, Text) /\ b.data \in Block(b.alloc)
         /\ b.alloc \in Nat /\ b.alloc >= need
<1>1. Sound(Buffer) /\ Buffer.data = data /\ Buffer.alloc = alloc
  BY BufferSound
<1>2. \A k \in 0..(alloc - 1) : b.data[k] = data[k]
  BY <1>1, ReservedLeaves
<1>3. \A k \in 0..(size - 1) : b.data[k] = data[k]
  <2>1. \A k \in 0..(size - 1) : k \in 0..(alloc - 1)
    BY InvSpells
  <2> QED BY <1>2, <2>1
<1> QED BY <1>3, MovedSpells, ReservedSound DEF Sound

LEMMA ReservedAlwaysSpells ==
  ASSUME IInv, Callable, Contents, NEW need \in Nat, NEW b \in ReservedAlways(Buffer, need)
  PROVE  /\ Spells(b.data, Text) /\ b.data \in Block(b.alloc)
         /\ b.alloc \in Nat /\ b.alloc >= need
<1>1. Sound(Buffer) /\ Buffer.data = data /\ Buffer.alloc = alloc
  BY BufferSound
<1>2. \A k \in 0..(alloc - 1) : b.data[k] = data[k]
  BY <1>1, ReservedAlwaysLeaves
<1>3. \A k \in 0..(size - 1) : b.data[k] = data[k]
  <2>1. \A k \in 0..(size - 1) : k \in 0..(alloc - 1)
    BY InvSpells
  <2> QED BY <1>2, <2>1
<1> QED BY <1>3, MovedSpells, ReservedAlwaysSound DEF Sound

LEMMA ReservedExactAlwaysSpells ==
  ASSUME IInv, Callable, Contents, NEW need \in Nat, NEW b \in ReservedExactAlways(need),
         need = 0 \/ need > size
  PROVE  Spells(b.data, Text)
<1>1. CASE need = 0
  <2>1. b.data = data
    BY <1>1 DEF ReservedExactAlways, Buffer
  <2> QED BY <2>1, InvSpells
<1>2. CASE need # 0
  <2>1. b.data = Realloc(data, alloc, need)
    BY <1>2 DEF ReservedExactAlways, Resized, Buffer
  <2>2. ASSUME NEW k \in 0..(size - 1)
        PROVE  Realloc(data, alloc, need)[k] = data[k]
    <3>1. k \in 0..(need - 1) /\ k < alloc /\ alloc \in Nat
      BY <1>2, InvSpells
    <3> QED BY <3>1, ReallocKeeps
  <2> QED BY <2>1, <2>2, MovedSpells
<1> QED BY <1>1, <1>2

LEMMA ReservedExactSpells ==
  ASSUME IInv, Callable, Contents, NEW need \in Nat, NEW b \in ReservedExact(need)
  PROVE  Spells(b.data, Text)
<1>1. capacity = alloc
  BY BufferSound
<1>2. CASE need < capacity
  <2>1. b.data = data
    BY <1>2 DEF ReservedExact, Buffer
  <2> QED BY <2>1, InvSpells
<1>3. CASE ~(need < capacity)
  <2>1. need = 0 \/ need > size
    BY <1>1, <1>3, InvSpells DEF IInv, RoomForNul
  <2> QED BY <1>3, <2>1, ReservedExactAlwaysSpells DEF ReservedExact
<1> QED BY <1>2, <1>3

(***************************************************************************)
(* One lemma for each operation.                                           *)
(***************************************************************************)

Refined == Abstract!Next /\ Contents'

LEMMA FailRefined ==
  ASSUME Contents, NEW op, Fail(op)
  PROVE  Refined
<1>1. UNCHANGED <<data, size>> /\ last'.ret = "ERR"
  BY DEF Fail
<1>2. Contents'
  BY <1>1 DEF Contents
<1> QED BY <1>1, <1>2 DEF Refined, Abstract!Next, Abstract!Error

LEMMA FailExactRefined ==
  ASSUME Contents, NEW op, NEW need, FailExact(op, need)
  PROVE  Refined
<1>1. UNCHANGED <<data, size>> /\ last'.ret = "ERR"
  BY DEF FailExact
<1>2. Contents'
  BY <1>1 DEF Contents
<1> QED BY <1>1, <1>2 DEF Refined, Abstract!Next, Abstract!Error

(* The text is the same in a block of another size. *)
LEMMA KeepRefined ==
  ASSUME IInv, Contents,
         NEW op \in {"reserve", "reservealways", "reserveexact", "reserveexactalways",
                     "shrink_to_fit"},
         NEW b, Spells(b.data, Text), NEW extent, Return(op, b, b.data, size, extent)
  PROVE  Refined
<1>1. Text' = Text /\ Contents' /\ last' = [op |-> op, ret |-> "SUCC"]
  BY InvSpells, ReturnText
<1>2. Abstract!Keep
  BY <1>1 DEF Abstract!Keep, Abstract!Becomes, Text
<1> QED BY <1>1, <1>2 DEF Refined, Abstract!Next

LEMMA ReservesRefined ==
  ASSUME IInv, Contents,
         Reserve \/ ReserveAlways \/ ReserveExact \/ ReserveExactAlways \/ ShrinkToFit
  PROVE  Refined
<1>1. Callable /\ size \in Nat /\ MaxCap \in Nat
  BY BoundsAssumption DEF Reserve, ReserveAlways, ReserveExact, ReserveExactAlways, ShrinkToFit,
                          IInv, TypeOK
<1>2. CASE Reserve
  <2>1. ASSUME NEW need \in 0..MaxCap, NEW b \in Reserved(Buffer, need),
               Return("reserve", b, b.data, size, 0)
        PROVE  Refined
    BY <1>1, <2>1, ReservedSpells, KeepRefined
  <2> QED BY <1>2, <2>1, FailRefined DEF Reserve
<1>3. CASE ReserveAlways
  <2>1. ASSUME NEW need \in 0..MaxCap, NEW b \in ReservedAlways(Buffer, need),
               Return("reservealways", b, b.data, size, 0)
        PROVE  Refined
    BY <1>1, <2>1, ReservedAlwaysSpells, KeepRefined
  <2> QED BY <1>3, <2>1, FailRefined DEF ReserveAlways
<1>4. CASE ReserveExact
  <2>1. ASSUME NEW need \in 0..MaxCap, NEW b \in ReservedExact(need),
               Return("reserveexact", b, b.data, size, 0)
        PROVE  Refined
    BY <1>1, <2>1, ReservedExactSpells, KeepRefined
  <2> QED BY <1>4, <2>1, FailExactRefined DEF ReserveExact
<1>5. CASE ReserveExactAlways
  <2>1. ASSUME NEW need \in {0} \cup (size + 1)..MaxCap,
               NEW b \in ReservedExactAlways(need),
               Return("reserveexactalways", b, b.data, size, 0)
        PROVE  Refined
    <3>1. need \in Nat /\ (need = 0 \/ need > size)
      BY <1>1
    <3> QED BY <1>1, <2>1, <3>1, ReservedExactAlwaysSpells, KeepRefined
  <2> QED BY <1>5, <2>1, FailExactRefined DEF ReserveExactAlways
<1>6. CASE ShrinkToFit
  <2>1. ASSUME NEW b \in ReservedExactAlways(size + 1),
               Return("shrink_to_fit", b, b.data, size, 0)
        PROVE  Refined
    <3>1. size + 1 \in Nat /\ size + 1 > size
      BY <1>1
    <3> QED BY <1>1, <2>1, <3>1, ReservedExactAlwaysSpells, KeepRefined
  <2> QED BY <1>6, <2>1, FailExactRefined DEF ShrinkToFit
<1> QED BY <1>2, <1>3, <1>4, <1>5, <1>6

(* The text is gone. *)
LEMMA ClearRefined ==
  ASSUME size' = 0, NEW op \in {"empty", "free"}, last' = [op |-> op, ret |-> "SUCC"]
  PROVE  Refined
<1>1. Text' = <<>> /\ Contents'
  BY SpellsNothing, SpelledIsText
<1>2. Abstract!Clear
  BY <1>1 DEF Abstract!Clear, Abstract!Becomes, Text
<1> QED BY <1>1, <1>2 DEF Refined, Abstract!Next

LEMMA FreeRefined == ASSUME Free PROVE Refined
BY ClearRefined DEF Free

LEMMA EmptyRefined == ASSUME Empty PROVE Refined
BY ClearRefined DEF Empty, Return

(* Text is appended in the space reserved for it. *)
LEMMA AppendText ==
  ASSUME IInv, Callable, Contents, NEW op, NEW src \in Seq(Char), NEW need \in Nat,
         need >= size + Len(src), NEW b \in Reserved(Buffer, need), NEW extent,
         Return(op, b, StrCpy(b.data, size, src), size + Len(src), extent)
  PROVE  Text' = Text \o src /\ Contents' /\ last' = [op |-> op, ret |-> "SUCC"]
<1>1. /\ Spells(b.data, Text) /\ b.data \in Block(b.alloc)
      /\ b.alloc \in Nat /\ b.alloc >= need
  BY ReservedSpells
<1>2. size \in Nat /\ Len(Text) = size /\ Len(src) \in Nat
  BY InvSpells
<1>3. Len(Text) + Len(src) <= b.alloc
  BY <1>1, <1>2
<1>4. Spells(StrCpy(b.data, Len(Text), src), Text \o src)
      /\ Len(Text \o src) = Len(Text) + Len(src)
  BY <1>1, <1>3, StrCpySpells
<1> QED BY <1>2, <1>4, ReturnText

LEMMA AppendLenRefined == ASSUME IInv, Contents, AppendLen PROVE Refined
<1>1. Callable /\ size \in Nat
  BY DEF AppendLen, IInv, TypeOK
<1>2. ASSUME NEW src \in Srcs, NEW b \in Reserved(Buffer, size + Len(src) + 1),
             Return("append_len", b, StrCpy(b.data, size, src),
                    size + Len(src), size + Len(src) + 1)
      PROVE  Refined
  <2>1. src \in Seq(Char) /\ size + Len(src) + 1 \in Nat /\ size + Len(src) + 1 >= size + Len(src)
    BY <1>1, SrcsAssumption
  <2>2. Text' = Text \o src /\ Contents' /\ last' = [op |-> "append_len", ret |-> "SUCC"]
    BY <1>1, <1>2, <2>1, AppendText
  <2>3. Abstract!AppendStr
    BY <2>2 DEF Abstract!AppendStr, Abstract!Becomes, Text
  <2> QED BY <2>2, <2>3 DEF Refined, Abstract!Next
<1> QED BY <1>2, FailRefined DEF AppendLen

LEMMA PushBackRefined == ASSUME IInv, Contents, PushBack PROVE Refined
<1>1. Callable /\ size \in Nat
  BY DEF PushBack, IInv, TypeOK
<1>2. ASSUME NEW c \in Char, NEW b \in Reserved(Buffer, size + 1 + 1),
             Return("pushback", b, StrCpy(b.data, size, <<c>>), size + 1, size + 2)
      PROVE  Refined
  <2>1. /\ <<c>> \in Seq(Char) /\ Len(<<c>>) = 1 /\ size + 1 + 1 \in Nat
        /\ size + 1 + 1 >= size + Len(<<c>>)
    BY <1>1
  <2>2. Text' = Text \o <<c>> /\ Contents' /\ last' = [op |-> "pushback", ret |-> "SUCC"]
    BY <1>1, <1>2, <2>1, AppendText
  <2>3. Append(Text, c) = Text \o <<c>>
    BY InvSpells
  <2>4. Abstract!Append1
    BY <2>2, <2>3 DEF Abstract!Append1, Abstract!Becomes, Text
  <2> QED BY <2>2, <2>4 DEF Refined, Abstract!Next
<1> QED BY <1>2, FailRefined DEF PushBack

(* Two strings, one behind the other. *)
LEMMA TwoRefined ==
  ASSUME IInv, Contents, NEW x \in Srcs, NEW y \in Srcs, NEW op \in {"cat", "internal_cat"},
         Text' = Text \o (x \o y), Contents', last' = [op |-> op, ret |-> "SUCC"]
  PROVE  Refined
<1>0. Text \in Seq(Char) /\ x \in Seq(Char) /\ y \in Seq(Char)
  BY InvSpells, SrcsAssumption
<1>1. Text \o (x \o y) = (Text \o x) \o y
  BY <1>0, ConcatAssociative, SMTT(30)
<1>2. Abstract!AppendStrs
  BY <1>1 DEF Abstract!AppendStrs, Abstract!Becomes, Text
<1> QED BY <1>2 DEF Refined, Abstract!Next

LEMMA CatRefined == ASSUME IInv, Contents, Cat PROVE Refined
<1>1. Callable /\ size \in Nat
  BY DEF Cat, IInv, TypeOK
<1>2. PICK x \in Srcs, y \in Srcs :
        \/ x \o y = <<>> /\ Return("cat", Buffer, data, size, 0)
        \/ \E b \in Reserved(Buffer, size + Len(x \o y) + 1) :
             Return("cat", b, StrCpy(b.data, size, x \o y),
                    size + Len(x \o y), size + Len(x \o y) + 1)
        \/ Fail("cat")
  BY DEF Cat
<1>3. x \o y \in Seq(Char) /\ Len(x \o y) \in Nat
  BY SrcsAssumption
<1>4. CASE x \o y = <<>> /\ Return("cat", Buffer, data, size, 0)
  <2>1. Text' = Text /\ Contents' /\ last' = [op |-> "cat", ret |-> "SUCC"]
    BY <1>4, InvSpells, ReturnText
  <2>2. Text \o (x \o y) = Text
    BY <1>4, InvSpells, ConcatEmptySeq
  <2> QED BY <2>1, <2>2, TwoRefined
<1>5. ASSUME NEW b \in Reserved(Buffer, size + Len(x \o y) + 1),
             Return("cat", b, StrCpy(b.data, size, x \o y),
                    size + Len(x \o y), size + Len(x \o y) + 1)
      PROVE  Refined
  <2>1. size + Len(x \o y) + 1 \in Nat /\ size + Len(x \o y) + 1 >= size + Len(x \o y)
    BY <1>1, <1>3
  <2>2. Text' = Text \o (x \o y) /\ Contents' /\ last' = [op |-> "cat", ret |-> "SUCC"]
    BY <1>1, <1>3, <1>5, <2>1, AppendText
  <2> QED BY <2>2, TwoRefined
<1> QED BY <1>2, <1>4, <1>5, FailRefined

LEMMA InternalCatRefined == ASSUME IInv, Contents, InternalCat PROVE Refined
<1>1. Callable /\ size \in Nat
  BY DEF InternalCat, IInv, TypeOK
<1>2. ASSUME NEW b \in Reserved(Buffer, size + 1), Return("internal_cat", b, b.data, size, 0)
      PROVE  Refined
  <2>1. size + 1 \in Nat
    BY <1>1
  <2>2. Text' = Text /\ Contents' /\ last' = [op |-> "internal_cat", ret |-> "SUCC"]
    BY <1>1, <1>2, <2>1, InvSpells, ReservedSpells, ReturnText
  <2>3. Abstract!AppendNone
    BY <2>2 DEF Abstract!AppendNone, Abstract!Becomes, Text
  <2> QED BY <2>2, <2>3 DEF Refined, Abstract!Next
<1>3. ASSUME NEW x \in Srcs, NEW y \in Srcs, NEW b \in Reserved(Buffer, size + Len(x \o y) + 1),
             Return("internal_cat", b, StrCpy(b.data, size, x \o y),
                    size + Len(x \o y), size + Len(x \o y) + 1)
      PROVE  Refined
  <2>1. x \o y \in Seq(Char) /\ Len(x \o y) \in Nat
    BY SrcsAssumption
  <2>2. size + Len(x \o y) + 1 \in Nat /\ size + Len(x \o y) + 1 >= size + Len(x \o y)
    BY <1>1, <2>1
  <2>3. Text' = Text \o (x \o y) /\ Contents' /\ last' = [op |-> "internal_cat", ret |-> "SUCC"]
    BY <1>1, <1>3, <2>1, <2>2, AppendText
  <2> QED BY <2>3, TwoRefined
<1> QED BY <1>2, <1>3, FailRefined DEF InternalCat

LEMMA PushBackNRefined == ASSUME IInv, Contents, PushBackN PROVE Refined
<1>1. Callable /\ size \in Nat /\ MaxN \in Nat
  BY RepeatAssumption DEF PushBackN, IInv, TypeOK
<1>2. ASSUME NEW c \in Char, NEW n \in 0..MaxN, NEW b \in Reserved(Buffer, size + n + 1),
             Return("pushbackn", b, Fill(b.data, size, c, n), size + n, size + n)
      PROVE  Refined
  <2>1. n \in Nat /\ size + n + 1 \in Nat
    BY <1>1
  <2>2. /\ Spells(b.data, Text) /\ b.data \in Block(b.alloc)
        /\ b.alloc \in Nat /\ b.alloc >= size + n + 1
    BY <1>1, <2>1, ReservedSpells
  <2>3. Len(Text) = size /\ size + n <= b.alloc
    BY <1>1, <2>1, <2>2, InvSpells
  <2>4. Spells(Fill(b.data, size, c, n), Text \o Abstract!Times(c, n))
        /\ Len(Text \o Abstract!Times(c, n)) = size + n
    BY <2>1, <2>2, <2>3, FillSpells
  <2>5. /\ Text' = Text \o Abstract!Times(c, n) /\ Contents'
        /\ last' = [op |-> "pushbackn", ret |-> "SUCC"]
    BY <1>2, <2>4, ReturnText
  <2>6. Abstract!AppendN
    BY <2>5 DEF Abstract!AppendN, Abstract!Becomes, Text
  <2> QED BY <2>5, <2>6 DEF Refined, Abstract!Next
<1> QED BY <1>2, FailRefined DEF PushBackN

(* jstr_strcpy_len to the beginning of the block. *)
LEMMA AssignSpells ==
  ASSUME NEW n \in Nat, NEW m \in Block(n), NEW src \in Seq(Char), Len(src) <= n
  PROVE  Spells(StrCpy(m, 0, src), src)
<1>1. Spells(m, <<>>) /\ Len(<<>>) = 0
  BY SpellsNothing
<1>2. Len(src) \in Nat /\ 0 + Len(src) <= n
  OBVIOUS
<1>3. PICK e : e = <<>>
  OBVIOUS
<1>4. Spells(StrCpy(m, Len(e), src), e \o src)
  BY <1>1, <1>2, <1>3, StrCpySpells
<1>5. e \o src = src
  BY <1>3, ConcatEmptySeq
<1> QED BY <1>1, <1>3, <1>4, <1>5

LEMMA AssignLenRefined == ASSUME IInv, Contents, AssignLen PROVE Refined
<1>1. Callable /\ size \in Nat
  BY DEF AssignLen, IInv, TypeOK
<1>2. ASSUME NEW src \in Srcs, NEW b \in Reserved(Buffer, size + Len(src) + 1),
             Return("assign_len", b, StrCpy(b.data, 0, src), Len(src), Len(src) + 1)
      PROVE  Refined
  <2>1. src \in Seq(Char) /\ Len(src) \in Nat /\ size + Len(src) + 1 \in Nat
    BY <1>1, SrcsAssumption
  <2>2. /\ b.data \in Block(b.alloc) /\ b.alloc \in Nat /\ b.alloc >= size + Len(src) + 1
    BY <1>1, <2>1, ReservedSpells
  <2>3. Len(src) <= b.alloc
    BY <1>1, <2>1, <2>2
  <2>4. Text' = src /\ Contents' /\ last' = [op |-> "assign_len", ret |-> "SUCC"]
    BY <1>2, <2>1, <2>2, <2>3, AssignSpells, ReturnText
  <2>5. Abstract!AssignStr
    BY <2>4 DEF Abstract!AssignStr, Abstract!Becomes, Text
  <2> QED BY <2>4, <2>5 DEF Refined, Abstract!Next
<1> QED BY <1>2, FailRefined DEF AssignLen

(* memset from the beginning of the block. *)
LEMMA SetSpells ==
  ASSUME NEW n \in Nat, NEW m \in Block(n), NEW c \in Char, NEW k \in Nat,
         NEW len \in Nat, len <= k, len <= n
  PROVE  Spells(Fill(m, 0, c, k), Abstract!Times(c, len)) /\ Len(Abstract!Times(c, len)) = len
<1>1. /\ Abstract!Times(c, len) \in Seq(Char) /\ Len(Abstract!Times(c, len)) = len
      /\ \A j \in 1..len : Abstract!Times(c, len)[j] = c
  BY TimesType
<1>2. \A j \in 1..len : Fill(m, 0, c, k)[j - 1] = c
  <2> TAKE j \in 1..len
  <2>1. j - 1 \in DOMAIN m /\ 0 <= j - 1 /\ j - 1 < 0 + k
    BY DEF Block
  <2> QED BY <2>1 DEF Fill
<1> QED BY <1>1, <1>2 DEF Spells

(* A terminator behind the string spells the same. *)
LEMMA EndedSpells ==
  ASSUME NEW n \in Nat, NEW m \in Block(n), NEW s, Spells(m, s), NEW at \in Nat,
         Len(s) <= at, Len(s) <= n, NEW c
  PROVE  Spells(Fill(m, at, c, 1), s)
<1>1. Len(s) \in Nat
  BY DEF Spells
<1>2. \A k \in 0..(Len(s) - 1) : Fill(m, at, c, 1)[k] = m[k]
  <2> TAKE k \in 0..(Len(s) - 1)
  <2>1. k \in DOMAIN m /\ ~(at <= k)
    BY <1>1 DEF Block
  <2> QED BY <2>1 DEF Fill
<1> QED BY <1>2, SpellsSame

LEMMA AssignNChrRefined == ASSUME IInv, Contents, AssignNChr PROVE Refined
<1>1. Callable /\ size \in Nat /\ MaxN \in Nat
  BY RepeatAssumption DEF AssignNChr, IInv, TypeOK
<1>2. ASSUME NEW c \in Char, NEW n \in 0..MaxN,
             NEW b \in IF n > size THEN ReservedAlways(Buffer, n + 1) ELSE {Buffer},
             Return("assignnchr", b, Fill(Fill(b.data, 0, c, n), n, NUL, 1), n, n + 1)
      PROVE  Refined
  <2>1. n \in Nat /\ n + 1 \in Nat
    BY <1>1
  <2>2. b.data \in Block(b.alloc) /\ b.alloc \in Nat /\ n <= b.alloc
    <3>1. CASE n > size
      <4>1. b.data \in Block(b.alloc) /\ b.alloc \in Nat /\ b.alloc >= n + 1
        BY <1>1, <2>1, <3>1, ReservedAlwaysSpells
      <4> QED BY <2>1, <4>1
    <3>2. CASE ~(n > size)
      <4>1. b.data = data /\ b.alloc = alloc
        BY <3>2 DEF Buffer
      <4> QED BY <1>1, <2>1, <3>2, <4>1, InvSpells
    <3> QED BY <3>1, <3>2
  <2>3. Spells(Fill(b.data, 0, c, n), Abstract!Times(c, n)) /\ Len(Abstract!Times(c, n)) = n
    BY <2>1, <2>2, SetSpells
  <2>4. Fill(b.data, 0, c, n) \in Block(b.alloc)
    BY <2>2, FillType DEF Byte
  <2>5. Spells(Fill(Fill(b.data, 0, c, n), n, NUL, 1), Abstract!Times(c, n))
    BY <2>1, <2>2, <2>3, <2>4, EndedSpells
  <2>6. /\ Text' = Abstract!Times(c, n) /\ Contents'
        /\ last' = [op |-> "assignnchr", ret |-> "SUCC"]
    BY <1>2, <2>3, <2>5, ReturnText
  <2>7. Abstract!AssignN
    BY <2>6 DEF Abstract!AssignN, Abstract!Becomes, Text
  <2> QED BY <2>6, <2>7 DEF Refined, Abstract!Next
<1> QED BY <1>2, FailRefined DEF AssignNChr

(* There is no NUL in the text: the one that ends the loop is behind it. *)
LEMMA StrSetRefined == ASSUME IInv, Contents, StrSet PROVE Refined
<1>1. PICK n \in 0..(alloc - 1), c \in Char :
        /\ data[n] = NUL
        /\ Return("strset", Buffer, Fill(data, 0, c, n), size, n + 1)
  BY DEF StrSet
<1>2. size \in Nat /\ alloc \in Nat /\ data \in Block(alloc) /\ size <= alloc /\ Len(Text) = size
      /\ n \in Nat
  BY InvSpells
<1>3. size <= n
  <2>1. SUFFICES ASSUME n < size PROVE FALSE
    BY <1>2
  <2>2. n \in 0..(size - 1)
    BY <1>2, <2>1
  <2> QED BY <1>1, <2>2, BytesDistinct DEF Contents
<1>4. Spells(Fill(data, 0, c, n), Abstract!Times(c, size)) /\ Len(Abstract!Times(c, size)) = size
  BY <1>2, <1>3, SetSpells
<1>5. /\ Text' = Abstract!Times(c, size) /\ Contents'
      /\ last' = [op |-> "strset", ret |-> "SUCC"]
  BY <1>1, <1>4, ReturnText
<1>6. Abstract!SetAll
  BY <1>2, <1>5 DEF Abstract!SetAll, Abstract!Becomes, Text
<1> QED BY <1>5, <1>6 DEF Refined, Abstract!Next

(* The text is moved behind what is put before it. *)
LEMMA ShiftedSpells ==
  ASSUME IInv, Contents, NEW d, NEW pre, Spells(d, pre),
         \A k \in 0..(size - 1) : d[Len(pre) + k] = data[k]
  PROVE  Spells(d, pre \o Text) /\ Len(pre \o Text) = size + Len(pre)
<1>1. Text \in Seq(Char) /\ Len(Text) = size /\ size \in Nat /\ Spells(data, Text)
      /\ Len(pre) \in Nat
  BY InvSpells DEF Spells
<1>2. \A k \in 1..Len(Text) : d[Len(pre) + k - 1] = Text[k]
  <2> TAKE k \in 1..Len(Text)
  <2>1. k - 1 \in 0..(size - 1) /\ Len(pre) + (k - 1) = Len(pre) + k - 1
    BY <1>1
  <2>2. d[Len(pre) + (k - 1)] = data[k - 1]
    BY <2>1
  <2>3. data[k - 1] = Text[k]
    BY <1>1 DEF Spells
  <2> QED BY <2>1, <2>2, <2>3
<1>3. Spells(d, pre \o Text) /\ Len(pre \o Text) = Len(pre) + Len(Text)
  BY <1>1, <1>2, SpellsConcat
<1> QED BY <1>1, <1>3

(* memmove of the whole text, with a terminator, by n bytes. *)
LEMMA ShiftByte ==
  ASSUME NEW a \in Nat, NEW m \in Block(a), NEW n \in Nat, NEW len \in Nat,
         n + len < a, NEW k \in 0..(len - 1)
  PROVE  StrMove(m, n, 0, len)[n + k] = m[k]
<1>1. /\ n + k \in 0..(a - 1) /\ n + k # n + len /\ n <= n + k /\ n + k < n + len
      /\ (n + k) - n + 0 = k /\ 0 \in Nat /\ 0 + len <= a
  OBVIOUS
<1>2. \A from \in Nat, j \in 0..(a - 1) :
        from + len <= a =>
          StrMove(m, n, from, len)[j]
            = IF j = n + len THEN NUL
              ELSE IF n <= j /\ j < n + len THEN m[j - n + from] ELSE m[j]
  BY StrMoveByte
<1> QED BY <1>1, <1>2

LEMMA FilledFront ==
  ASSUME IInv, Callable, Contents, NEW c \in Char, NEW n \in Nat,
         NEW b \in Reserved(Buffer, size + n + 1)
  PROVE  /\ Spells(Fill(StrMove(b.data, n, 0, size), 0, c, n), Abstract!Times(c, n) \o Text)
         /\ Len(Abstract!Times(c, n) \o Text) = size + n
<1>1. size \in Nat /\ size + n + 1 \in Nat /\ size <= alloc
  BY InvSpells
<1>2. /\ Spells(b.data, Text) /\ b.data \in Block(b.alloc)
      /\ b.alloc \in Nat /\ b.alloc >= size + n + 1
  BY <1>1, ReservedSpells
<1>3. n + size < b.alloc /\ n <= b.alloc
  BY <1>1, <1>2
<1>4. PICK m \in Block(b.alloc) : m = StrMove(b.data, n, 0, size)
  BY <1>2, StrMoveType
<1>5. Spells(Fill(m, 0, c, n), Abstract!Times(c, n)) /\ Len(Abstract!Times(c, n)) = n
  BY <1>2, <1>3, SetSpells
<1>6. \A k \in 0..(size - 1) : m[n + k] = b.data[k]
  BY <1>1, <1>2, <1>3, <1>4, ShiftByte
<1>7. \A k \in 0..(size - 1) : Fill(m, 0, c, n)[n + k] = m[n + k]
  <2> TAKE k \in 0..(size - 1)
  <2>1. n + k \in DOMAIN m /\ ~(n + k < 0 + n)
    BY <1>1, <1>2, <1>3 DEF Block
  <2> QED BY <2>1 DEF Fill
<1>8. \A k \in 0..(size - 1) : b.data[k] = data[k]
  <2> TAKE k \in 0..(size - 1)
  <2>1. k + 1 \in 1..size /\ (k + 1) - 1 = k
    BY <1>1
  <2>2. b.data[k] = Text[k + 1] /\ data[k] = Text[k + 1]
    BY <1>2, <2>1, InvSpells DEF Spells
  <2> QED BY <2>2
<1>9. \A k \in 0..(size - 1) : Fill(m, 0, c, n)[Len(Abstract!Times(c, n)) + k] = data[k]
  BY <1>5, <1>6, <1>7, <1>8
<1> QED BY <1>4, <1>5, <1>9, ShiftedSpells

LEMMA PushFrontNRefined == ASSUME IInv, Contents, PushFrontN PROVE Refined
<1>1. Callable /\ MaxN \in Nat
  BY RepeatAssumption DEF PushFrontN
<1>2. ASSUME NEW c \in Char, NEW n \in 0..MaxN, NEW b \in Reserved(Buffer, size + n + 1),
             Return("pushfrontn", b, Fill(StrMove(b.data, n, 0, size), 0, c, n),
                    size + n, size + n + 1)
      PROVE  Refined
  <2>1. n \in Nat
    BY <1>1
  <2>2. /\ Text' = Abstract!Times(c, n) \o Text /\ Contents'
        /\ last' = [op |-> "pushfrontn", ret |-> "SUCC"]
    BY <1>1, <1>2, <2>1, FilledFront, ReturnText
  <2>3. Abstract!PrependN
    BY <2>2 DEF Abstract!PrependN, Abstract!Becomes, Text
  <2> QED BY <2>2, <2>3 DEF Refined, Abstract!Next
<1> QED BY <1>2, FailRefined DEF PushFrontN

LEMMA PushFrontRefined == ASSUME IInv, Contents, PushFront PROVE Refined
<1>1. Callable
  BY DEF PushFront
<1>2. ASSUME NEW c \in Char, NEW b \in Reserved(Buffer, size + 1 + 1),
             Return("pushfront", b, Fill(StrMove(b.data, 1, 0, size), 0, c, 1),
                    size + 1, size + 2)
      PROVE  Refined
  <2>1. /\ Text' = Abstract!Times(c, 1) \o Text /\ Contents'
        /\ last' = [op |-> "pushfront", ret |-> "SUCC"]
    BY <1>1, <1>2, FilledFront, ReturnText
  <2>2. Abstract!Times(c, 1) = <<c>>
    <3>1. /\ Abstract!Times(c, 1) \in Seq(Char) /\ Len(Abstract!Times(c, 1)) = 1
          /\ \A j \in 1..1 : Abstract!Times(c, 1)[j] = c
      BY TimesType
    <3>2. <<c>> \in Seq(Char) /\ Len(<<c>>) = 1 /\ \A j \in 1..1 : <<c>>[j] = c
      OBVIOUS
    <3> QED BY <3>1, <3>2, SeqEqual
  <2>3. Abstract!Prepend1
    BY <2>1, <2>2 DEF Abstract!Prepend1, Abstract!Becomes, Text
  <2> QED BY <2>1, <2>3 DEF Refined, Abstract!Next
<1> QED BY <1>2, FailRefined DEF PushFront

(* memcpy to the beginning of the block, in front of a string or of nothing. *)
LEMMA PutInFront ==
  ASSUME IInv, Contents, NEW a \in Nat, NEW m \in Block(a), NEW src \in Seq(Char),
         size + Len(src) <= a, \A k \in 0..(size - 1) : m[Len(src) + k] = data[k]
  PROVE  Spells(Copy(m, 0, src), src \o Text) /\ Len(src \o Text) = size + Len(src)
<1>1. size \in Nat /\ Len(src) \in Nat
  BY InvSpells
<1>2. \A k \in 1..Len(src) : Copy(m, 0, src)[k - 1] = src[k]
  <2> TAKE k \in 1..Len(src)
  <2>1. k - 1 \in DOMAIN m /\ 0 <= k - 1 /\ k - 1 < 0 + Len(src) /\ (k - 1) - 0 + 1 = k
    BY <1>1 DEF Block
  <2> QED BY <2>1 DEF Copy
<1>3. Spells(Copy(m, 0, src), src)
  BY <1>2 DEF Spells
<1>4. \A k \in 0..(size - 1) : Copy(m, 0, src)[Len(src) + k] = data[k]
  <2> TAKE k \in 0..(size - 1)
  <2>1. Len(src) + k \in DOMAIN m /\ ~(Len(src) + k < 0 + Len(src))
    BY <1>1 DEF Block
  <2>2. Copy(m, 0, src)[Len(src) + k] = m[Len(src) + k]
    BY <2>1 DEF Copy
  <2> QED BY <2>2
<1> QED BY <1>3, <1>4, ShiftedSpells

LEMMA PrependLenRefined == ASSUME IInv, Contents, PrependLen PROVE Refined
<1> DEFINE Moved(b, src) == IF size # 0 THEN StrMove(b.data, Len(src), 0, size)
                            ELSE Fill(b.data, Len(src), NUL, 1)
<1>1. Callable /\ size \in Nat
  BY InvSpells DEF PrependLen
<1>2. ASSUME NEW src \in Srcs, NEW b \in Reserved(Buffer, size + Len(src) + 1),
             Return("prepend_len", b, Copy(Moved(b, src), 0, src),
                    size + Len(src), size + Len(src) + 1)
      PROVE  Refined
  <2>1. src \in Seq(Char) /\ Len(src) \in Nat /\ size + Len(src) + 1 \in Nat
    BY <1>1, SrcsAssumption
  <2>2. /\ Spells(b.data, Text) /\ b.data \in Block(b.alloc)
        /\ b.alloc \in Nat /\ b.alloc >= size + Len(src) + 1
    BY <1>1, <2>1, ReservedSpells
  <2>3. Moved(b, src) \in Block(b.alloc)
    BY <2>1, <2>2, StrMoveType, FillType, NULType
  <2>4. ASSUME NEW k \in 0..(size - 1)
        PROVE  Moved(b, src)[Len(src) + k] = data[k]
    <3>1. size # 0 /\ k + 1 \in 1..size /\ (k + 1) - 1 = k
      BY <1>1
    <3>2. b.data[k] = Text[k + 1] /\ data[k] = Text[k + 1]
      BY <2>2, <3>1, InvSpells DEF Spells
    <3>3. Len(src) + size < b.alloc
      BY <1>1, <2>1, <2>2
    <3>4. StrMove(b.data, Len(src), 0, size)[Len(src) + k] = b.data[k]
      BY <1>1, <2>1, <2>2, <3>3, ShiftByte
    <3> QED BY <3>1, <3>2, <3>4
  <2>5. size + Len(src) <= b.alloc
    BY <1>1, <2>1, <2>2
  <2> HIDE DEF Moved
  <2>6. Spells(Copy(Moved(b, src), 0, src), src \o Text) /\ Len(src \o Text) = size + Len(src)
    BY <2>1, <2>2, <2>3, <2>4, <2>5, PutInFront
  <2>7. Text' = src \o Text /\ Contents' /\ last' = [op |-> "prepend_len", ret |-> "SUCC"]
    BY <1>2, <2>6, ReturnText
  <2>8. Abstract!PrependStr
    BY <2>7 DEF Abstract!PrependStr, Abstract!Becomes, Text
  <2> QED BY <2>7, <2>8 DEF Refined, Abstract!Next
<1> QED BY <1>2, FailRefined DEF PrependLen

(***************************************************************************)
(* Shortening the text.                                                    *)
(***************************************************************************)

LEMMA PopBackRefined == ASSUME IInv, Contents, PopBack PROVE Refined
<1>1. /\ Text \in Seq(Char) /\ Len(Text) = size /\ Spells(data, Text) /\ size \in Nat
      /\ alloc \in Nat /\ data \in Block(alloc) /\ size <= alloc
  BY InvSpells
<1>2. CASE size = 0 /\ Return("popback", Buffer, data, size, 0)
  <2>1. Text' = Text /\ Contents' /\ last' = [op |-> "popback", ret |-> "SUCC"]
    BY <1>1, <1>2, ReturnText
  <2>2. Text = <<>>
    BY <1>1, <1>2
  <2>3. Abstract!DropLast
    BY <2>1, <2>2 DEF Abstract!DropLast, Abstract!Becomes, Text
  <2> QED BY <2>1, <2>3 DEF Refined, Abstract!Next
<1>3. CASE /\ size # 0
           /\ Return("popback", Buffer, Fill(data, size - 1, NUL, 1), size - 1, size)
  <2>1. size - 1 \in Nat /\ size - 1 \in 0..Len(Text) /\ size - 1 <= alloc
    BY <1>1, <1>3
  <2>2. PICK s : s = SubSeq(Text, 1, size - 1) /\ Spells(data, s) /\ Len(s) = size - 1
    BY <1>1, <2>1, SpellsPart
  <2>3. \A at \in Nat : Len(s) <= at => Spells(Fill(data, at, NUL, 1), s)
    <3>1. Len(s) <= alloc
      BY <1>1, <2>1, <2>2
    <3> QED BY <1>1, <2>2, <3>1, EndedSpells
  <2>4. Spells(Fill(data, size - 1, NUL, 1), s)
    BY <2>1, <2>2, <2>3
  <2>5. Text' = s /\ Contents' /\ last' = [op |-> "popback", ret |-> "SUCC"]
    BY <1>3, <2>2, <2>4, ReturnText
  <2>6. Text # <<>>
    BY <1>1, <1>3
  <2>7. Abstract!DropLast
    BY <1>1, <2>2, <2>5, <2>6 DEF Abstract!DropLast, Abstract!Becomes, Text
  <2> QED BY <2>5, <2>7 DEF Refined, Abstract!Next
<1> QED BY <1>2, <1>3 DEF PopBack

LEMMA PopFrontRefined == ASSUME IInv, Contents, PopFront PROVE Refined
<1>1. /\ Text \in Seq(Char) /\ Len(Text) = size /\ Spells(data, Text) /\ size \in Nat
      /\ alloc \in Nat /\ data \in Block(alloc) /\ size <= alloc /\ (alloc # 0 => size < alloc)
  BY InvSpells
<1>2. CASE size = 0 /\ Return("popfront", Buffer, data, size, 0)
  <2>1. Text' = Text /\ Contents' /\ last' = [op |-> "popfront", ret |-> "SUCC"]
    BY <1>1, <1>2, ReturnText
  <2>2. Text = <<>>
    BY <1>1, <1>2
  <2>3. Abstract!DropFirst
    BY <2>1, <2>2 DEF Abstract!DropFirst, Abstract!Becomes, Text
  <2> QED BY <2>1, <2>3 DEF Refined, Abstract!Next
<1>3. CASE /\ size # 0
           /\ Return("popfront", Buffer, Move(data, 0, 1, size), size - 1, size + 1)
  <2>1. Text # <<>>
    BY <1>1, <1>3
  <2>2. PICK s \in Seq(Char) :
          /\ s = Tail(Text) /\ Len(s) = size - 1 /\ \A k \in 1..Len(s) : s[k] = Text[k + 1]
    BY <1>1, <2>1, HeadTailProperties
  <2>3. ASSUME NEW k \in 1..Len(s)
        PROVE  Move(data, 0, 1, size)[k - 1] = s[k]
    <3>1. /\ k - 1 \in DOMAIN data /\ 0 <= k - 1 /\ k - 1 < 0 + size
          /\ (k - 1) - 0 + 1 = k /\ k \in DOMAIN data
      BY <1>1, <1>3, <2>2 DEF Block
    <3>2. Move(data, 0, 1, size)[k - 1] = data[k]
      BY <3>1 DEF Move
    <3>3. k + 1 \in 1..Len(Text) /\ (k + 1) - 1 = k
      BY <1>1, <2>2
    <3>4. data[k] = Text[k + 1]
      BY <1>1, <3>3 DEF Spells
    <3> QED BY <2>2, <3>2, <3>4
  <2>4. Spells(Move(data, 0, 1, size), s)
    BY <2>3 DEF Spells
  <2>5. Text' = s /\ Contents' /\ last' = [op |-> "popfront", ret |-> "SUCC"]
    BY <1>3, <2>2, <2>4, ReturnText
  <2>6. Abstract!DropFirst
    BY <2>1, <2>2, <2>5 DEF Abstract!DropFirst, Abstract!Becomes, Text
  <2> QED BY <2>5, <2>6 DEF Refined, Abstract!Next
<1> QED BY <1>2, <1>3 DEF PopFront

(***************************************************************************)
(* Formatting.                                                             *)
(***************************************************************************)

(* vsprintf writes the whole text behind what was there before at, or it     *)
(* fails and leaves the first characters of it.                              *)
LEMMA PrintedText ==
  ASSUME IInv, Contents, NEW op \in PrintOps, NEW b, NEW at \in 0..size, NEW src \in Srcs,
         Spells(b.data, Text), Sound(b), at + MaxLen(src) <= b.alloc, size <= b.alloc,
         Printed(op, b, at, src)
  PROVE  /\ Contents'
         /\ \/ Abstract!HalfPrinted
            \/ /\ Text' = SubSeq(Text, 1, at) \o src
               /\ last' = [op |-> op, ret |-> "SUCC"]
<1>1. /\ src \in Seq(Char) /\ Len(src) \in Nat /\ b.alloc \in Nat /\ b.data \in Block(b.alloc)
      /\ Text \in Seq(Char) /\ Len(Text) = size /\ size \in Nat /\ at \in Nat
  BY SrcsAssumption, InvSpells DEF Sound
<1>2. CASE Return(op, b, StrCpy(b.data, at, src), at + Len(src), at + Len(src) + 1)
  <2>1. PICK s : s = SubSeq(Text, 1, at) /\ Spells(b.data, s) /\ Len(s) = at
    BY <1>1, SpellsPart
  <2>2. Len(s) + Len(src) <= b.alloc
    BY <1>1, <2>1 DEF MaxLen
  <2>3. Spells(StrCpy(b.data, Len(s), src), s \o src) /\ Len(s \o src) = Len(s) + Len(src)
    BY <1>1, <2>1, <2>2, StrCpySpells
  <2> QED BY <1>2, <2>1, <2>3, ReturnText
<1>3. ASSUME NEW n \in 0..Len(src), data' = Copy(b.data, at, SubSeq(src, 1, n)),
             last' = [op |-> op, ret |-> "ERR"], size' = size
      PROVE  Contents' /\ Abstract!HalfPrinted
  <2> DEFINE s == [k \in 1..Len(Text) |->
                     IF at < k /\ k <= at + n THEN src[k - at] ELSE Text[k]]
  <2>1. \A k \in 1..Len(Text) : s[k] \in Char
    <3> TAKE k \in 1..Len(Text)
    <3>1. at < k /\ k <= at + n => k - at \in 1..Len(src)
      BY <1>1
    <3> QED BY <1>1, <3>1
  <2>2. DOMAIN s = 1..Len(Text) /\ s \in [1..Len(Text) -> Char]
    BY <2>1
  <2>3. s \in Seq(Char)
    BY <1>1, <2>2
  <2>4. Len(s) = size
    BY <1>1, <2>2, <2>3, LenProperties
  <2>5. PICK part \in Seq(Char) :
          /\ part = SubSeq(src, 1, n) /\ Len(part) = n /\ \A k \in 1..n : part[k] = src[k]
    <3>1. src \in Seq(Char) /\ n \in 0..Len(src)
      BY <1>1
    <3>2. SubSeq(src, 1, n) \in Seq(Char) /\ Len(SubSeq(src, 1, n)) = n
          /\ \A k \in 1..n : SubSeq(src, 1, n)[k] = src[k]
      BY <3>1
    <3> QED BY <3>2
  <2>6. ASSUME NEW k \in 1..Len(s)
        PROVE  Copy(b.data, at, part)[k - 1] = s[k]
    <3>1. k \in 1..Len(Text) /\ k - 1 \in 0..(b.alloc - 1) /\ k - 1 \in DOMAIN b.data
      BY <1>1, <2>4 DEF Block
    <3>2. CASE at < k /\ k <= at + n
      <4>1. /\ at <= k - 1 /\ k - 1 < at + Len(part) /\ (k - 1) - at + 1 = k - at
            /\ k - at \in 1..n
        BY <1>1, <2>5, <3>1, <3>2
      <4>2. Copy(b.data, at, part)[k - 1] = part[k - at]
        BY <3>1, <4>1 DEF Copy
      <4> QED BY <2>5, <3>1, <3>2, <4>1, <4>2
    <3>3. CASE ~(at < k /\ k <= at + n)
      <4>1. ~(at <= k - 1 /\ k - 1 < at + Len(part))
        BY <1>1, <2>5, <3>1, <3>3
      <4>2. Copy(b.data, at, part)[k - 1] = b.data[k - 1]
        BY <3>1, <4>1 DEF Copy
      <4>3. b.data[k - 1] = Text[k]
        BY <3>1 DEF Spells
      <4> QED BY <3>1, <3>3, <4>2, <4>3
    <3> QED BY <3>2, <3>3
  <2>7. Spells(Copy(b.data, at, part), s)
    BY <2>3, <2>6 DEF Spells
  <2>8. Text' = s /\ Contents'
    BY <1>3, <2>4, <2>5, <2>7, SpelledIsText
  <2>9. at \in 0..Len(Text) /\ last'.ret = "ERR"
        /\ last'.op \in {"asprintf", "asprintf_append", "asprintf_from", "sprintf_from"}
    BY <1>1, <1>3 DEF PrintOps
  <2> QED BY <2>8, <2>9 DEF Abstract!HalfPrinted, Text
<1> QED BY <1>2, <1>3 DEF Printed

LEMMA AsprintfRefined == ASSUME IInv, Contents, Asprintf PROVE Refined
<1>1. Callable /\ "asprintf" \in PrintOps
  BY DEF Asprintf, PrintOps
<1>2. ASSUME NEW src \in Srcs, NEW b \in ReservedExact(MaxLen(src)),
             Printed("asprintf", b, 0, src)
      PROVE  Refined
  <2>1. src \in Seq(Char) /\ MaxLen(src) \in Nat /\ MaxLen(src) > 0
    BY SrcsAssumption DEF MaxLen
  <2>2. /\ Sound(b) /\ b.alloc >= MaxLen(src) /\ Spells(b.data, Text)
        /\ b.alloc > size \/ (b.alloc = 0 /\ size = 0)
    BY <1>1, <2>1, ReservedExactSound, ReservedExactSpells
  <2>3. 0 \in 0..size /\ 0 + MaxLen(src) <= b.alloc /\ size <= b.alloc
    BY <2>1, <2>2, InvSpells DEF Sound
  <2>4. /\ Contents'
        /\ \/ Abstract!HalfPrinted
           \/ /\ Text' = SubSeq(Text, 1, 0) \o src
              /\ last' = [op |-> "asprintf", ret |-> "SUCC"]
    BY <1>1, <1>2, <2>2, <2>3, PrintedText
  <2>5. SubSeq(Text, 1, 0) \o src = src
    <3>1. SubSeq(Text, 1, 0) = <<>>
      BY SubSeqEmpty
    <3> QED BY <2>1, <3>1, ConcatEmptySeq
  <2>6. Abstract!HalfPrinted \/ Abstract!AssignStr
    BY <2>4, <2>5 DEF Abstract!AssignStr, Abstract!Becomes, Text
  <2> QED BY <2>4, <2>6 DEF Refined, Abstract!Next
<1> QED BY <1>2, FailRefined, FailExactRefined DEF Asprintf

(* The same in the space reserved behind the place it starts from. *)
LEMMA PrintAtText ==
  ASSUME IInv, Callable, Contents, NEW op \in PrintOps, NEW at \in 0..size, NEW src \in Srcs,
         NEW b \in Reserved(Buffer, at + MaxLen(src)), Printed(op, b, at, src)
  PROVE  /\ Contents'
         /\ \/ Abstract!HalfPrinted
            \/ /\ Text' = SubSeq(Text, 1, at) \o src
               /\ last' = [op |-> op, ret |-> "SUCC"]
<1>1. at + MaxLen(src) \in Nat /\ MaxLen(src) > 0 /\ size \in Nat
  BY InvSpells, SrcsAssumption DEF MaxLen
<1>2. /\ Sound(b) /\ b.alloc >= at + MaxLen(src) /\ Spells(b.data, Text)
      /\ b.alloc > size \/ (b.alloc = 0 /\ size = 0)
  BY <1>1, ReservedSound, ReservedSpells
<1>3. size <= b.alloc /\ at + MaxLen(src) <= b.alloc
  BY <1>1, <1>2 DEF Sound
<1> QED BY <1>2, <1>3, PrintedText

LEMMA AsprintfAppendRefined == ASSUME IInv, Contents, AsprintfAppend PROVE Refined
<1>1. Callable /\ size \in 0..size /\ "asprintf_append" \in PrintOps
  BY InvSpells DEF AsprintfAppend, PrintOps
<1>2. ASSUME NEW src \in Srcs, NEW b \in Reserved(Buffer, size + MaxLen(src)),
             Printed("asprintf_append", b, size, src)
      PROVE  Refined
  <2>1. /\ Contents'
        /\ \/ Abstract!HalfPrinted
           \/ /\ Text' = SubSeq(Text, 1, size) \o src
              /\ last' = [op |-> "asprintf_append", ret |-> "SUCC"]
    BY <1>1, <1>2, PrintAtText
  <2>2. SubSeq(Text, 1, size) = Text
    BY InvSpells, SubSeqFull
  <2>3. Abstract!HalfPrinted \/ Abstract!AppendStr
    BY <2>1, <2>2 DEF Abstract!AppendStr, Abstract!Becomes, Text
  <2> QED BY <2>1, <2>3 DEF Refined, Abstract!Next
<1> QED BY <1>2, FailRefined DEF AsprintfAppend

LEMMA AsprintfFromRefined == ASSUME IInv, Contents, AsprintfFrom PROVE Refined
<1>1. Callable /\ "asprintf_from" \in PrintOps /\ Len(Text) = size
  BY InvSpells DEF AsprintfFrom, PrintOps
<1>2. ASSUME NEW src \in Srcs, NEW start \in 0..size,
             NEW b \in Reserved(Buffer, start + MaxLen(src)),
             Printed("asprintf_from", b, start, src)
      PROVE  Refined
  <2>1. /\ Contents'
        /\ \/ Abstract!HalfPrinted
           \/ /\ Text' = SubSeq(Text, 1, start) \o src
              /\ last' = [op |-> "asprintf_from", ret |-> "SUCC"]
    BY <1>1, <1>2, PrintAtText
  <2>2. Abstract!HalfPrinted \/ Abstract!AssignFrom
    BY <1>1, <2>1 DEF Abstract!AssignFrom, Abstract!Becomes, Text
  <2> QED BY <2>1, <2>2 DEF Refined, Abstract!Next
<1> QED BY <1>2, FailRefined DEF AsprintfFrom

LEMMA SprintfFromRefined == ASSUME IInv, Contents, SprintfFrom PROVE Refined
<1>1. PICK src \in Srcs, start \in 0..size :
        start + Len(src) + 1 <= capacity /\ Printed("sprintf_from", Buffer, start, src)
  BY DEF SprintfFrom
<1>2. /\ Callable /\ "sprintf_from" \in PrintOps /\ Len(Text) = size /\ size <= alloc
      /\ Spells(data, Text)
  BY InvSpells DEF SprintfFrom, PrintOps
<1>3. Sound(Buffer) /\ Buffer.alloc = alloc /\ Buffer.data = data /\ capacity = alloc
  BY <1>2, BufferSound
<1>4. start + MaxLen(src) <= Buffer.alloc /\ size <= Buffer.alloc /\ Spells(Buffer.data, Text)
  <2>1. start + MaxLen(src) = start + Len(src) + 1
    BY SrcsAssumption DEF MaxLen
  <2> QED BY <1>1, <1>2, <1>3, <2>1
<1>5. /\ Contents'
      /\ \/ Abstract!HalfPrinted
         \/ /\ Text' = SubSeq(Text, 1, start) \o src
            /\ last' = [op |-> "sprintf_from", ret |-> "SUCC"]
  BY <1>1, <1>2, <1>3, <1>4, PrintedText
<1>6. Abstract!HalfPrinted \/ Abstract!AssignFrom
  BY <1>2, <1>5 DEF Abstract!AssignFrom, Abstract!Becomes, Text
<1> QED BY <1>5, <1>6 DEF Refined, Abstract!Next

LEMMA NextRefined == ASSUME IInv, Contents, Next PROVE Refined
BY ReservesRefined, FreeRefined, AppendLenRefined, CatRefined, InternalCatRefined,
   StrSetRefined, AssignNChrRefined, AssignLenRefined, PushBackRefined, PushBackNRefined,
   PushFrontRefined, PushFrontNRefined, PrependLenRefined, PopBackRefined, PopFrontRefined,
   EmptyRefined, AsprintfRefined, AsprintfAppendRefined, AsprintfFromRefined,
   SprintfFromRefined
   DEF Next

(* The bytes before the size are the caller's characters. *)
THEOREM HoldsText == Spec => []Contents
<1>1. Init => Contents
  <2> SUFFICES ASSUME Init PROVE Contents
    OBVIOUS
  <2>1. size = 0
    BY DEF Init
  <2> QED BY <2>1 DEF Contents
<1>2. IInv /\ Contents /\ [Next]_vars => Contents'
  <2> SUFFICES ASSUME IInv, Contents, [Next]_vars PROVE Contents'
    OBVIOUS
  <2>1. CASE Next
    BY <2>1, NextRefined DEF Refined
  <2>2. CASE UNCHANGED vars
    BY <2>2 DEF vars, Contents
  <2> QED BY <2>1, <2>2
<1> QED BY <1>1, <1>2, Inductive, PTL DEF Spec

(* RefinesJString: every call does to the contents what JString says, and a  *)
(* call that fails does nothing to them, but for a formatting call that has  *)
(* failed half way.                                                          *)
THEOREM ImplementsJString == Spec => RefinesJString
<1>1. Init => Abstract!Init
  <2> SUFFICES ASSUME Init PROVE Abstract!Init
    OBVIOUS
  <2>1. Spells(data, <<>>) /\ Len(<<>>) = 0 /\ size = 0
    BY SpellsNothing DEF Init
  <2>2. Prefix(data, size) = <<>>
    BY <2>1, PrefixIs DEF Spells
  <2> QED BY <2>2 DEF Abstract!Init, Init
<1>2. IInv /\ Contents /\ [Next]_vars => [Abstract!Next]_(Abstract!vars)
  <2> SUFFICES ASSUME IInv, Contents, [Next]_vars PROVE [Abstract!Next]_(Abstract!vars)
    OBVIOUS
  <2>1. CASE Next
    BY <2>1, NextRefined DEF Refined
  <2>2. CASE UNCHANGED vars
    BY <2>2 DEF vars, Abstract!vars
  <2> QED BY <2>1, <2>2
<1> QED BY <1>1, <1>2, Inductive, HoldsText, PTL DEF Spec, RefinesJString, Abstract!Spec

(***************************************************************************)
(* Theorems about JstrReserve, the loop in which the builder's capacities  *)
(* are computed, for every width of a size_t, every JSTR_MIN_CAP and every *)
(* limit of the allocator: the multiplication may wrap, but a call that    *)
(* succeeds has given what it was asked for, and nothing that went through *)
(* a wrap.                                                                 *)
(***************************************************************************)


(* No more than twice what is needed, unless the capacity was larger before. *)
Tight == old_cap = first_cap \/ old_cap < Growth * new_cap

(* Once the loop variable has wrapped, the request is above all the         *)
(* allocator may grant: only a capacity it refuses can end the loop.        *)
Hopeless == new_cap > Limit

LoopInv == pc = "loop" => Tight \/ Hopeless

LoopIInv == LoopTypeOK /\ SuccessCovers /\ LoopInv

(* The capacity the loop is granted exceeds the request by less than the    *)
(* request itself, unless it is the one the loop began with.                *)
GrantedIsTight ==
  [][(pc = "loop" /\ pc' = "idle" /\ ret' = "SUCC")
       => /\ cap' >= new_cap
          /\ cap' = first_cap \/ cap' < Growth * new_cap]_loopVars

USE DEF Growth

LEMMA SizeTNat == SizeT \subseteq Nat
BY WidthAssumption DEF SizeT

LEMMA WrapType == ASSUME NEW x \in SizeT PROVE (x * Growth) % Modulus \in SizeT
<1>1. x * Growth \in Nat
  BY SizeTNat
<1> QED BY <1>1, WidthAssumption DEF SizeT

LEMMA MinCapType == MinCap \in SizeT
BY MinCapAssumption

(* A product below the modulus is what it is. *)
LEMMA NoWrap ==
  ASSUME NEW x \in SizeT, x * Growth < Modulus
  PROVE  (x * Growth) % Modulus = x * Growth
<1>1. x * Growth \in Nat /\ Modulus \in Nat \ {0}
  BY SizeTNat, WidthAssumption
<1> QED BY <1>1

LEMMA EnterLoopKeeps ==
  ASSUME LoopIInv, AtRest, NEW need \in SizeT, EnterLoop(need) PROVE LoopIInv'
<1>1. LoopTypeOK'
  BY MinCapType DEF LoopIInv, LoopTypeOK, AtRest, EnterLoop
<1>2. SuccessCovers' /\ LoopInv'
  BY DEF SuccessCovers, LoopInv, Tight, EnterLoop
<1> QED BY <1>1, <1>2 DEF LoopIInv

LEMMA CallReserveKeeps == ASSUME LoopIInv, CallReserve PROVE LoopIInv'
<1>1. PICK need \in SizeT :
        \/ /\ need <= cap
           /\ new_cap' = need
           /\ UNCHANGED <<pc, cap, old_cap, first_cap, ret>>
        \/ EnterLoop(need)
  BY DEF CallReserve
<1>2. AtRest
  BY DEF CallReserve
<1>3. CASE /\ need <= cap
           /\ new_cap' = need
           /\ UNCHANGED <<pc, cap, old_cap, first_cap, ret>>
  <2>1. LoopTypeOK' /\ LoopInv'
    BY <1>2, <1>3 DEF LoopIInv, LoopTypeOK, LoopInv, AtRest
  <2>2. SuccessCovers'
    BY <1>3, SizeTNat DEF LoopIInv, LoopTypeOK, SuccessCovers
  <2> QED BY <2>1, <2>2 DEF LoopIInv
<1> QED BY <1>1, <1>2, <1>3, EnterLoopKeeps

LEMMA CallReserveAlwaysKeeps == ASSUME LoopIInv, CallReserveAlways PROVE LoopIInv'
BY EnterLoopKeeps DEF CallReserveAlways

(* A doubling that wraps starts from half the modulus at least, and it is   *)
(* taken only while the request is larger still.                            *)
LEMMA DoubleKeeps == ASSUME LoopIInv, Double PROVE LoopIInv'
<1>1. /\ old_cap \in SizeT /\ new_cap \in SizeT /\ old_cap < new_cap
      /\ old_cap' = (old_cap * Growth) % Modulus
      /\ pc = "loop" /\ UNCHANGED <<pc, cap, new_cap, first_cap, ret>>
  BY DEF Double, LoopIInv, LoopTypeOK
<1>2. old_cap' \in SizeT
  BY <1>1, WrapType
<1>3. LoopTypeOK'
  BY <1>1, <1>2 DEF LoopIInv, LoopTypeOK
<1>4. SuccessCovers'
  BY <1>1 DEF SuccessCovers
<1>5. LoopInv'
  <2>1. old_cap \in Nat /\ new_cap \in Nat /\ Modulus \in Nat /\ Limit \in Nat
    BY <1>1, SizeTNat, WidthAssumption, LimitAssumption
  <2>2. CASE old_cap * Growth < Modulus
    <3>1. old_cap' = old_cap * Growth
      BY <1>1, <2>2, NoWrap
    <3>2. old_cap' < Growth * new_cap'
      BY <1>1, <2>1, <3>1
    <3> QED BY <3>2 DEF LoopInv, Tight
  <2>3. CASE ~(old_cap * Growth < Modulus)
    <3>1. Growth * Limit < Modulus
      BY LimitAssumption
    <3>2. new_cap > Limit
      BY <1>1, <2>1, <2>3, <3>1
    <3> QED BY <1>1, <3>2 DEF LoopInv, Hopeless
  <2> QED BY <2>2, <2>3
<1> QED BY <1>3, <1>4, <1>5 DEF LoopIInv

LEMMA AskAllocatorKeeps == ASSUME LoopIInv, AskAllocator PROVE LoopIInv'
<1>1. LoopTypeOK' /\ LoopInv'
  BY DEF AskAllocator, LoopIInv, LoopTypeOK, LoopInv
<1>2. SuccessCovers'
  BY DEF AskAllocator, SuccessCovers
<1> QED BY <1>1, <1>2 DEF LoopIInv

LEMMA CallReserveExactKeeps == ASSUME LoopIInv, CallReserveExact PROVE LoopIInv'
<1>1. PICK need \in SizeT :
        /\ new_cap' = need
        /\ IF need < cap \/ need = 0
           THEN UNCHANGED <<cap, ret>>
           ELSE /\ cap' = need
                /\ ret' \in {"ERR"} \cup (IF need <= Limit THEN {"SUCC"} ELSE {})
  BY DEF CallReserveExact
<1>2. need \in Nat /\ cap \in Nat /\ UNCHANGED <<pc, old_cap, first_cap>> /\ pc = "idle"
  BY SizeTNat DEF LoopIInv, LoopTypeOK, CallReserveExact, AtRest
<1>3. LoopTypeOK' /\ LoopInv'
  BY <1>1, <1>2 DEF LoopIInv, LoopTypeOK, LoopInv
<1>4. SuccessCovers'
  BY <1>1, <1>2 DEF SuccessCovers
<1> QED BY <1>3, <1>4 DEF LoopIInv

LEMMA CallFreeKeeps == ASSUME LoopIInv, CallFree PROVE LoopIInv'
<1>1. 0 \in SizeT
  BY WidthAssumption DEF SizeT
<1>2. LoopTypeOK' /\ LoopInv' /\ SuccessCovers'
  BY <1>1 DEF LoopIInv, LoopTypeOK, LoopInv, SuccessCovers, CallFree
<1> QED BY <1>2 DEF LoopIInv

LEMMA LoopInitInv == LoopInit => LoopIInv
<1>1. 0 \in SizeT
  BY WidthAssumption DEF SizeT
<1> QED BY <1>1 DEF LoopInit, LoopIInv, LoopTypeOK, LoopInv, SuccessCovers

LEMMA LoopNextInv == LoopIInv /\ [LoopNext]_loopVars => LoopIInv'
<1>1. ASSUME LoopIInv, UNCHANGED loopVars PROVE LoopIInv'
  BY <1>1 DEF LoopIInv, LoopTypeOK, SuccessCovers, LoopInv, Tight, Hopeless, loopVars
<1> QED BY <1>1, CallReserveKeeps, CallReserveAlwaysKeeps, DoubleKeeps, AskAllocatorKeeps,
           CallReserveExactKeeps, CallFreeKeeps DEF LoopNext

THEOREM LoopInductive == LoopSpec => []LoopIInv
BY LoopInitInv, LoopNextInv, PTL DEF LoopSpec

(* Whatever wraps, every variable stays a size_t. *)
THEOREM LoopTypeCorrect == LoopSpec => []LoopTypeOK
BY LoopInductive, PTL DEF LoopIInv

(* A call that reports success has a capacity of at least what it was asked. *)
THEOREM SuccessSuffices == LoopSpec => []SuccessCovers
BY LoopInductive, PTL DEF LoopIInv

(* What the allocator grants never went through a wrap. *)
THEOREM GrantSuffices == LoopSpec => GrantedIsTight
<1>1. ASSUME LoopIInv, pc = "loop", LoopNext, pc' = "idle", ret' = "SUCC"
      PROVE  cap' >= new_cap /\ (cap' = first_cap \/ cap' < Growth * new_cap)
  <2>1. AskAllocator
    BY <1>1 DEF LoopNext, CallReserve, CallReserveAlways, Double,
               CallReserveExact, CallFree, AtRest
  <2>2. old_cap >= new_cap /\ cap' = old_cap /\ old_cap <= Limit
    BY <1>1, <2>1 DEF AskAllocator
  <2>3. /\ old_cap \in Nat /\ new_cap \in Nat /\ Limit \in Nat
    BY <1>1, SizeTNat, LimitAssumption DEF LoopIInv, LoopTypeOK
  <2>4. ~Hopeless
    BY <2>2, <2>3 DEF Hopeless
  <2> QED BY <1>1, <2>2, <2>4 DEF LoopIInv, LoopInv, Tight
<1>2. LoopIInv /\ [LoopNext]_loopVars
        => [(pc = "loop" /\ pc' = "idle" /\ ret' = "SUCC")
              => /\ cap' >= new_cap
                 /\ cap' = first_cap \/ cap' < Growth * new_cap]_loopVars
  BY <1>1
<1> QED BY <1>2, LoopInductive, PTL DEF LoopSpec, GrantedIsTight
=============================================================================
