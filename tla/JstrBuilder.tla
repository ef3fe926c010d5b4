----------------------------- MODULE JstrBuilder -----------------------------
(***************************************************************************)
(* include/builder.h: one jstr_ty (data, size, capacity) and every call    *)
(* that grows, fills, shortens or releases it.                             *)
(*                                                                         *)
(* "alloc" is what the allocator really gave (0 while data is NULL); the   *)
(* library only knows "capacity", which it computes itself and which is    *)
(* what it compares with the space a call needs.  Every allocation may     *)
(* fail.  "overrun" records that a call accessed a byte outside the block; *)
(* nothing is defined after that and no further call is taken.             *)
(***************************************************************************)
EXTENDS JstrMem

CONSTANTS
  Srcs,         (* the strings a caller passes in *)
  MaxN,         (* bound: largest repeat count passed *)
  KeepUsing     (* the calls after whose failure the caller goes on using the
                   string instead of freeing it *)

(* The calls that go through jstr_reserveexactalways. *)
ExactOps == {"reserveexact", "reserveexactalways", "shrink_to_fit", "asprintf"}

(* The calls that run vsprintf on the block. *)
PrintOps == {"asprintf", "asprintf_append", "asprintf_from", "sprintf_from"}

Ops == ExactOps \cup PrintOps \cup
  {"init", "free", "reserve", "reservealways", "append_len", "cat",
   "internal_cat", "strset", "assignnchr", "assign_len", "pushback",
   "pushbackn", "pushfront", "pushfrontn", "prepend_len", "popback",
   "popfront", "empty"}

ASSUME SrcsAssumption == Srcs \subseteq Seq(Char)
ASSUME RepeatAssumption == MaxN \in Nat
ASSUME KeepUsingAssumption == KeepUsing \subseteq Ops \ ExactOps

VARIABLES
  data,       (* the block *)
  alloc,      (* its true size in bytes *)
  size,       (* jstr_ty.size *)
  capacity,   (* jstr_ty.capacity *)
  last,       (* the last call and what it returned *)
  overrun     (* a call has accessed memory outside the block *)

vars == <<data, alloc, size, capacity, last, overrun>>

Rets == {"SUCC", "ERR"}

(* JSTR_INIT *)
Init ==
  /\ data = Null
  /\ alloc = 0
  /\ size = 0
  /\ capacity = 0
  /\ last = [op |-> "init", ret |-> "SUCC"]
  /\ overrun = FALSE

(* After an error the caller frees the string, unless it is one of KeepUsing. *)
Callable == ~overrun /\ (last.ret = "ERR" => last.op \in KeepUsing)

(***************************************************************************)
(* Reserving space.                                                        *)
(***************************************************************************)

Buffer == [data |-> data, alloc |-> alloc, cap |-> capacity]

(* What jstr_reserveexact can leave when it succeeds. *)
ReservedExactAlways(need) ==
  IF need = 0 THEN {Buffer} ELSE {Resized(Buffer, c) : c \in {need} \cap 1..MaxCap}

ReservedExact(need) ==
  IF need < capacity THEN {Buffer} ELSE ReservedExactAlways(need)

(***************************************************************************)
(* How a call ends: b is the buffer it works on once space is reserved, d  *)
(* the bytes it leaves there, sz the new size and extent one past the last *)
(* byte it accessed.                                                       *)
(***************************************************************************)
Return(op, b, d, sz, extent) ==
  /\ data' = d
  /\ alloc' = b.alloc
  /\ capacity' = b.cap
  /\ size' = sz
  /\ overrun' = (extent > b.alloc)
  /\ last' = [op |-> op, ret |-> "SUCC"]

Fail(op) ==
  /\ last' = [op |-> op, ret |-> "ERR"]
  /\ UNCHANGED <<data, alloc, size, capacity, overrun>>

(* jstr_reserveexactalways stores the new capacity before it calls realloc. *)
FailExact(op, need) ==
  /\ need # 0
  /\ need <= MaxCap
  /\ capacity' = need
  /\ last' = [op |-> op, ret |-> "ERR"]
  /\ UNCHANGED <<data, alloc, size, overrun>>

Reserve ==
  /\ Callable
  /\ \E need \in 0..MaxCap :
       \/ \E b \in Reserved(Buffer, need) : Return("reserve", b, b.data, size, 0)
       \/ ReserveFails(Buffer, need) /\ Fail("reserve")

ReserveAlways ==
  /\ Callable
  /\ \E need \in 0..MaxCap :
       \/ \E b \in ReservedAlways(Buffer, need) :
            Return("reservealways", b, b.data, size, 0)
       \/ Fail("reservealways")

(* NEW_CAP must include NUL: a caller asks for more than the size it has. *)
ReserveExact ==
  /\ Callable
  /\ \E need \in 0..MaxCap :
       \/ \E b \in ReservedExact(need) :
            Return("reserveexact", b, b.data, size, 0)
       \/ need >= capacity /\ FailExact("reserveexact", need)

ReserveExactAlways ==
  /\ Callable
  /\ \E need \in {0} \cup (size + 1)..MaxCap :
       \/ \E b \in ReservedExactAlways(need) :
            Return("reserveexactalways", b, b.data, size, 0)
       \/ FailExact("reserveexactalways", need)

ShrinkToFit ==
  /\ Callable
  /\ \/ \E b \in ReservedExactAlways(size + 1) :
          Return("shrink_to_fit", b, b.data, size, 0)
     \/ FailExact("shrink_to_fit", size + 1)

Free ==
  /\ ~overrun
  /\ data' = Null
  /\ alloc' = 0
  /\ capacity' = 0
  /\ size' = 0
  /\ last' = [op |-> "free", ret |-> "SUCC"]
  /\ UNCHANGED overrun

(***************************************************************************)
(* Filling the string.                                                     *)
(***************************************************************************)

AppendLen ==
  /\ Callable
  /\ \E src \in Srcs :
       \/ \E b \in Reserved(Buffer, size + Len(src) + 1) :
            Return("append_len", b, StrCpy(b.data, size, src),
                   size + Len(src), size + Len(src) + 1)
       \/ ReserveFails(Buffer, size + Len(src) + 1) /\ Fail("append_len")

(* jstr_cat of the two arguments x and y, and of arguments that are empty. *)
Cat ==
  /\ Callable
  /\ \E x, y \in Srcs :
       LET src == x \o y
       IN  \/ src = <<>> /\ Return("cat", Buffer, data, size, 0)
           \/ /\ src # <<>>
              /\ \E b \in Reserved(Buffer, size + Len(src) + 1) :
                   Return("cat", b, StrCpy(b.data, size, src),
                          size + Len(src), size + Len(src) + 1)
           \/ /\ src # <<>>
              /\ ReserveFails(Buffer, size + Len(src) + 1)
              /\ Fail("cat")

(* The va_list variant: with no argument at all it terminates nothing. *)
InternalCat ==
  /\ Callable
  /\ \/ \E b \in Reserved(Buffer, size + 1) :
          Return("internal_cat", b, b.data, size, 0)
     \/ ReserveFails(Buffer, size + 1) /\ Fail("internal_cat")
     \/ \E x, y \in Srcs :
          LET src == x \o y
          IN  \/ \E b \in Reserved(Buffer, size + Len(src) + 1) :
                   Return("internal_cat", b, StrCpy(b.data, size, src),
                          size + Len(src), size + Len(src) + 1)
              \/ ReserveFails(Buffer, size + Len(src) + 1) /\ Fail("internal_cat")

(* memset up to the first NUL, which the caller must have put there. *)
StrSet ==
  /\ Callable
  /\ \E n \in 0..(alloc - 1), c \in Char :
       /\ data[n] = NUL
       /\ \A i \in 0..(n - 1) : data[i] \in Char
       /\ Return("strset", Buffer, Fill(data, 0, c, n), size, n + 1)

(* Grows whenever n exceeds the size, not the capacity. *)
AssignNChr ==
  /\ Callable
  /\ \E c \in Char, n \in 0..MaxN :
       \/ \E b \in IF n > size THEN ReservedAlways(Buffer, n + 1) ELSE {Buffer} :
            Return("assignnchr", b, Fill(Fill(b.data, 0, c, n), n, NUL, 1),
                   n, n + 1)
       \/ n > size /\ n + 1 <= MaxCap /\ Fail("assignnchr")

AssignLen ==
  /\ Callable
  /\ \E src \in Srcs :
       \/ \E b \in Reserved(Buffer, size + Len(src) + 1) :
            Return("assign_len", b, StrCpy(b.data, 0, src),
                   Len(src), Len(src) + 1)
       \/ ReserveFails(Buffer, size + Len(src) + 1) /\ Fail("assign_len")

PushBack ==
  /\ Callable
  /\ \E c \in Char :
       \/ \E b \in Reserved(Buffer, size + 1 + 1) :
            Return("pushback", b, StrCpy(b.data, size, <<c>>),
                   size + 1, size + 2)
       \/ ReserveFails(Buffer, size + 1 + 1) /\ Fail("pushback")

(* Room is reserved for the terminator, but only the N characters are set. *)
PushBackN ==
  /\ Callable
  /\ \E c \in Char, n \in 0..MaxN :
       \/ \E b \in Reserved(Buffer, size + n + 1) :
            Return("pushbackn", b, Fill(b.data, size, c, n),
                   size + n, size + n)
       \/ ReserveFails(Buffer, size + n + 1) /\ Fail("pushbackn")

PushFront ==
  /\ Callable
  /\ \E c \in Char :
       \/ \E b \in Reserved(Buffer, size + 1 + 1) :
            Return("pushfront", b, Fill(StrMove(b.data, 1, 0, size), 0, c, 1),
                   size + 1, size + 2)
       \/ ReserveFails(Buffer, size + 1 + 1) /\ Fail("pushfront")

PushFrontN ==
  /\ Callable
  /\ \E c \in Char, n \in 0..MaxN :
       \/ \E b \in Reserved(Buffer, size + n + 1) :
            Return("pushfrontn", b, Fill(StrMove(b.data, n, 0, size), 0, c, n),
                   size + n, size + n + 1)
       \/ ReserveFails(Buffer, size + n + 1) /\ Fail("pushfrontn")

PrependLen ==
  /\ Callable
  /\ \E src \in Srcs :
       \/ \E b \in Reserved(Buffer, size + Len(src) + 1) :
            LET moved == IF size # 0
                         THEN StrMove(b.data, Len(src), 0, size)
                         ELSE Fill(b.data, Len(src), NUL, 1)
            IN  Return("prepend_len", b, Copy(moved, 0, src),
                       size + Len(src), size + Len(src) + 1)
       \/ ReserveFails(Buffer, size + Len(src) + 1) /\ Fail("prepend_len")

(***************************************************************************)
(* Shortening it.  The pop functions return the new end; the caller stores *)
(* it in size.                                                             *)
(***************************************************************************)

PopBack ==
  /\ Callable
  /\ \/ size = 0 /\ Return("popback", Buffer, data, size, 0)
     \/ /\ size # 0
        /\ Return("popback", Buffer, Fill(data, size - 1, NUL, 1),
                  size - 1, size)

(* Mutated form: the first character of two is kept. *)
PopFrontWrong ==
  /\ Callable
  /\ size # 0
  /\ Return("popfront", Buffer, Move(data, 1, 2, size - 1), size - 1, size + 1)

PopFront ==
  /\ Callable
  /\ \/ size = 0 /\ Return("popfront", Buffer, data, size, 0)
     \/ /\ size # 0
        /\ Return("popfront", Buffer, Move(data, 0, 1, size),
                  size - 1, size + 1)

Empty ==
  /\ Callable
  /\ Return("empty", Buffer, Fill(data, 0, NUL, 1), 0, IF alloc = 0 THEN 0 ELSE 1)

(***************************************************************************)
(* Formatting.  src is the text vsprintf produces.  jstr_vsprintf_maxlen   *)
(* measures it with vsnprintf, which fails on a bad format; vsprintf itself *)
(* may fail half way and leave a prefix of the text.                       *)
(***************************************************************************)

(* What jstr_vsprintf_maxlen returns, the terminator included. *)
MaxLen(src) == Len(src) + 1

Printed(op, b, at, src) ==
  \/ Return(op, b, StrCpy(b.data, at, src), at + Len(src), at + Len(src) + 1)
  \/ \E n \in 0..Len(src) :
       /\ data' = Copy(b.data, at, SubSeq(src, 1, n))
       /\ alloc' = b.alloc
       /\ capacity' = b.cap
       /\ overrun' = (at + n > b.alloc)
       /\ last' = [op |-> op, ret |-> "ERR"]
       /\ UNCHANGED size

Asprintf ==
  /\ Callable
  /\ \/ Fail("asprintf")
     \/ \E src \in Srcs :
          \/ \E b \in ReservedExact(MaxLen(src)) : Printed("asprintf", b, 0, src)
          \/ MaxLen(src) >= capacity /\ FailExact("asprintf", MaxLen(src))

AsprintfAppend ==
  /\ Callable
  /\ \/ Fail("asprintf_append")
     \/ \E src \in Srcs :
          \/ \E b \in Reserved(Buffer, size + MaxLen(src)) :
               Printed("asprintf_append", b, size, src)
          \/ ReserveFails(Buffer, size + MaxLen(src)) /\ Fail("asprintf_append")

(* start_idx is assumed within bounds. *)
AsprintfFrom ==
  /\ Callable
  /\ \/ Fail("asprintf_from")
     \/ \E src \in Srcs, start \in 0..size :
          \/ \E b \in Reserved(Buffer, start + MaxLen(src)) :
               Printed("asprintf_from", b, start, src)
          \/ ReserveFails(Buffer, start + MaxLen(src)) /\ Fail("asprintf_from")

(* jstr_sprintf and jstr_sprintf_from assume that S has enough space. *)
SprintfFrom ==
  /\ Callable
  /\ \E src \in Srcs, start \in 0..size :
       /\ start + Len(src) + 1 <= capacity
       /\ Printed("sprintf_from", Buffer, start, src)

Next ==
  \/ Reserve \/ ReserveAlways \/ ReserveExact \/ ReserveExactAlways
  \/ ShrinkToFit \/ Free
  \/ AppendLen \/ Cat \/ InternalCat \/ StrSet \/ AssignNChr \/ AssignLen
  \/ PushBack \/ PushBackN \/ PushFront \/ PushFrontN \/ PrependLen
  \/ PopBack \/ PopFront \/ Empty
  \/ Asprintf \/ AsprintfAppend \/ AsprintfFrom \/ SprintfFrom

Spec == Init /\ [][Next]_vars

(***************************************************************************)
(* Properties.                                                             *)
(***************************************************************************)

(* Every variable keeps the type jstr_ty and the allocator give it. *)
TypeOK ==
  /\ alloc \in Nat
  /\ size \in Nat
  /\ capacity \in Nat
  /\ data \in Block(alloc)
  /\ last \in [op : Ops, ret : Rets]
  /\ overrun \in BOOLEAN

Usable == last.ret = "ERR" => last.op \notin ExactOps

(* The capacity the library computes for itself is what the allocator gave, *)
(* after any sequence of successful and failed calls; only a failed call of *)
(* the reserveexact family, which stores the new capacity before it calls   *)
(* realloc, may leave a capacity the block does not have.                   *)
Backed == Usable => capacity = alloc

(* Whatever was called, an allocated block has a byte left for the NUL, and *)
(* a string without a block is empty.                                       *)
RoomForNul == IF alloc = 0 THEN size = 0 ELSE size < alloc

(* No sequence of calls makes one touch a byte outside the block, with one *)
(* exception: jstr_assignnchr of 0 characters to a string that was never   *)
(* allocated writes its terminator through the NULL pointer.               *)
InBounds == overrun => last.op = "assignnchr" /\ alloc = 0 /\ size = 0

(* A string that is NUL terminated at its size stays so through every call  *)
(* but jstr_pushbackn, which does not write the terminator it reserved      *)
(* room for, and a formatting call that failed half way.                    *)
KeepsTerminator ==
  [][(alloc # 0 /\ data[size] = NUL)
       => \/ alloc' = 0
          \/ data'[size'] = NUL
          \/ last'.op = "pushbackn"
          \/ last'.ret = "ERR" /\ last'.op \in PrintOps]_vars

(* The contents of the block, as the abstract string. *)
Abstract == INSTANCE JString WITH
  str <- Prefix(data, size), Char <- Char, Srcs <- Srcs, MaxN <- MaxN

(* Every call has the effect on the contents that JString gives it, whatever *)
(* the block it works in looked like, and a failed one has none.             *)
RefinesJString == Abstract!Spec
==============================================================================
