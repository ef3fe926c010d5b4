-------------------------- MODULE JstrRead_proofs --------------------------
(***************************************************************************)
(* Theorems about JstrRead: for every content and every old string,        *)
(* however the reads are split, whatever fails and whenever the file is    *)
(* truncated, a call that reports success has read all it is said to have  *)
(* read, and one that fails leaves a string the caller can still use.      *)
(***************************************************************************)
EXTENDS JstrRead, JstrMem_proofs

(***************************************************************************)
(* The invariant.                                                          *)
(***************************************************************************)

CallOK == call.op \in Ops /\ call.content \in Seq(Char)

(* The first k bytes of the block d are those of the content c, the rest t  *)
(* of the source is what follows them, up to where the file was cut.        *)
Held(d, t, c, k) ==
  /\ k + Len(t) <= Len(c)
  /\ \A j \in 1..k : d[j - 1] = c[j]
  /\ \A j \in 1..Len(t) : t[j] = c[k + j]

(* The size fits the block, with room for the terminator. *)
Fits == IF alloc = 0 THEN size = 0 ELSE size < alloc

(* The old string, in its block or a larger one. *)
Unread ==
  /\ pc \in {"open", "size", "pipe"} =>
       /\ Fits /\ got = 0
       /\ Held(data, rest, call.content, 0) /\ Len(rest) = Len(call.content)
  /\ pc \in {"size", "read"} => call.op \notin Pipes
  /\ pc \in {"pipe", "more", "grow", "end"} => call.op \in Pipes

Reading ==
  pc = "read" =>
    /\ Fits
    /\ Len(call.content) < alloc
    /\ got + left = Len(call.content)
    /\ call.op \in Streams /\ left # 0 => got = 0
    /\ Held(data, rest, call.content, got)

Piping ==
  pc \in {"more", "grow", "end"} =>
    /\ Held(data, rest, call.content, size) /\ size + Len(rest) = Len(call.content)
    /\ IF pc = "grow" THEN size = alloc /\ size > 0 ELSE size < alloc

(* Everything has been read, or a read that was cut short was taken for the *)
(* end.                                                                     *)
Complete ==
  \/ size = Len(call.content)
  \/ short /\ call.op = "readstdin"
  \/ short /\ call.op = "readsystem" /\ size < BufSize

Whole ==
  /\ pc = "end" => Complete
  /\ pc \in {"close", "done"} /\ ret = "SUCC" =>
       /\ Complete
       /\ size < alloc /\ size <= Len(call.content)
       /\ data[size] = NUL
       /\ \A j \in 1..size : data[j - 1] = call.content[j]

(* What is left when the call is over. *)
Usable ==
  /\ pc \notin {"close", "done"} => capacity = alloc /\ ret = "SUCC"
  /\ pc \in {"close", "done"} =>
       IF capacity = alloc THEN Fits ELSE size = alloc /\ call.op \in Pipes
  /\ pc = "done" => fd # "open"

IInv == TypeOK /\ CallOK /\ ~overrun /\ Unread /\ Reading /\ Piping /\ Whole /\ Usable

(***************************************************************************)
(* Taking the next part of the source.                                     *)
(***************************************************************************)

LEMMA PartProperties ==
  ASSUME NEW t \in Seq(Char), NEW r \in 0..Len(t)
  PROVE  /\ SubSeq(t, 1, r) \in Seq(Char) /\ Len(SubSeq(t, 1, r)) = r
         /\ \A j \in 1..r : SubSeq(t, 1, r)[j] = t[j]
         /\ SubSeq(t, r + 1, Len(t)) \in Seq(Char) /\ Len(SubSeq(t, r + 1, Len(t))) = Len(t) - r
         /\ \A j \in 1..(Len(t) - r) : SubSeq(t, r + 1, Len(t))[j] = t[r + j]
<1>1. (\A j \in 1..r : t[j] \in Char) /\ (\A j \in (r + 1)..Len(t) : t[j] \in Char)
  OBVIOUS
<1>2. /\ SubSeq(t, 1, r) \in Seq(Char) /\ Len(SubSeq(t, 1, r)) = r
      /\ \A j \in 1..r : SubSeq(t, 1, r)[j] = t[j]
  BY <1>1, SubSeqProperties
<1>3. /\ SubSeq(t, r + 1, Len(t)) \in Seq(Char) /\ Len(SubSeq(t, r + 1, Len(t))) = Len(t) - r
      /\ \A j \in 1..(Len(t) - r) : SubSeq(t, r + 1, Len(t))[j] = t[r + j]
  BY <1>1, SubSeqProperties
<1> QED BY <1>2, <1>3

(* r bytes more of the source are put behind the k bytes already there. *)
LEMMA TakeHeld ==
  ASSUME NEW n \in Nat, NEW m \in Block(n), NEW t \in Seq(Char), NEW c \in Seq(Char),
         NEW k \in Nat, Held(m, t, c, k), NEW r \in 0..Len(t), k + r <= n
  PROVE  /\ Copy(m, k, SubSeq(t, 1, r)) \in Block(n)
         /\ SubSeq(t, r + 1, Len(t)) \in Seq(Char)
         /\ Len(SubSeq(t, r + 1, Len(t))) = Len(t) - r
         /\ Held(Copy(m, k, SubSeq(t, 1, r)), SubSeq(t, r + 1, Len(t)), c, k + r)
<1> DEFINE f == SubSeq(t, 1, r)
           u == SubSeq(t, r + 1, Len(t))
           d == Copy(m, k, f)
<1>1. /\ f \in Seq(Char) /\ Len(f) = r /\ \A j \in 1..r : f[j] = t[j]
      /\ u \in Seq(Char) /\ Len(u) = Len(t) - r /\ \A j \in 1..(Len(t) - r) : u[j] = t[r + j]
  BY PartProperties
<1> HIDE DEF f, u
<1>2. d \in Block(n)
  BY <1>1, CopyType
<1>3. \A j \in 1..(k + r) : d[j - 1] = c[j]
  <2>0. \A i \in 0..(n - 1) :
          d[i] = IF k <= i /\ i < k + Len(f) THEN f[i - k + 1] ELSE m[i]
    BY DEF Copy, Block
  <2> TAKE j \in 1..(k + r)
  <2>1. j - 1 \in 0..(n - 1)
    OBVIOUS
  <2>2. d[j - 1] = IF k <= j - 1 /\ j - 1 < k + Len(f) THEN f[(j - 1) - k + 1] ELSE m[j - 1]
    BY <2>0, <2>1
  <2>3. CASE j <= k
    BY <1>1, <2>2, <2>3 DEF Held
  <2>4. CASE j > k
    <3>1. j - k \in 1..r /\ (j - 1) - k + 1 = j - k /\ k + (j - k) = j
      BY <2>4
    <3>2. d[j - 1] = f[j - k]
      BY <1>1, <2>2, <2>4, <3>1
    <3>3. f[j - k] = t[j - k]
      BY <1>1, <3>1
    <3>4. t[j - k] = c[k + (j - k)]
      BY <3>1 DEF Held
    <3> QED BY <3>1, <3>2, <3>3, <3>4
  <2> QED BY <2>3, <2>4
<1>4. \A j \in 1..Len(u) : u[j] = c[k + r + j]
  <2> TAKE j \in 1..Len(u)
  <2>1. j \in 1..(Len(t) - r) /\ r + j \in 1..Len(t) /\ k + (r + j) = k + r + j
    BY <1>1
  <2> QED BY <1>1, <2>1 DEF Held
<1>5. k + r + Len(u) <= Len(c)
  BY <1>1 DEF Held
<1>6. Held(d, u, c, k + r)
  BY <1>3, <1>4, <1>5 DEF Held
<1> QED BY <1>1, <1>2, <1>6 DEF f, u

(* What was read stays read when the block is moved. *)
LEMMA HeldKept ==
  ASSUME NEW m, NEW d, NEW t, NEW c, NEW k \in Nat, Held(m, t, c, k),
         \A j \in 0..(k - 1) : d[j] = m[j]
  PROVE  Held(d, t, c, k)
<1>1. \A j \in 1..k : d[j - 1] = m[j - 1]
  OBVIOUS
<1> QED BY <1>1 DEF Held

LEMMA BufferSound ==
  ASSUME TypeOK, capacity = alloc
  PROVE  Sound(Buffer) /\ Buffer.data = data /\ Buffer.alloc = alloc /\ Buffer.cap = capacity
BY DEF TypeOK, Sound, Buffer

LEMMA InBlock ==
  ASSUME NEW b, NEW extent, ~overrun, ~(extent > b.alloc), Touch(b, extent)
  PROVE  ~overrun' /\ overrun' \in BOOLEAN
BY DEF Touch

(***************************************************************************)
(* One lemma for each action.                                              *)
(***************************************************************************)

LEMMA InitInv == Init => IInv
<1> SUFFICES ASSUME Init PROVE IInv
  OBVIOUS
<1>1. PICK op \in Ops, content \in Contents, old \in Olds :
        /\ call = [op |-> op, content |-> content, old |-> old]
        /\ rest = content
        /\ size = Len(old)
        /\ alloc = IF old = <<>> THEN 0 ELSE Len(old) + 1
        /\ data = StrCpy([k \in 0..(alloc - 1) |-> Junk], 0, old)
        /\ capacity = alloc
        /\ fd = IF op \in Opening THEN "none" ELSE "caller"
  BY DEF Init
<1>2. /\ content \in Seq(Char) /\ old \in Seq(Char)
      /\ Len(content) \in Nat /\ Len(old) \in Nat
      /\ old = <<>> => Len(old) = 0
  BY ContentsAssumption
<1>3. size \in Nat /\ alloc \in Nat /\ capacity = alloc /\ Fits
  BY <1>1, <1>2 DEF Fits
<1>4. [k \in 0..(alloc - 1) |-> Junk] \in Block(alloc)
  BY DEF Block, Byte
<1>5. data \in Block(alloc)
  BY <1>1, <1>2, <1>3, <1>4, StrCpyType
<1>6. CallOK /\ rest = call.content /\ rest \in Seq(Char)
  BY <1>1, <1>2 DEF CallOK
<1>7. Held(data, rest, call.content, 0)
  BY <1>6 DEF Held
<1>8. /\ pc = "open" /\ got = 0 /\ left = 0 /\ short = FALSE /\ ret = "SUCC" /\ overrun = FALSE
      /\ fd \in {"none", "caller"}
  BY <1>1 DEF Init
<1>9. TypeOK
  BY <1>3, <1>5, <1>6, <1>8 DEF TypeOK
<1> QED BY <1>3, <1>6, <1>7, <1>8, <1>9 DEF IInv, Unread, Reading, Piping, Whole, Usable

LEMMA TruncateKeeps == ASSUME IInv, Truncate PROVE IInv'
<1>1. PICK k \in 0..(Len(rest) - 1) : rest' = SubSeq(rest, 1, k)
  BY DEF Truncate
<1>2. rest \in Seq(Char) /\ k \in 0..Len(rest)
  BY DEF IInv, TypeOK
<1>3. rest' \in Seq(Char) /\ Len(rest') = k /\ \A j \in 1..k : rest'[j] = rest[j]
  BY <1>1, <1>2, PartProperties
<1>4. /\ pc = "read" /\ call.op \notin Pipes
      /\ UNCHANGED <<data, alloc, size, capacity, call, pc, got, left, fd, short, ret, overrun>>
  BY DEF Truncate, string
<1>5. TypeOK' /\ CallOK' /\ ~overrun'
  BY <1>3, <1>4 DEF IInv, TypeOK, CallOK
<1>6. Held(data, rest, call.content, got) /\ call.content \in Seq(Char) /\ got \in Nat
  BY <1>4 DEF IInv, TypeOK, CallOK, Reading
<1>7. k <= Len(rest) /\ k \in Nat /\ Len(rest) \in Nat /\ Len(call.content) \in Nat
  BY <1>2, <1>6
<1>8. Held(data, rest', call.content, got)
  <2>1. \A j \in 1..k : rest'[j] = call.content[got + j]
    <3> TAKE j \in 1..k
    <3>1. j \in 1..Len(rest)
      BY <1>7
    <3>2. rest'[j] = rest[j]
      BY <1>3
    <3>3. rest[j] = call.content[got + j]
      BY <1>6, <3>1 DEF Held
    <3> QED BY <3>2, <3>3
  <2>2. got + k <= Len(call.content)
    BY <1>6, <1>7 DEF Held
  <2> QED BY <1>3, <1>6, <2>1, <2>2 DEF Held
<1>9. Held(data', rest', call'.content, got')
  BY <1>4, <1>8
<1> QED BY <1>4, <1>5, <1>9 DEF IInv, Unread, Reading, Piping, Whole, Complete, Usable, Fits

LEMMA OpenKeeps == ASSUME IInv, Open PROVE IInv'
<1>1. /\ pc = "open"
      /\ UNCHANGED <<data, alloc, size, capacity, call, rest, got, left, short, overrun>>
  BY DEF Open, string
<1>2. TypeOK' /\ CallOK' /\ ~overrun'
  BY <1>1 DEF IInv, TypeOK, CallOK, Open
<1>3. CASE /\ fd' = IF fd = "none" THEN "open" ELSE fd
           /\ pc' = IF call.op \in Pipes THEN "pipe" ELSE "size"
           /\ UNCHANGED ret
  BY <1>1, <1>2, <1>3 DEF IInv, Unread, Reading, Piping, Whole, Usable, Fits, Held
<1>4. CASE fd = "none" /\ ret' = "ERR" /\ pc' = "done" /\ UNCHANGED fd
  BY <1>1, <1>2, <1>4 DEF IInv, Unread, Reading, Piping, Whole, Usable, Fits
<1> QED BY <1>3, <1>4 DEF Open

(* A call that fails before it has stored a new size. *)
LEMMA FailKeeps ==
  ASSUME IInv, TypeOK', Fail, Fits, capacity = alloc,
         UNCHANGED <<alloc, size, capacity, call, overrun>>
  PROVE  IInv'
<1>1. pc' = "close" /\ ret' = "ERR"
  BY DEF Fail
<1> QED BY <1>1 DEF IInv, CallOK, Unread, Reading, Piping, Whole, Usable, Fits

LEMMA SizeKeeps == ASSUME IInv, Size PROVE IInv'
<1> DEFINE need == Len(rest) + 1
<1>1. /\ pc = "size" /\ UNCHANGED <<size, call, rest, got, fd, short, overrun>>
      /\ TypeOK /\ CallOK /\ capacity = alloc /\ Fits
      /\ need \in Nat /\ Len(rest) \in Nat /\ size \in Nat /\ alloc \in Nat
  BY DEF Size, IInv, TypeOK, Unread, Usable
<1>2. ASSUME NEW b \in Reserved(Buffer, need), Works(b, b.data), left' = Len(rest),
             pc' = "read", UNCHANGED ret
      PROVE  IInv'
  <2>1. Sound(b) /\ b.alloc >= need /\ b.alloc >= alloc
    BY <1>1, BufferSound, ReserveSound
  <2>2. /\ data' = b.data /\ alloc' = b.alloc /\ capacity' = alloc' /\ alloc' \in Nat
        /\ data' \in Block(alloc')
    BY <1>2, <2>1 DEF Works, Sound
  <2>3. TypeOK'
    BY <1>1, <1>2, <2>2 DEF TypeOK
  <2>4. /\ Len(rest) = Len(call.content) /\ got = 0 /\ call.op \notin Pipes
        /\ Held(data, rest, call.content, 0)
    BY <1>1 DEF IInv, Unread
  <2>5. Held(data', rest', call'.content, got')
    BY <1>1, <2>4 DEF Held
  <2>6. Fits' /\ Len(call.content) < alloc'
    BY <1>1, <2>1, <2>2, <2>4 DEF Fits
  <2>7. Reading'
    BY <1>1, <1>2, <2>4, <2>5, <2>6 DEF Reading
  <2> QED BY <1>1, <1>2, <2>2, <2>3, <2>4, <2>7 DEF IInv, CallOK, Unread, Piping, Whole, Usable
<1>3. CASE Fail /\ UNCHANGED <<data, alloc, capacity, left>>
  <2>1. TypeOK'
    BY <1>1, <1>3 DEF Fail, TypeOK
  <2> QED BY <1>1, <1>3, <2>1, FailKeeps
<1> QED BY <1>2, <1>3 DEF Size

LEMMA ReadPartKeeps == ASSUME IInv, ReadPart PROVE IInv'
<1>1. /\ pc = "read" /\ UNCHANGED <<alloc, size, capacity, call, fd, short>>
      /\ TypeOK /\ CallOK /\ capacity = alloc /\ Reading /\ Fits /\ call.op \notin Streams
      /\ Len(call.content) \in Nat
  BY DEF ReadPart, IInv, TypeOK, CallOK, Usable, Reading
<1>2. ASSUME NEW r \in 1..(IF left < Len(rest) THEN left ELSE Len(rest)),
             data' = Copy(data, got, SubSeq(rest, 1, r)), Touch(Buffer, got + r),
             rest' = SubSeq(rest, r + 1, Len(rest)),
             got' = got + r, left' = left - r, UNCHANGED <<pc, ret>>
      PROVE  IInv'
  <2>1. /\ r \in 0..Len(rest) /\ r <= left /\ got \in Nat /\ left \in Nat /\ alloc \in Nat
        /\ rest \in Seq(Char) /\ call.content \in Seq(Char) /\ data \in Block(alloc)
    BY <1>1 DEF TypeOK, CallOK
  <2>2. got + r <= Len(call.content) /\ got + r <= alloc /\ Held(data, rest, call.content, got)
    BY <1>1, <2>1 DEF Reading
  <2>3. data' \in Block(alloc) /\ Held(data', rest', call.content, got + r) /\ rest' \in Seq(Char)
    BY <1>2, <2>1, <2>2, TakeHeld
  <2>4. got' = got + r /\ left' = left - r /\ got' \in Nat /\ left' \in Nat
    BY <1>2, <2>1
  <2>5. ~overrun' /\ overrun' \in BOOLEAN
    <3>1. ~(got + r > Buffer.alloc)
      BY <2>1, <2>2 DEF Buffer
    <3> QED BY <1>2, <3>1, InBlock DEF IInv
  <2>6. UNCHANGED <<pc, ret>>
    BY <1>2
  <2>7. TypeOK' /\ CallOK'
    BY <1>1, <2>3, <2>4, <2>5, <2>6 DEF TypeOK, CallOK
  <2>8. got' + left' = Len(call.content)
    BY <1>1, <2>1, <2>4 DEF Reading
  <2>9. Reading'
    BY <1>1, <2>3, <2>4, <2>6, <2>8 DEF Reading, Fits
  <2> QED BY <1>1, <2>5, <2>6, <2>7, <2>9 DEF IInv, Unread, Piping, Whole, Usable
<1>3. CASE Fail /\ UNCHANGED <<data, overrun, rest, got, left>>
  <2>1. TypeOK'
    BY <1>1, <1>3 DEF Fail, TypeOK
  <2> QED BY <1>1, <1>3, <2>1, FailKeeps
<1> QED BY <1>2, <1>3 DEF ReadPart

LEMMA FreadFileKeeps == ASSUME IInv, FreadFile PROVE IInv'
<1>1. /\ pc = "read" /\ UNCHANGED <<alloc, size, capacity, call, fd, short>>
      /\ TypeOK /\ CallOK /\ capacity = alloc /\ Reading /\ Fits /\ got = 0
      /\ Len(call.content) \in Nat
  BY DEF FreadFile, IInv, TypeOK, CallOK, Usable, Reading
<1>2. PICK r \in 0..(IF left < Len(rest) THEN left ELSE Len(rest)) :
        /\ data' = Copy(data, 0, SubSeq(rest, 1, r))
        /\ Touch(Buffer, r)
        /\ rest' = SubSeq(rest, r + 1, Len(rest))
        /\ got' = r
        /\ left' = left - r
        /\ IF r = left THEN UNCHANGED <<pc, ret>> ELSE Fail
  BY DEF FreadFile
<1>3. /\ r \in 0..Len(rest) /\ r <= left /\ left \in Nat /\ alloc \in Nat
      /\ rest \in Seq(Char) /\ call.content \in Seq(Char) /\ data \in Block(alloc)
      /\ left = Len(call.content)
  BY <1>1 DEF TypeOK, CallOK, Reading
<1>4. 0 + r = r /\ 0 + r <= alloc /\ Held(data, rest, call.content, 0)
  BY <1>1, <1>3 DEF Reading
<1>5. data' \in Block(alloc) /\ Held(data', rest', call.content, r) /\ rest' \in Seq(Char)
  BY <1>2, <1>3, <1>4, TakeHeld
<1>6. got' = r /\ left' = left - r /\ got' \in Nat /\ left' \in Nat
      /\ ~overrun' /\ overrun' \in BOOLEAN
  <2>1. ~(r > Buffer.alloc)
    BY <1>3, <1>4 DEF Buffer
  <2> QED BY <1>2, <1>3, <2>1, InBlock DEF IInv
<1>7. TypeOK' /\ CallOK'
  BY <1>1, <1>2, <1>5, <1>6 DEF TypeOK, CallOK, Fail
<1>8. CASE r = left
  <2>1. Reading'
    BY <1>1, <1>2, <1>3, <1>5, <1>8 DEF Reading, Fits
  <2> QED BY <1>1, <1>2, <1>6, <1>7, <1>8, <2>1 DEF IInv, Unread, Piping, Whole, Usable
<1>9. CASE r # left
  BY <1>1, <1>2, <1>6, <1>7, <1>9 DEF IInv, Unread, Reading, Piping, Whole, Usable, Fail, Fits
<1> QED BY <1>8, <1>9

(* The string is terminated behind the last byte read. *)
LEMMA Terminates ==
  ASSUME NEW n \in Nat, NEW m \in Block(n), NEW k \in Nat, k < n, NEW c \in Seq(Char),
         \A j \in 1..k : m[j - 1] = c[j]
  PROVE  /\ Fill(m, k, NUL, 1) \in Block(n)
         /\ Fill(m, k, NUL, 1)[k] = NUL
         /\ \A j \in 1..k : Fill(m, k, NUL, 1)[j - 1] = c[j]
<1>1. Fill(m, k, NUL, 1) \in Block(n)
  BY FillType, NULType
<1>2. \A i \in 0..(n - 1) : Fill(m, k, NUL, 1)[i] = IF k <= i /\ i < k + 1 THEN NUL ELSE m[i]
  BY DEF Fill, Block
<1>3. k \in 0..(n - 1) /\ \A j \in 1..k : j - 1 \in 0..(n - 1) /\ j - 1 < k
  OBVIOUS
<1>4. Fill(m, k, NUL, 1)[k] = NUL
  BY <1>2, <1>3
<1>5. \A j \in 1..k : Fill(m, k, NUL, 1)[j - 1] = m[j - 1]
  BY <1>2, <1>3
<1> QED BY <1>1, <1>4, <1>5

(* A file read to its end. *)
LEMMA TerminateEnds ==
  ASSUME IInv, pc = "read", left = 0, Terminate, ret' = ret, pc' \in {"close", "done"},
         pc' = "done" => fd' # "open", fd' \in {"caller", "none", "open", "closed"},
         UNCHANGED <<alloc, capacity, call, rest, got, left, short>>
  PROVE  IInv'
<1>1. /\ TypeOK /\ CallOK /\ capacity = alloc /\ ret = "SUCC" /\ Len(call.content) \in Nat
      /\ data \in Block(alloc) /\ alloc \in Nat /\ got \in Nat
      /\ got = Len(call.content) /\ got < alloc /\ Held(data, rest, call.content, got)
  BY DEF IInv, TypeOK, CallOK, Usable, Reading
<1>2. /\ data' \in Block(alloc) /\ data'[got] = NUL
      /\ \A j \in 1..got : data'[j - 1] = call.content[j]
  <2>1. \A j \in 1..got : data[j - 1] = call.content[j]
    BY <1>1 DEF Held
  <2>2. data' = Fill(data, got, NUL, 1)
    BY DEF Terminate
  <2>3. call.content \in Seq(Char)
    BY <1>1 DEF CallOK
  <2>4. /\ Fill(data, got, NUL, 1) \in Block(alloc) /\ Fill(data, got, NUL, 1)[got] = NUL
        /\ \A j \in 1..got : Fill(data, got, NUL, 1)[j - 1] = call.content[j]
    BY <1>1, <2>1, <2>3, Terminates, SMTT(30)
  <2> QED BY <2>2, <2>4
<1>3. size' = got
  BY DEF Terminate
<1>4. ~overrun' /\ overrun' \in BOOLEAN
  <2>1. ~(got + 1 > Buffer.alloc)
    BY <1>1 DEF Buffer
  <2> QED BY <2>1, InBlock DEF Terminate, IInv
<1>5. TypeOK' /\ CallOK'
  BY <1>1, <1>2, <1>3, <1>4 DEF TypeOK, CallOK
<1>6. Whole'
  BY <1>1, <1>2, <1>3 DEF Whole, Complete
<1>7. Usable'
  BY <1>1, <1>3 DEF Usable, Fits
<1> QED BY <1>4, <1>5, <1>6, <1>7 DEF IInv, Unread, Reading, Piping

LEMMA ReadDoneKeeps == ASSUME IInv, ReadDone PROVE IInv'
<1>1. fd \in {"caller", "none", "open", "closed"}
  BY DEF IInv, TypeOK
<1> QED BY <1>1, TerminateEnds DEF ReadDone

LEMMA ReadFileDoneKeeps == ASSUME IInv, ReadFileDone PROVE IInv'
<1>1. /\ pc = "read" /\ left = 0 /\ fd' = "closed" /\ pc' = "done"
      /\ UNCHANGED <<alloc, capacity, call, rest, got, left, short>>
  BY DEF ReadFileDone
<1>2. CASE Terminate /\ UNCHANGED ret
  BY <1>1, <1>2, TerminateEnds
<1>3. CASE ret' = "ERR" /\ UNCHANGED <<data, size, overrun>>
  BY <1>1, <1>3
  DEF IInv, TypeOK, CallOK, Unread, Reading, Piping, Whole, Usable, Fits
<1> QED BY <1>2, <1>3 DEF ReadFileDone

-----------------------------------------------------------------------------
(* Pipes.                                                                  *)

(* What a read of k bytes may give, and what it means. *)
LEMMA GivenProperties ==
  ASSUME rest \in Seq(Char), NEW k \in Nat \ {0}, NEW r \in Given(k)
  PROVE  /\ r \in 0..Len(rest) /\ r <= k
         /\ r = 0 => Len(rest) = 0
         /\ AtMost(k) \in Nat /\ r <= AtMost(k)
         /\ r < k /\ ~(r < Len(rest)) => r = Len(rest)
         /\ r = AtMost(k) /\ r < k => r = Len(rest)
<1>1. AtMost(k) \in Nat /\ AtMost(k) <= k /\ AtMost(k) <= Len(rest) /\ Len(rest) \in Nat
  BY DEF AtMost
<1>2. AtMost(k) = k \/ AtMost(k) = Len(rest)
  BY DEF AtMost
<1>3. r \in 0..AtMost(k) /\ (r = 0 => AtMost(k) = 0)
  BY <1>1 DEF Given
<1> QED BY <1>1, <1>2, <1>3

LEMMA ReadFirstKeeps == ASSUME IInv, ReadFirst PROVE IInv'
<1>1. /\ pc = "pipe" /\ UNCHANGED <<call, got, left, fd>>
      /\ TypeOK /\ CallOK /\ capacity = alloc /\ ret = "SUCC" /\ Fits /\ call.op \in Pipes
      /\ Held(data, rest, call.content, 0) /\ Len(rest) = Len(call.content)
      /\ rest \in Seq(Char) /\ call.content \in Seq(Char)
  BY DEF ReadFirst, IInv, TypeOK, CallOK, Unread, Usable
<1>2. CASE Fail /\ UNCHANGED <<string, rest, short, overrun>>
  <2>1. TypeOK'
    BY <1>1, <1>2 DEF Fail, TypeOK, string
  <2> QED BY <1>1, <1>2, <2>1, FailKeeps DEF string
<1>3. ASSUME NEW r \in Given(BufSize), Take(BufSize, r)
      PROVE  r \in 0..Len(rest) /\ rest' \in Seq(Char) /\ short' \in BOOLEAN
  <2>1. r \in 0..Len(rest)
    BY <1>1, <1>3, GivenProperties, BufSizeAssumption
  <2>2. rest' \in Seq(Char)
    BY <1>1, <1>3, <2>1, PartProperties DEF Take
  <2> QED BY <1>3, <2>1, <2>2 DEF Take
<1>4. ASSUME NEW r \in Given(BufSize), Take(BufSize, r), Fail, UNCHANGED <<string, overrun>>
      PROVE  IInv'
  <2>1. rest' \in Seq(Char) /\ short' \in BOOLEAN
    BY <1>3, <1>4
  <2>2. TypeOK'
    BY <1>1, <1>4, <2>1 DEF Fail, TypeOK, string
  <2> QED BY <1>1, <1>4, <2>2, FailKeeps DEF string
<1>5. ASSUME NEW r \in Given(BufSize), Take(BufSize, r), call.op = "readsystem" => r # 0,
             NEW need, need = (IF r = BufSize THEN r * Growth ELSE r + 1),
             NEW b \in Reserved(Buffer, need),
             Works(b, Copy(b.data, 0, SubSeq(rest, 1, r))), Touch(b, r), size' = r,
             pc' = (IF r = BufSize THEN "more" ELSE "end"), UNCHANGED ret
      PROVE  IInv'
  <2>1. /\ r \in 0..Len(rest) /\ r <= BufSize /\ BufSize \in Nat \ {0}
        /\ r < BufSize /\ ~(r < Len(rest)) => r = Len(rest)
    BY <1>1, <1>5, GivenProperties, BufSizeAssumption
  <2>2. need \in Nat /\ r < need
    BY <1>5, <2>1 DEF Growth
  <2>3. Sound(b) /\ b.alloc >= need
    BY <1>1, <2>2, BufferSound, ReserveSound
  <2>4. b.alloc \in Nat /\ b.data \in Block(b.alloc) /\ 0 + r = r /\ 0 + r <= b.alloc /\ r < b.alloc
    BY <2>1, <2>2, <2>3 DEF Sound
  <2>5. Held(b.data, rest, call.content, 0)
    BY <1>1 DEF Held
  <2>6. /\ Copy(b.data, 0, SubSeq(rest, 1, r)) \in Block(b.alloc)
        /\ Held(Copy(b.data, 0, SubSeq(rest, 1, r)), SubSeq(rest, r + 1, Len(rest)),
                call.content, r)
        /\ Len(SubSeq(rest, r + 1, Len(rest))) = Len(rest) - r
    BY <1>1, <2>1, <2>4, <2>5, TakeHeld
  <2>7. /\ data' \in Block(alloc') /\ alloc' \in Nat /\ capacity' = alloc' /\ r < alloc'
        /\ Held(data', rest', call.content, r) /\ Len(rest') = Len(rest) - r
    BY <1>5, <2>3, <2>4, <2>6 DEF Works, Take, Sound
  <2>8. ~overrun' /\ overrun' \in BOOLEAN
    <3>1. ~(r > b.alloc)
      BY <2>1, <2>4
    <3> QED BY <1>5, <3>1, InBlock DEF IInv
  <2>9. rest' \in Seq(Char) /\ short' \in BOOLEAN
    BY <1>3, <1>5
  <2>10. TypeOK' /\ CallOK'
    BY <1>1, <1>5, <2>1, <2>7, <2>8, <2>9 DEF TypeOK, CallOK
  <2>11. Piping'
    BY <1>1, <1>5, <2>1, <2>7 DEF Piping
  <2>12. CASE r = BufSize
    <3>1. pc' = "more"
      BY <1>5, <2>12
    <3> QED BY <1>1, <1>5, <2>7, <2>8, <2>10, <2>11, <3>1 DEF IInv, Unread, Reading, Whole, Usable
  <2>13. CASE r # BufSize
    <3>1. pc' = "end"
      BY <1>5, <2>13
    <3>2. r < BufSize
      BY <2>1, <2>13
    <3>3. short' \/ r = Len(call.content)
      BY <1>1, <1>5, <2>1, <3>2 DEF Take
    <3>4. Complete'
      BY <1>1, <1>5, <3>2, <3>3 DEF Complete, Pipes
    <3> QED BY <1>1, <1>5, <2>7, <2>8, <2>10, <2>11, <3>1, <3>4
            DEF IInv, Unread, Reading, Whole, Usable
  <2> QED BY <2>12, <2>13
<1> QED BY <1>2, <1>4, <1>5 DEF ReadFirst

LEMMA ReadMoreKeeps == ASSUME IInv, ReadMore PROVE IInv'
<1> DEFINE requested == capacity - size
<1>1. /\ pc = "more" /\ UNCHANGED <<alloc, capacity, call, got, left, fd>>
      /\ TypeOK /\ CallOK /\ capacity = alloc /\ ret = "SUCC" /\ call.op \in Pipes
      /\ Held(data, rest, call.content, size) /\ size + Len(rest) = Len(call.content)
      /\ size < alloc /\ size \in Nat /\ alloc \in Nat /\ requested \in Nat \ {0}
      /\ rest \in Seq(Char) /\ call.content \in Seq(Char) /\ data \in Block(alloc)
  BY DEF ReadMore, IInv, TypeOK, CallOK, Unread, Piping, Usable
<1>2. CASE Fail /\ UNCHANGED <<data, size, rest, short, overrun>>
  <2>1. TypeOK'
    BY <1>1, <1>2 DEF Fail, TypeOK
  <2>2. Fits
    BY <1>1 DEF Fits
  <2> QED BY <1>1, <1>2, <2>1, <2>2, FailKeeps
<1>3. ASSUME NEW r \in Given(requested), data' = Copy(data, size, SubSeq(rest, 1, r)),
             Touch(Buffer, size + r), Take(requested, r), size' = size + r,
             IF call.op = "readsystem" /\ r < AtMost(requested)
             THEN Fail
             ELSE pc' = (IF r < requested THEN "end" ELSE "grow") /\ UNCHANGED ret
      PROVE  IInv'
  <2>1. /\ r \in 0..Len(rest) /\ r <= requested /\ AtMost(requested) \in Nat
        /\ r < requested /\ ~(r < Len(rest)) => r = Len(rest)
        /\ r <= AtMost(requested)
        /\ r = AtMost(requested) /\ r < requested => r = Len(rest)
    BY <1>1, <1>3, GivenProperties
  <2>2. size + r <= alloc /\ size + r \in Nat /\ r \in Nat /\ Len(rest) \in Nat
    BY <1>1, <2>1
  <2>3. /\ data' \in Block(alloc)
        /\ Held(data', rest', call.content, size') /\ Len(rest') = Len(rest) - r
        /\ rest' \in Seq(Char)
    <3>1. /\ Copy(data, size, SubSeq(rest, 1, r)) \in Block(alloc)
          /\ Held(Copy(data, size, SubSeq(rest, 1, r)), SubSeq(rest, r + 1, Len(rest)),
                  call.content, size + r)
          /\ SubSeq(rest, r + 1, Len(rest)) \in Seq(Char)
          /\ Len(SubSeq(rest, r + 1, Len(rest))) = Len(rest) - r
      BY <1>1, <2>1, <2>2, TakeHeld
    <3>2. data' = Copy(data, size, SubSeq(rest, 1, r)) /\ size' = size + r
      BY <1>3
    <3>3. rest' = SubSeq(rest, r + 1, Len(rest))
      BY <1>3 DEF Take
    <3> QED BY <3>1, <3>2, <3>3
  <2>4. ~overrun' /\ overrun' \in BOOLEAN
    <3>1. ~(size + r > Buffer.alloc)
      BY <2>2, <1>1 DEF Buffer
    <3> QED BY <1>3, <3>1, InBlock DEF IInv
  <2>5. short' \in BOOLEAN /\ size' \in Nat /\ size' = size + r
    BY <1>3, <2>2 DEF Take
  <2>6. pc' \in {"close", "end", "grow"} /\ ret' \in {"SUCC", "ERR"}
    BY <1>1, <1>3 DEF Fail
  <2>7. TypeOK' /\ CallOK'
    BY <1>1, <2>3, <2>4, <2>5, <2>6 DEF TypeOK, CallOK
  <2>8. size' + Len(rest') = Len(call.content)
    <3>1. \A x, y, z, v \in Nat : x + y = z => (x + v) + (y - v) = z
      OBVIOUS
    <3>2. Len(call.content) \in Nat
      BY <1>1
    <3>3. (size + r) + (Len(rest) - r) = Len(call.content)
      BY <1>1, <2>2, <3>1, <3>2, SMTT(30)
    <3>4. size' = size + r /\ Len(rest') = Len(rest) - r
      BY <2>3, <2>5
    <3> QED BY <3>3, <3>4
  <2>9. CASE call.op = "readsystem" /\ r < AtMost(requested)
    <3>1. pc' = "close" /\ ret' = "ERR"
      BY <1>3, <2>9 DEF Fail
    <3>2. AtMost(requested) <= requested
      BY <1>1 DEF AtMost
    <3>3. size' < alloc
      BY <1>1, <2>1, <2>2, <2>5, <2>9, <3>2
    <3>4. Usable'
      BY <1>1, <3>1, <3>3 DEF Usable, Fits
    <3> QED BY <2>4, <2>7, <3>1, <3>4 DEF IInv, Unread, Reading, Piping, Whole
  <2>10. CASE ~(call.op = "readsystem" /\ r < AtMost(requested)) /\ r < requested
    <3>1. pc' = "end" /\ ret' = "SUCC"
      BY <1>1, <1>3, <2>10
    <3>2. size' < alloc
      BY <1>1, <2>2, <2>5, <2>10
    <3>3. short' \/ r = Len(rest)
      BY <1>3, <2>1, <2>10 DEF Take
    <3>4. r = Len(rest) => size' = Len(call.content)
      BY <1>1, <2>5
    <3>5. call.op = "readsystem" => r = Len(rest)
      BY <2>1, <2>10
    <3>6. Complete'
      BY <1>1, <3>3, <3>4, <3>5 DEF Complete, Pipes
    <3>7. Piping'
      BY <1>1, <2>3, <2>8, <3>1, <3>2 DEF Piping
    <3> QED BY <1>1, <2>4, <2>7, <3>1, <3>6, <3>7 DEF IInv, Unread, Reading, Whole, Usable
  <2>11. CASE ~(call.op = "readsystem" /\ r < AtMost(requested)) /\ ~(r < requested)
    <3>1. pc' = "grow" /\ ret' = "SUCC"
      BY <1>1, <1>3, <2>11
    <3>2. size' = alloc /\ size' > 0
      BY <1>1, <2>1, <2>2, <2>5, <2>11
    <3>3. Piping'
      BY <1>1, <2>3, <2>8, <3>1, <3>2 DEF Piping
    <3> QED BY <1>1, <2>4, <2>7, <3>1, <3>3 DEF IInv, Unread, Reading, Whole, Usable
  <2> QED BY <2>9, <2>10, <2>11
<1> QED BY <1>2, <1>3 DEF ReadMore

LEMMA GrowKeeps == ASSUME IInv, Grow PROVE IInv'
<1> DEFINE b == Resized(Buffer, Grown)
<1>1. /\ pc = "grow" /\ Grown <= MaxCap
      /\ UNCHANGED <<size, call, rest, got, left, fd, short, overrun>>
      /\ TypeOK /\ CallOK /\ ~overrun /\ capacity = alloc /\ ret = "SUCC" /\ call.op \in Pipes
      /\ Held(data, rest, call.content, size) /\ size + Len(rest) = Len(call.content)
      /\ size = alloc /\ size > 0 /\ size \in Nat /\ alloc \in Nat
  BY DEF Grow, IInv, TypeOK, CallOK, Unread, Piping, Usable
<1>2. Grown \in 1..MaxCap /\ Grown > alloc /\ Grown \in Nat
  BY <1>1, BoundsAssumption DEF Grown, Growth
<1>3. CASE Works(b, b.data) /\ pc' = "more" /\ UNCHANGED ret
  <2>1. Sound(b) /\ b.alloc = Grown
    BY <1>1, <1>2, BufferSound, ResizedSound
  <2>2. \A k \in 0..(size - 1) : b.data[k] = data[k]
    BY <1>1, <1>2 DEF Resized, Realloc, Buffer
  <2>3. /\ data' = b.data /\ alloc' = Grown /\ capacity' = alloc' /\ data' \in Block(alloc')
    BY <1>3, <2>1 DEF Works, Sound
  <2>4. TypeOK' /\ CallOK'
    BY <1>1, <1>2, <1>3, <2>3 DEF TypeOK, CallOK
  <2>5. Held(data', rest', call'.content, size')
    BY <1>1, <2>2, <2>3, HeldKept
  <2>6. Piping'
    BY <1>1, <1>2, <1>3, <2>3, <2>5 DEF Piping
  <2> QED BY <1>1, <1>3, <2>3, <2>4, <2>6 DEF IInv, Unread, Reading, Whole, Usable
<1>4. CASE capacity' = Grown /\ Fail /\ UNCHANGED <<data, alloc>>
  <2>1. TypeOK' /\ CallOK'
    BY <1>1, <1>2, <1>4 DEF TypeOK, CallOK, Fail
  <2>2. Usable'
    BY <1>1, <1>2, <1>4 DEF Usable, Fail
  <2> QED BY <1>1, <1>4, <2>1, <2>2 DEF IInv, Unread, Reading, Piping, Whole, Fail
<1> QED BY <1>3, <1>4 DEF Grow

LEMMA ReadEndKeeps == ASSUME IInv, ReadEnd PROVE IInv'
<1>1. /\ pc = "end" /\ pc' = "close" /\ data' = Fill(data, size, NUL, 1)
      /\ Touch(Buffer, size + 1)
      /\ UNCHANGED <<alloc, size, capacity, call, rest, got, left, fd, short, ret>>
      /\ TypeOK /\ CallOK /\ capacity = alloc /\ Complete /\ call.op \in Pipes
      /\ Held(data, rest, call.content, size) /\ size + Len(rest) = Len(call.content)
      /\ size < alloc /\ size \in Nat /\ alloc \in Nat /\ data \in Block(alloc)
      /\ rest \in Seq(Char)
  BY DEF ReadEnd, IInv, TypeOK, CallOK, Unread, Piping, Usable, Whole
<1>2. \A j \in 1..size : data[j - 1] = call.content[j]
  BY <1>1 DEF Held
<1>3. /\ data' \in Block(alloc) /\ data'[size] = NUL
      /\ \A j \in 1..size : data'[j - 1] = call.content[j]
  <2>1. call.content \in Seq(Char)
    BY <1>1 DEF CallOK
  <2>2. /\ Fill(data, size, NUL, 1) \in Block(alloc) /\ Fill(data, size, NUL, 1)[size] = NUL
        /\ \A j \in 1..size : Fill(data, size, NUL, 1)[j - 1] = call.content[j]
    BY <1>1, <1>2, <2>1, Terminates, ZenonT(30)
  <2> QED BY <1>1, <2>2
<1>4. ~overrun' /\ overrun' \in BOOLEAN
  <2>1. ~(size + 1 > Buffer.alloc)
    BY <1>1 DEF Buffer
  <2> QED BY <1>1, <2>1, InBlock DEF IInv
<1>5. TypeOK' /\ CallOK'
  BY <1>1, <1>3, <1>4 DEF TypeOK, CallOK
<1>6. Complete'
  BY <1>1 DEF Complete
<1>7. Whole'
  <2>1. size <= Len(call.content)
    BY <1>1
  <2> QED BY <1>1, <1>3, <1>6, <2>1 DEF Whole
<1> QED BY <1>1, <1>4, <1>5, <1>7 DEF IInv, Unread, Reading, Piping, Usable, Fits

LEMMA CloseKeeps == ASSUME IInv, Close PROVE IInv'
<1>1. /\ pc = "close" /\ pc' = "done" /\ ret' \in {ret, "ERR"} /\ fd' \in {"caller", "closed"}
      /\ UNCHANGED <<data, alloc, size, capacity, call, rest, got, left, short, overrun>>
  BY DEF Close, string
<1>2. TypeOK' /\ CallOK'
  BY <1>1 DEF IInv, TypeOK, CallOK
<1> QED BY <1>1, <1>2 DEF IInv, Unread, Reading, Piping, Whole, Complete, Usable, Fits

LEMMA NextKeeps == ASSUME IInv, [Next]_vars PROVE IInv'
<1>1. CASE UNCHANGED vars
  BY <1>1 DEF vars, string, IInv, TypeOK, CallOK, Unread, Reading, Piping, Whole, Complete,
              Usable, Fits
<1> QED
  BY <1>1, TruncateKeeps, OpenKeeps, SizeKeeps, ReadPartKeeps, FreadFileKeeps, ReadDoneKeeps,
     ReadFileDoneKeeps, ReadFirstKeeps, ReadMoreKeeps, GrowKeeps, ReadEndKeeps, CloseKeeps
  DEF Next

-----------------------------------------------------------------------------

(* What has been read is in the block and what is left of the source follows *)
(* it, at every step of every call.                                          *)
THEOREM Inductive == Spec => []IInv
<1>1. Init => IInv
  BY InitInv
<1>2. IInv /\ [Next]_vars => IInv'
  BY NextKeeps
<1> QED BY <1>1, <1>2, PTL DEF Spec

(* SuccessIsComplete: a call that reports success holds all there was, but  *)
(* for the two reads whose shortness is taken for the end.                  *)
THEOREM SuccessHoldsAll == Spec => []SuccessIsComplete
<1>1. ASSUME IInv, pc = "done", ret = "SUCC"
      PROVE  /\ Complete /\ size < alloc /\ data[size] = NUL
             /\ Prefix(data, size) = SubSeq(call.content, 1, size)
  <2>1. /\ Complete /\ size < alloc /\ data[size] = NUL /\ size \in 0..Len(call.content)
        /\ \A j \in 1..size : data[j - 1] = call.content[j]
        /\ call.content \in Seq(Char)
    BY <1>1 DEF IInv, TypeOK, CallOK, Whole
  <2> DEFINE s == SubSeq(call.content, 1, size)
  <2>2. s \in Seq(Char) /\ Len(s) = size /\ \A j \in 1..size : s[j] = call.content[j]
    BY <2>1, PartProperties
  <2> HIDE DEF s
  <2>3. \A j \in 1..Len(s) : data[j - 1] = s[j]
    BY <2>1, <2>2
  <2>4. Prefix(data, size) = s
    BY <2>2, <2>3, PrefixIs
  <2> QED BY <2>1, <2>4 DEF s
<1>2. IInv => SuccessIsComplete
  BY <1>1 DEF SuccessIsComplete, Complete
<1> QED BY <1>2, Inductive, PTL

(* FailureFits: nothing is written outside the block, and after a failure   *)
(* the size still fits it.                                                  *)
THEOREM FailureIsUsable == Spec => []FailureFits
<1>1. IInv => FailureFits
  BY DEF IInv, TypeOK, Usable, Fits, FailureFits
<1> QED BY <1>1, Inductive, PTL
=============================================================================
