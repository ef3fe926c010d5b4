-------------------------- MODULE JstrWrite_proofs --------------------------
(***************************************************************************)
(* Theorems about JstrWrite: for every text and however the kernel splits  *)
(* what it is offered, the file is at each step the beginning of the text  *)
(* and its newline, and a call that reports success has written the whole. *)
(***************************************************************************)
EXTENDS JstrWrite, SequenceTheorems, TLAPS

(***************************************************************************)
(* Sequences: taking a text from the front in parts.                       *)
(***************************************************************************)

LEMMA RestProperties ==
  ASSUME NEW S, NEW s \in Seq(S), NEW k \in 0..Len(s)
  PROVE  /\ Rest(s, k) \in Seq(S)
         /\ Len(Rest(s, k)) = Len(s) - k
         /\ \A j \in 1..(Len(s) - k) : Rest(s, k)[j] = s[k + j]
<1>1. \A j \in (k + 1)..Len(s) : s[j] \in S
  OBVIOUS
<1> QED BY <1>1, SubSeqProperties DEF Rest

LEMMA FrontProperties ==
  ASSUME NEW S, NEW s \in Seq(S), NEW k \in 0..Len(s)
  PROVE  /\ SubSeq(s, 1, k) \in Seq(S)
         /\ Len(SubSeq(s, 1, k)) = k
         /\ \A j \in 1..k : SubSeq(s, 1, k)[j] = s[j]
<1>1. \A j \in 1..k : s[j] \in S
  OBVIOUS
<1> QED BY <1>1, SubSeqProperties

(* The rest of the rest. *)
LEMMA RestOfRest ==
  ASSUME NEW S, NEW s \in Seq(S), NEW k \in 0..Len(s), NEW w \in 0..(Len(s) - k)
  PROVE  Rest(Rest(s, k), w) = Rest(s, k + w)
<1>1. /\ Rest(s, k) \in Seq(S) /\ Len(Rest(s, k)) = Len(s) - k
      /\ \A j \in 1..(Len(s) - k) : Rest(s, k)[j] = s[k + j]
  BY RestProperties
<1>2. /\ Rest(Rest(s, k), w) \in Seq(S) /\ Len(Rest(Rest(s, k), w)) = Len(s) - k - w
      /\ \A j \in 1..(Len(s) - k - w) : Rest(Rest(s, k), w)[j] = Rest(s, k)[w + j]
  BY <1>1, RestProperties
<1>3. /\ k + w \in 0..Len(s)
      /\ Rest(s, k + w) \in Seq(S) /\ Len(Rest(s, k + w)) = Len(s) - (k + w)
      /\ \A j \in 1..(Len(s) - (k + w)) : Rest(s, k + w)[j] = s[k + w + j]
  <2>1. k + w \in 0..Len(s)
    OBVIOUS
  <2> QED BY <2>1, RestProperties
<1> QED BY <1>1, <1>2, <1>3, SeqEqual, SMTT(30)

(* The rest of two texts, while it begins in the first. *)
LEMMA RestOfConcat ==
  ASSUME NEW S, NEW s \in Seq(S), NEW t \in Seq(S), NEW k \in 0..Len(s)
  PROVE  Rest(s, k) \o t = Rest(s \o t, k)
<1> DEFINE r == Rest(s, k)
           u == s \o t
           v == Rest(u, k)
<1>1. r \in Seq(S) /\ Len(r) = Len(s) - k /\ \A j \in 1..(Len(s) - k) : r[j] = s[k + j]
  BY RestProperties
<1>2. /\ u \in Seq(S) /\ Len(u) = Len(s) + Len(t)
      /\ \A j \in 1..(Len(s) + Len(t)) :
           u[j] = IF j <= Len(s) THEN s[j] ELSE t[j - Len(s)]
  BY ConcatProperties
<1>3. v \in Seq(S) /\ Len(v) = Len(u) - k /\ \A j \in 1..(Len(u) - k) : v[j] = u[k + j]
  <2> HIDE DEF u
  <2>1. k \in 0..Len(u)
    BY <1>2
  <2> QED BY <1>2, <2>1, RestProperties
<1>4. /\ r \o t \in Seq(S) /\ Len(r \o t) = Len(r) + Len(t)
      /\ \A j \in 1..(Len(r) + Len(t)) :
           (r \o t)[j] = IF j <= Len(r) THEN r[j] ELSE t[j - Len(r)]
  <2> HIDE DEF r
  <2> QED BY <1>1, ConcatProperties
<1> HIDE DEF r, u, v
<1>5. Len(r \o t) = Len(v)
  BY <1>1, <1>2, <1>3, <1>4
<1>6. \A j \in 1..Len(r \o t) : (r \o t)[j] = v[j]
  BY <1>1, <1>2, <1>3, <1>4
<1>7. r \o t = v
  BY <1>3, <1>4, <1>5, <1>6, SeqEqual
<1> QED BY <1>7 DEF r, u, v

(* A beginning and the beginning of the rest are a longer beginning. *)
LEMMA FrontGrows ==
  ASSUME NEW S, NEW s \in Seq(S), NEW k \in 0..Len(s), NEW w \in 0..(Len(s) - k)
  PROVE  SubSeq(s, 1, k) \o SubSeq(Rest(s, k), 1, w) = SubSeq(s, 1, k + w)
<1> DEFINE f == SubSeq(s, 1, k)
           r == SubSeq(Rest(s, k), 1, w)
<1>1. f \in Seq(S) /\ Len(f) = k /\ \A j \in 1..k : f[j] = s[j]
  BY FrontProperties
<1>2. /\ Rest(s, k) \in Seq(S) /\ Len(Rest(s, k)) = Len(s) - k
      /\ \A j \in 1..(Len(s) - k) : Rest(s, k)[j] = s[k + j]
  BY RestProperties
<1>3. r \in Seq(S) /\ Len(r) = w /\ \A j \in 1..w : r[j] = s[k + j]
  <2>1. r \in Seq(S) /\ Len(r) = w /\ \A j \in 1..w : r[j] = Rest(s, k)[j]
    BY <1>2, FrontProperties
  <2> QED BY <1>2, <2>1
<1>4. /\ SubSeq(s, 1, k + w) \in Seq(S) /\ Len(SubSeq(s, 1, k + w)) = k + w
      /\ \A j \in 1..(k + w) : SubSeq(s, 1, k + w)[j] = s[j]
  <2>1. k + w \in 0..Len(s)
    OBVIOUS
  <2> QED BY <2>1, FrontProperties
<1>5. /\ f \o r \in Seq(S) /\ Len(f \o r) = k + w
      /\ \A j \in 1..(k + w) : (f \o r)[j] = IF j <= k THEN f[j] ELSE r[j - k]
  BY <1>1, <1>3, ConcatProperties
<1>6. \A j \in 1..(k + w) : (f \o r)[j] = SubSeq(s, 1, k + w)[j]
  BY <1>1, <1>3, <1>4, <1>5
<1> QED BY <1>4, <1>5, <1>6, SeqEqual

(* The beginning of two texts, while it ends in the first. *)
LEMMA FrontOfConcat ==
  ASSUME NEW S, NEW s \in Seq(S), NEW t \in Seq(S), NEW k \in 0..Len(s)
  PROVE  SubSeq(s \o t, 1, k) = SubSeq(s, 1, k)
<1> DEFINE u == s \o t
           f == SubSeq(s, 1, k)
           g == SubSeq(u, 1, k)
<1>1. /\ u \in Seq(S) /\ Len(u) = Len(s) + Len(t)
      /\ \A j \in 1..Len(s) : u[j] = s[j]
  BY ConcatProperties
<1>2. f \in Seq(S) /\ Len(f) = k /\ \A j \in 1..k : f[j] = s[j]
  BY FrontProperties
<1>3. g \in Seq(S) /\ Len(g) = k /\ \A j \in 1..k : g[j] = u[j]
  <2> HIDE DEF u
  <2>1. k \in 0..Len(u)
    BY <1>1
  <2> QED BY <1>1, <2>1, FrontProperties
<1> HIDE DEF f, g, u
<1>4. \A j \in 1..Len(f) : f[j] = g[j]
  BY <1>1, <1>2, <1>3, SMTT(30)
<1>5. f = g
  BY <1>2, <1>3, <1>4, SeqEqual
<1> QED BY <1>5 DEF f, g, u

(***************************************************************************)
(* The invariant.                                                          *)
(***************************************************************************)

(* The file holds the beginning of the text and its newline. *)
Front == Len(file) \in 0..Len(Whole) /\ file = SubSeq(Whole, 1, Len(file))

(* Nothing has been written before the loops, and they have seen no error. *)
Fresh ==
  /\ pc \in {"open", "start"} => file = <<>> /\ iop = 1 /\ iol = 2
  /\ pc \notin {"close", "done"} => ret = "SUCC" /\ ~failed

(* writev offers what the file lacks, unless the second buffer was taken up  *)
(* for a last byte that is not in it.                                        *)
Vector ==
  pc = "writev" =>
    /\ left = Len(Whole) - Len(file) /\ left > 0
    /\ iol = 3 - iop
    /\ iop = 1 => Len(file) <= Len(call.text) /\ iov = <<Rest(call.text, Len(file)), Ending>>
    /\ iop > 1 => left = 1 /\ iov[2] = Ending
    /\ iop > 2 => Ending = <<>>

(* write offers what the file lacks of the text. *)
Plain ==
  pc = "write" =>
    /\ Len(file) <= Len(call.text)
    /\ iov = <<Rest(call.text, Len(file)), Ending>>
    /\ left = Len(call.text) - Len(file)

Ended ==
  /\ pc = "putc" => file = call.text
  /\ pc \in {"close", "done"} /\ ret = "SUCC" => file = Whole
  /\ failed => ret = "ERR"
  /\ pc = "done" => fd # "open"

IInv == TypeOK /\ Front /\ Fresh /\ Vector /\ Plain /\ Ended

(***************************************************************************)
(* The text and its newline.                                               *)
(***************************************************************************)

LEMMA TextType ==
  ASSUME TypeOK
  PROVE  /\ call.text \in Seq(Char) /\ Len(call.text) \in Nat
         /\ Ending = <<>> \/ Ending = <<Newline>>
         /\ Ending \in Seq(Char) /\ Len(Ending) \in {0, 1}
         /\ Ending = <<>> <=> Len(Ending) = 0
         /\ Whole \in Seq(Char) /\ Len(Whole) = Len(call.text) + Len(Ending)
<1>1. call.text \in Seq(Char) /\ Len(call.text) \in Nat
  BY TextsAssumption DEF TypeOK
<1>2. Ending = <<>> \/ Ending = <<Newline>>
  BY DEF Ending
<1>3. <<Newline>> \in Seq(Char) /\ <<>> \in Seq(Char) /\ Len(<<Newline>>) = 1 /\ Len(<<>>) = 0
  BY TextsAssumption
<1>4. Ending \in Seq(Char) /\ Len(Ending) \in {0, 1} /\ (Ending = <<>> <=> Len(Ending) = 0)
  <2>1. CASE Ending = <<>>
    BY <1>3, <2>1
  <2>2. CASE Ending = <<Newline>>
    BY <1>3, <2>2
  <2> QED BY <1>2, <2>1, <2>2
<1>5. Whole \in Seq(Char) /\ Len(Whole) = Len(call.text) + Len(Ending)
  BY <1>1, <1>4, ConcatProperties DEF Whole
<1> QED BY <1>1, <1>2, <1>4, <1>5

(* The text and what follows from it stay what they are. *)
LEMMA TextKept ==
  ASSUME call' = call
  PROVE  Whole' = Whole /\ Ending' = Ending /\ ToWrite' = ToWrite
BY DEF Whole, Ending, ToWrite

(* The file takes the next w bytes of the whole. *)
LEMMA TakesNext ==
  ASSUME TypeOK, Front, NEW w \in 0..(Len(Whole) - Len(file)), call' = call,
         file' = file \o SubSeq(Rest(Whole, Len(file)), 1, w)
  PROVE  Front' /\ Len(file') = Len(file) + w
<1> DEFINE k == Len(file)
<1>1. Whole \in Seq(Char) /\ k \in 0..Len(Whole) /\ file = SubSeq(Whole, 1, k)
  BY TextType DEF Front
<1> HIDE DEF k
<1>2. k = Len(file)
  BY DEF k
<1>3. w \in 0..(Len(Whole) - k) /\ k + w \in 0..Len(Whole)
  BY <1>1, <1>2, TextType
<1>4. file' = SubSeq(Whole, 1, k + w)
  BY <1>1, <1>2, <1>3, FrontGrows
<1>5. Len(file') = k + w
  BY <1>1, <1>3, <1>4, FrontProperties
<1>6. Whole' = Whole
  BY TextKept
<1> QED BY <1>2, <1>3, <1>4, <1>5, <1>6 DEF Front

(* The file is the beginning of the text alone. *)
LEMMA FrontOfText ==
  ASSUME TypeOK, call' = call, NEW k \in 0..Len(call.text), file' = SubSeq(call.text, 1, k)
  PROVE  Front' /\ Len(file') = k
<1>1. Len(file') = k /\ k \in 0..Len(Whole)
  BY TextType, FrontProperties
<1>2. file' = SubSeq(Whole, 1, k)
  BY TextType, FrontOfConcat DEF Whole
<1> QED BY <1>1, <1>2, TextKept DEF Front

(***************************************************************************)
(* One lemma for each action.                                              *)
(***************************************************************************)

(* An action that writes nothing. *)
LEMMA FrontKept ==
  ASSUME Front, call' = call, file' = file
  PROVE  Front'
BY TextKept DEF Front

LEMMA InitInv == Init => IInv
<1> SUFFICES ASSUME Init PROVE IInv
  OBVIOUS
<1>1. call.op \in Ops /\ call.text \in Texts
  BY DEF Init
<1>2. TypeOK
  BY <1>1 DEF Init, TypeOK
<1>3. Len(Whole) \in Nat /\ Whole \in Seq(Char)
  BY <1>2, TextType
<1>4. file = <<>> /\ Len(file) = 0
  BY DEF Init
<1>5. SubSeq(Whole, 1, 0) = <<>>
  BY SubSeqEmpty
<1>6. Front
  BY <1>3, <1>4, <1>5 DEF Front
<1> QED BY <1>2, <1>6 DEF Init, IInv, Fresh, Vector, Plain, Ended

LEMMA OpenKeeps == ASSUME IInv, Open PROVE IInv'
<1>1. TypeOK' /\ Front'
  BY FrontKept DEF IInv, TypeOK, Open
<1> QED BY <1>1 DEF IInv, TypeOK, Fresh, Vector, Plain, Ended, Open

LEMMA NothingToWriteKeeps == ASSUME IInv, NothingToWrite PROVE IInv'
<1>1. TypeOK' /\ Front'
  BY FrontKept DEF IInv, TypeOK, NothingToWrite
<1>2. Whole = <<>>
  <2>1. Ending = <<>> /\ call.text = <<>>
    BY DEF Ending, NothingToWrite
  <2> QED BY <2>1 DEF Whole
<1>3. Whole' = Whole
  BY TextKept DEF NothingToWrite
<1> QED BY <1>1, <1>2, <1>3 DEF IInv, Fresh, Vector, Plain, Ended, NothingToWrite

LEMMA StartKeeps == ASSUME IInv, Start PROVE IInv'
<1>1. /\ TypeOK /\ call' = call /\ file' = file /\ Len(file) = 0
      /\ call.text \in Seq(Char) /\ call.text # <<>>
  BY TextType DEF IInv, Fresh, Start
<1>2. Rest(call.text, 0) = call.text
  BY <1>1, SubSeqFull DEF Rest
<1>3. Len(call.text) \in Nat \ {0} /\ Len(Whole) \in Nat \ {0} /\ Len(Whole) >= Len(call.text)
  BY <1>1, TextType, EmptySeq
<1>4. TypeOK'
  BY <1>3 DEF IInv, TypeOK, Start, ToWrite
<1>5. Front' /\ Whole' = Whole /\ Ending' = Ending
  BY <1>1, FrontKept, TextKept DEF IInv
<1>6. Vector'
  BY <1>1, <1>2, <1>3, <1>5 DEF IInv, Fresh, Vector, Start, ToWrite
<1>7. Plain'
  BY <1>1, <1>2, <1>3, <1>5 DEF Plain, Start, ToWrite
<1> QED BY <1>4, <1>5, <1>6, <1>7 DEF IInv, Fresh, Ended, Start

LEMMA GiveUpKeeps ==
  ASSUME IInv, GiveUp, UNCHANGED <<call, file, fd, iop, iol, left>>
  PROVE  IInv'
<1>1. TypeOK' /\ Front'
  BY FrontKept DEF IInv, TypeOK, GiveUp
<1> QED BY <1>1 DEF IInv, Fresh, Vector, Plain, Ended, GiveUp

(* What the two buffers offer is the beginning of what the file lacks. *)
LEMMA OfferedIsNext ==
  ASSUME IInv, pc = "writev", iol >= 0
  PROVE  /\ Len(Offered) \in 0..(Len(Whole) - Len(file))
         /\ \A w \in 0..Len(Offered) :
              SubSeq(Offered, 1, w) = SubSeq(Rest(Whole, Len(file)), 1, w)
         /\ iop = 1 => Offered # <<>>
         /\ Offered = <<>> \/ iol > 0
<1>1. TypeOK /\ Vector /\ Front /\ Len(file) \in 0..Len(Whole)
  BY DEF IInv, Front
<1>2. /\ Rest(Whole, Len(file)) \in Seq(Char)
      /\ Len(Rest(Whole, Len(file))) = Len(Whole) - Len(file)
  BY <1>1, TextType, RestProperties
<1>3. CASE iop = 1
  <2>1. Offered = Rest(call.text, Len(file)) \o Ending
    BY <1>1, <1>3 DEF Vector, Offered
  <2>2. Len(file) \in 0..Len(call.text)
    BY <1>1, <1>3, TextType DEF Vector
  <2>3. Offered = Rest(Whole, Len(file))
    BY <1>1, <2>1, <2>2, TextType, RestOfConcat DEF Whole
  <2>4. Len(Offered) = Len(Whole) - Len(file) /\ Len(Offered) > 0
    BY <1>1, <1>2, <2>3 DEF Vector
  <2> QED BY <1>1, <1>2, <1>3, <2>3, <2>4, EmptySeq DEF Vector
<1>4. CASE iop # 1
  <2>1. left = 1 /\ Len(file) = Len(Whole) - 1 /\ iol = 3 - iop /\ iop \in {2, 3}
    BY <1>1, <1>4, TextType DEF TypeOK, Vector
  <2>2. Offered = Ending
    BY <1>1, <1>4, <2>1 DEF Vector, Offered
  <2>3. CASE Ending = <<>>
    <3>1. Len(Offered) = 0
      BY <2>2, <2>3
    <3>2. SubSeq(Offered, 1, 0) = <<>> /\ SubSeq(Rest(Whole, Len(file)), 1, 0) = <<>>
      BY SubSeqEmpty
    <3> QED BY <1>1, <1>4, <2>2, <2>3, <3>1, <3>2
  <2>4. CASE Ending # <<>>
    <3>0. Len(Ending) = 1 /\ Len(Whole) = Len(call.text) + Len(Ending) /\ Len(call.text) \in Nat
      BY <1>1, <2>4, TextType
    <3>1. iop = 2 /\ Len(Ending) = 1 /\ Len(file) = Len(call.text)
      BY <1>1, <2>1, <2>4, <3>0 DEF Vector
    <3>2. Len(file) \in 0..Len(call.text)
      BY <1>1, <3>1, TextType
    <3>3. Rest(call.text, Len(file)) = <<>>
      BY <3>1, SubSeqEmpty, TextType, <1>1 DEF Rest
    <3>4. Rest(Whole, Len(file)) = <<>> \o Ending
      BY <1>1, <3>2, <3>3, TextType, RestOfConcat DEF Whole
    <3>5. Rest(Whole, Len(file)) = Ending
      BY <1>1, <3>4, TextType
    <3> QED BY <1>1, <1>4, <2>1, <2>2, <3>1, <3>5
  <2> QED BY <2>3, <2>4
<1> QED BY <1>3, <1>4

LEMMA WritevKeeps == ASSUME IInv, Writev PROVE IInv'
<1>1. TypeOK /\ Front /\ Vector /\ pc = "writev" /\ UNCHANGED <<call, fd>>
      /\ Whole' = Whole /\ Ending' = Ending
  BY TextKept DEF IInv, Writev
<1>2. CASE GiveUp /\ UNCHANGED <<file, iov, iop, iol, left>>
  BY <1>1, <1>2, GiveUpKeeps
<1>3. ASSUME iol >= 0, UNCHANGED <<failed, ret>>,
             NEW w \in (IF Offered = <<>> THEN {0} ELSE 1..Len(Offered)),
             file' = file \o SubSeq(Offered, 1, w), left' = left - w,
             \/ left' = 0 /\ pc' = "close" /\ UNCHANGED <<iov, iop, iol>>
             \/ left' > 1 /\ Advance(w)
             \/ left' = 1 /\ SecondBuffer
      PROVE  IInv'
  <2>1. /\ Len(Offered) \in 0..(Len(Whole) - Len(file))
        /\ SubSeq(Offered, 1, w) = SubSeq(Rest(Whole, Len(file)), 1, w)
        /\ iop = 1 => Offered # <<>>
        /\ Offered = <<>> => w = 0
        /\ w \in 0..(Len(Whole) - Len(file))
    <3>1. Offered = <<>> => Len(Offered) = 0
      OBVIOUS
    <3>2. w \in 0..Len(Offered) /\ (Offered = <<>> => w = 0)
      BY <1>1, <1>3, <3>1, OfferedIsNext
    <3> QED BY <1>1, <1>3, <3>2, OfferedIsNext, TextType
  <2>2. Front' /\ Len(file') = Len(file) + w
    BY <1>1, <1>3, <2>1, TakesNext
  <2>3. /\ left = Len(Whole) - Len(file) /\ left' = Len(Whole) - Len(file')
        /\ left' = left - w /\ w \in Nat
        /\ left \in Nat /\ left' \in Nat /\ Len(Whole) \in Nat /\ Len(file) \in Nat
    <3>1. Len(Whole) \in Nat /\ Len(file) \in Nat /\ left = Len(Whole) - Len(file)
      BY <1>1, TextType DEF Vector, Front
    <3> QED BY <1>3, <2>1, <2>2, <3>1
  <2>4. CASE left' = 0 /\ pc' = "close" /\ UNCHANGED <<iov, iop, iol>>
    <3>1. file' = Whole
      BY <1>1, <2>2, <2>3, <2>4, TextType, SubSeqFull, SMTT(30) DEF Front
    <3> QED BY <1>1, <1>3, <2>2, <2>3, <2>4, <3>1
            DEF IInv, TypeOK, Fresh, Vector, Plain, Ended
  <2>5. CASE left' > 1 /\ Advance(w)
    <3>1. iop = 1 /\ iov = <<Rest(call.text, Len(file)), Ending>>
      BY <1>1, <1>3, <2>3, <2>5 DEF Vector, TypeOK
    <3>2. Len(file) \in 0..Len(call.text) /\ w \in 0..(Len(call.text) - Len(file))
      <4>1. /\ Len(Whole) = Len(call.text) + Len(Ending)
            /\ Len(call.text) \in Nat /\ Len(Ending) \in {0, 1}
        BY <1>1, TextType
      <4>2. \A t, f, v \in Nat, e \in {0, 1} :
              (t + e) - f - v > 1 => f \in 0..t /\ v \in 0..(t - f)
        OBVIOUS
      <4>3. (Len(call.text) + Len(Ending)) - Len(file) - w > 1
        BY <2>3, <2>5, <4>1
      <4> QED BY <2>3, <4>1, <4>2, <4>3
    <3>3. Rest(Rest(call.text, Len(file)), w) = Rest(call.text, Len(file'))
      BY <1>1, <2>2, <3>2, TextType, RestOfRest
    <3>4. iov' = <<Rest(call.text, Len(file')), Ending>>
      BY <2>5, <3>1, <3>3 DEF Advance
    <3>5. Len(file') <= Len(call.text)
      BY <1>1, <2>2, <3>2, TextType
    <3>6. Vector'
      BY <1>1, <2>3, <2>5, <3>1, <3>4, <3>5 DEF Vector, Advance
    <3> QED BY <1>1, <1>3, <2>2, <2>3, <2>5, <3>6
            DEF IInv, TypeOK, Fresh, Plain, Ended, Advance
  <2>6. CASE left' = 1 /\ SecondBuffer
    <3>1. iop \in {1, 2, 3} /\ iol = 3 - iop
      BY <1>1, <1>3 DEF TypeOK, Vector
    <3>2. iop # 1 => w = 0 /\ Offered = <<>>
      <4>1. iop # 1 => left = 1 /\ w = 0
        BY <1>1, <1>3, <2>1, <2>3, <2>6, <3>1 DEF Vector
      <4> QED BY <1>3, <4>1
    <3>3. iov[2] = Ending
      BY <1>1, <3>1 DEF Vector
    <3>4. iop # 1 => Ending = <<>>
      BY <1>1, <3>1, <3>2, <3>3 DEF Vector, Offered
    <3>5. Vector'
      BY <1>1, <2>3, <2>6, <3>1, <3>3, <3>4 DEF Vector, SecondBuffer
    <3> QED BY <1>1, <1>3, <2>2, <2>3, <2>6, <3>1, <3>5
            DEF IInv, TypeOK, Fresh, Plain, Ended, SecondBuffer
  <2> QED BY <1>3, <2>4, <2>5, <2>6
<1> QED BY <1>2, <1>3 DEF Writev

LEMMA InvalidKeeps == ASSUME IInv, Invalid PROVE IInv'
<1>1. TypeOK' /\ Front'
  BY FrontKept DEF IInv, TypeOK, Invalid
<1>2. ~failed
  BY DEF IInv, Fresh, Invalid
<1> QED BY <1>1, <1>2 DEF IInv, Fresh, Vector, Plain, Ended, Invalid

LEMMA WriteKeeps == ASSUME IInv, Write PROVE IInv'
<1>1. /\ TypeOK /\ Front /\ Plain /\ pc = "write" /\ left # 0 /\ UNCHANGED <<call, fd, iop, iol>>
      /\ Whole' = Whole /\ Ending' = Ending
  BY TextKept DEF IInv, Write
<1>2. CASE GiveUp /\ UNCHANGED <<file, iov, left>>
  BY <1>1, <1>2, GiveUpKeeps
<1>3. ASSUME NEW w \in 1..left, file' = file \o SubSeq(iov[1], 1, w),
             iov' = [iov EXCEPT ![1] = Rest(@, w)], left' = left - w,
             UNCHANGED <<pc, failed, ret>>
      PROVE  IInv'
  <2>1. /\ call.text \in Seq(Char) /\ Len(call.text) \in Nat /\ Ending \in Seq(Char)
        /\ Len(file) \in 0..Len(call.text) /\ left = Len(call.text) - Len(file)
        /\ iov = <<Rest(call.text, Len(file)), Ending>>
        /\ w \in 0..(Len(call.text) - Len(file))
        /\ Len(file) + w \in 0..Len(call.text)
    <3>1. call.text \in Seq(Char) /\ Len(call.text) \in Nat /\ Ending \in Seq(Char)
      BY <1>1, TextType
    <3> QED BY <1>1, <3>1 DEF Plain, Front
  <2>2. file = SubSeq(call.text, 1, Len(file))
    <3>1. SubSeq(Whole, 1, Len(file)) = SubSeq(call.text, 1, Len(file))
      BY <2>1, FrontOfConcat DEF Whole
    <3> QED BY <1>1, <3>1 DEF Front
  <2>3. SubSeq(call.text, 1, Len(file)) \o SubSeq(Rest(call.text, Len(file)), 1, w)
          = SubSeq(call.text, 1, Len(file) + w)
    BY <2>1, FrontGrows
  <2>4. file' = SubSeq(call.text, 1, Len(file) + w)
    BY <1>3, <2>1, <2>2, <2>3
  <2>5. Front' /\ Len(file') = Len(file) + w
    BY <1>1, <2>1, <2>4, FrontOfText
  <2>6. Rest(Rest(call.text, Len(file)), w) = Rest(call.text, Len(file'))
    BY <2>1, <2>5, RestOfRest
  <2>7. iov' = <<Rest(call.text, Len(file')), Ending>>
    BY <1>3, <2>1, <2>6
  <2>8. Plain' /\ left' \in Nat
    <3>1. left' = Len(call.text) - Len(file') /\ Len(file') <= Len(call.text) /\ left' \in Nat
      <4>1. \A t, k, v, l \in Nat :
              /\ l = t - k /\ v \in 0..(t - k)
              => l - v = t - (k + v) /\ k + v <= t /\ l - v \in Nat
        OBVIOUS
      <4>2. left \in Nat /\ Len(file) \in Nat /\ w \in Nat
        BY <2>1
      <4>3. /\ left - w = Len(call.text) - (Len(file) + w)
            /\ Len(file) + w <= Len(call.text) /\ left - w \in Nat
        BY <2>1, <4>1, <4>2
      <4>4. left' = left - w
        BY <1>3
      <4> QED BY <2>5, <4>3, <4>4
    <3> QED BY <1>1, <2>7, <3>1 DEF Plain
  <2> QED BY <1>1, <1>3, <2>5, <2>8 DEF IInv, TypeOK, Fresh, Vector, Ended
<1> QED BY <1>2, <1>3 DEF Write

(* The file ends with the text and its newline. *)
LEMMA CompleteKeeps ==
  ASSUME IInv, pc \notin {"close", "done"}, file' = Whole, pc' = "close",
         UNCHANGED <<call, fd, iop, iol, left, failed, ret>>
  PROVE  IInv'
<1>1. Whole' = Whole
  BY TextKept
<1>2. Whole \in Seq(Char) /\ Len(Whole) \in Nat /\ Whole = SubSeq(Whole, 1, Len(Whole))
  BY TextType, SubSeqFull DEF IInv
<1>3. Front'
  BY <1>1, <1>2 DEF Front
<1> QED BY <1>1, <1>3 DEF IInv, TypeOK, Fresh, Vector, Plain, Ended

LEMMA WriteNewlineKeeps == ASSUME IInv, WriteNewline PROVE IInv'
<1>1. TypeOK /\ Front /\ pc = "write" /\ UNCHANGED <<call, fd, iov, iop, iol, left>>
  BY DEF IInv, WriteNewline
<1>2. call.text \in Seq(Char) /\ Len(file) = Len(call.text)
  BY <1>1, TextType DEF IInv, Plain, Front, WriteNewline
<1>3. file = call.text
  <2>1. SubSeq(Whole, 1, Len(call.text)) = SubSeq(call.text, 1, Len(call.text))
    BY <1>1, <1>2, TextType, FrontOfConcat DEF Whole
  <2> QED BY <1>1, <1>2, <2>1, SubSeqFull DEF Front
<1>4. CASE Ending = <<>> /\ pc' = "close" /\ UNCHANGED <<file, failed, ret>>
  <2>1. Whole = call.text
    BY <1>2, <1>4, ConcatEmptySeq DEF Whole
  <2> QED BY <1>1, <1>3, <1>4, <2>1, CompleteKeeps
<1>5. CASE Ending # <<>> /\ file' = Append(file, Newline) /\ pc' = "close"
           /\ UNCHANGED <<failed, ret>>
  <2>1. Ending = <<Newline>>
    BY <1>1, <1>5, TextType
  <2>2. file' = Whole
    BY <1>2, <1>3, <1>5, <2>1, AppendIsConcat, TextsAssumption DEF Whole
  <2> QED BY <1>1, <1>5, <2>2, CompleteKeeps
<1>6. CASE GiveUp /\ UNCHANGED file
  BY <1>1, <1>6, GiveUpKeeps
<1> QED BY <1>4, <1>5, <1>6 DEF WriteNewline

LEMMA FwriteKeeps == ASSUME IInv, Fwrite PROVE IInv'
<1>1. /\ TypeOK /\ call.text \in Seq(Char) /\ Len(call.text) \in Nat /\ pc = "start"
      /\ UNCHANGED <<call, fd, iov, iop, iol, left>>
  BY TextType DEF IInv, Fwrite
<1>2. CASE file' = call.text /\ pc' = "putc" /\ UNCHANGED <<failed, ret>>
  <2>1. file' = SubSeq(call.text, 1, Len(call.text)) /\ Len(call.text) \in 0..Len(call.text)
    BY <1>1, <1>2, SubSeqFull
  <2>2. Front'
    BY <1>1, <2>1, FrontOfText
  <2> QED BY <1>1, <1>2, <2>2 DEF IInv, TypeOK, Fresh, Vector, Plain, Ended
<1>3. ASSUME NEW w \in 0..(Len(call.text) - 1), file' = SubSeq(call.text, 1, w), GiveUp
      PROVE  IInv'
  <2>1. w \in 0..Len(call.text)
    BY <1>1
  <2>2. Front'
    BY <1>1, <1>3, <2>1, FrontOfText
  <2> QED BY <1>1, <1>3, <2>2 DEF IInv, TypeOK, Fresh, Vector, Plain, Ended, GiveUp
<1> QED BY <1>2, <1>3 DEF Fwrite

LEMMA PutcKeeps == ASSUME IInv, Putc PROVE IInv'
<1>1. pc = "putc" /\ UNCHANGED <<call, fd, iov, iop, iol, left>>
  BY DEF Putc
<1>2. CASE file' = file \o Ending /\ pc' = "close" /\ UNCHANGED <<failed, ret>>
  <2>1. file' = Whole
    BY <1>1, <1>2 DEF IInv, Ended, Whole
  <2> QED BY <1>1, <1>2, <2>1, CompleteKeeps
<1>3. CASE GiveUp /\ UNCHANGED file
  BY <1>1, <1>3, GiveUpKeeps
<1> QED BY <1>2, <1>3 DEF Putc

LEMMA CloseKeeps == ASSUME IInv, Close PROVE IInv'
<1>1. TypeOK' /\ Front' /\ Whole' = Whole
  BY FrontKept, TextKept DEF IInv, TypeOK, Close
<1> QED BY <1>1 DEF IInv, Fresh, Vector, Plain, Ended, Close

LEMMA NextKeeps == ASSUME IInv, [Next]_vars PROVE IInv'
<1>1. CASE UNCHANGED vars
  <2>1. Whole' = Whole /\ Ending' = Ending
    BY <1>1, TextKept DEF vars
  <2> QED BY <1>1, <2>1 DEF vars, IInv, TypeOK, Front, Fresh, Vector, Plain, Ended
<1> QED
  BY <1>1, OpenKeeps, NothingToWriteKeeps, StartKeeps, WritevKeeps, InvalidKeeps, WriteKeeps,
     WriteNewlineKeeps, FwriteKeeps, PutcKeeps, CloseKeeps DEF Next

-----------------------------------------------------------------------------

(* At every step of a call that writes a text, what it still offers is what *)
(* the file lacks.                                                          *)
THEOREM Inductive == Spec => []IInv
<1>1. Init => IInv
  BY InitInv
<1>2. IInv /\ [Next]_vars => IInv'
  BY NextKeeps
<1> QED BY <1>1, <1>2, PTL DEF Spec

(* FileIsPrefix: however the kernel splits the writes, no byte of the text  *)
(* is written twice or skipped.                                             *)
THEOREM WritesInOrder == Spec => []FileIsPrefix
<1>1. IInv => FileIsPrefix
  BY DEF IInv, Front, Vector, FileIsPrefix
<1> QED BY <1>1, Inductive, PTL

(* EndsWell: success means that all of the text and its newline is in the   *)
(* file, an error of any step is returned, and what was opened is closed.   *)
THEOREM SuccessIsWhole == Spec => []EndsWell
<1>1. IInv => EndsWell
  BY DEF IInv, Ended, EndsWell
<1> QED BY <1>1, Inductive, PTL
=============================================================================
