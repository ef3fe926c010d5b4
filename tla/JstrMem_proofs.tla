--------------------------- MODULE JstrMem_proofs ---------------------------
(***************************************************************************)
(* Lemmas about JstrMem: the copying helpers return a block of the size    *)
(* they were given, and what reserving space makes of a buffer.            *)
(***************************************************************************)
EXTENDS JstrMem, SequenceTheorems, WellFoundedInduction, TLAPS

(***************************************************************************)
(* The copying helpers stay within their block.                            *)
(***************************************************************************)

LEMMA FillType ==
  ASSUME NEW n \in Nat, NEW m \in Block(n), NEW dst, NEW c \in Byte, NEW k
  PROVE  Fill(m, dst, c, k) \in Block(n)
BY DEF Fill, Block

LEMMA NULType == NUL \in Byte
BY DEF Byte

LEMMA ReallocType ==
  ASSUME NEW n \in Nat, NEW old \in Nat, NEW m \in Block(old)
  PROVE  Realloc(m, old, n) \in Block(n)
BY DEF Realloc, Block, Byte

LEMMA CopyType ==
  ASSUME NEW n \in Nat, NEW m \in Block(n), NEW dst \in Nat, NEW src \in Seq(Char)
  PROVE  Copy(m, dst, src) \in Block(n)
<1>1. ASSUME NEW i \in 0..(n - 1)
      PROVE  (IF dst <= i /\ i < dst + Len(src) THEN src[i - dst + 1] ELSE m[i])
               \in Byte
  <2>1. CASE dst <= i /\ i < dst + Len(src)
    <3>1. i - dst + 1 \in 1..Len(src)
      BY <2>1
    <3>2. src[i - dst + 1] \in Char
      BY <3>1
    <3> QED BY <2>1, <3>2 DEF Byte
  <2>2. CASE ~(dst <= i /\ i < dst + Len(src))
    BY <2>2 DEF Block
  <2> QED BY <2>1, <2>2
<1>2. DOMAIN m = 0..(n - 1)
  BY DEF Block
<1> QED BY <1>1, <1>2 DEF Copy, Block

LEMMA MoveType ==
  ASSUME NEW n \in Nat, NEW m \in Block(n), NEW dst \in Nat, NEW from \in Nat, NEW k
  PROVE  Move(m, dst, from, k) \in Block(n)
BY DEF Move, Block, Byte

LEMMA StrCpyType ==
  ASSUME NEW n \in Nat, NEW m \in Block(n), NEW dst \in Nat, NEW src \in Seq(Char)
  PROVE  StrCpy(m, dst, src) \in Block(n)
BY CopyType, FillType, NULType DEF StrCpy

LEMMA StrMoveType ==
  ASSUME NEW n \in Nat, NEW m \in Block(n), NEW dst \in Nat, NEW from \in Nat, NEW k
  PROVE  StrMove(m, dst, from, k) \in Block(n)
BY MoveType, FillType, NULType DEF StrMove

(***************************************************************************)
(* The buffers a call may work in.                                         *)
(***************************************************************************)

(* b is a buffer whose capacity is its true size. *)
Sound(b) ==
  /\ b.alloc \in Nat
  /\ b.cap = b.alloc
  /\ b.data \in Block(b.alloc)

LEMMA ResizedSound ==
  ASSUME NEW b, Sound(b), NEW c \in 1..MaxCap
  PROVE  Sound(Resized(b, c)) /\ Resized(b, c).alloc = c
<1>1. c \in Nat
  BY BoundsAssumption
<1>2. Realloc(b.data, b.alloc, c) \in Block(c)
  BY <1>1, ReallocType DEF Sound
<1> QED BY <1>1, <1>2 DEF Sound, Resized

(* jstr_reservealways, when it succeeds, leaves room for what was asked for *)
(* and for what was there.                                                  *)
LEMMA GrownSound ==
  ASSUME NEW b, Sound(b), NEW need \in Nat, NEW r \in ReservedAlways(b, need)
  PROVE  Sound(r) /\ r.alloc >= need /\ r.alloc >= b.alloc /\ r.alloc > 0
<1>1. PICK c \in 1..MaxCap : Doubled(b.cap, c, need) /\ r = Resized(b, c)
  BY DEF ReservedAlways
<1>2. Sound(r) /\ r.alloc = c
  BY <1>1, ResizedSound
<1>3. c >= need /\ c >= b.cap
  BY <1>1, BoundsAssumption DEF Doubled, Sound
<1> QED BY <1>1, <1>2, <1>3, BoundsAssumption DEF Sound

(* So does jstr_reserve, which may leave a string without a block alone. *)
LEMMA ReserveSound ==
  ASSUME NEW b, Sound(b), NEW need \in Nat, NEW r \in Reserved(b, need)
  PROVE  Sound(r) /\ r.alloc >= need /\ r.alloc >= b.alloc
<1>1. CASE need <= b.cap
  BY <1>1 DEF Reserved, Sound
<1>2. CASE ~(need <= b.cap)
  BY <1>2, GrownSound DEF Reserved
<1> QED BY <1>1, <1>2

(* realloc keeps every byte the old and the new block share. *)
LEMMA ReallocKeeps ==
  ASSUME NEW m, NEW old \in Nat, NEW n \in Nat, NEW i \in 0..(n - 1), i < old
  PROVE  Realloc(m, old, n)[i] = m[i]
BY DEF Realloc

LEMMA ReservedAlwaysLeaves ==
  ASSUME NEW b, Sound(b), NEW need \in Nat, NEW r \in ReservedAlways(b, need),
         NEW k \in 0..(b.alloc - 1)
  PROVE  r.data[k] = b.data[k]
<1>1. PICK c \in 1..MaxCap : Doubled(b.cap, c, need) /\ r = Resized(b, c)
  BY DEF ReservedAlways
<1>2. c \in Nat /\ c >= b.cap /\ b.alloc \in Nat /\ b.cap = b.alloc
  BY <1>1, BoundsAssumption DEF Doubled, Sound
<1>3. k \in 0..(c - 1) /\ k < b.alloc
  BY <1>2
<1> QED BY <1>1, <1>2, <1>3, ReallocKeeps DEF Resized

(* What the block held is still there once space is reserved. *)
LEMMA ReservedLeaves ==
  ASSUME NEW b, Sound(b), NEW need \in Nat, NEW r \in Reserved(b, need),
         NEW k \in 0..(b.alloc - 1)
  PROVE  r.data[k] = b.data[k]
<1>1. CASE need <= b.cap
  BY <1>1 DEF Reserved
<1>2. CASE ~(need <= b.cap)
  BY <1>2, ReservedAlwaysLeaves DEF Reserved
<1> QED BY <1>1, <1>2

(***************************************************************************)
(* Where every byte of the result comes from.                              *)
(***************************************************************************)

LEMMA FillByte ==
  ASSUME NEW n \in Nat, NEW m \in Block(n), NEW dst, NEW c, NEW len, NEW k \in 0..(n - 1)
  PROVE  Fill(m, dst, c, len)[k] = IF dst <= k /\ k < dst + len THEN c ELSE m[k]
BY DEF Fill, Block

LEMMA CopyByte ==
  ASSUME NEW n \in Nat, NEW m \in Block(n), NEW dst, NEW src, NEW k \in 0..(n - 1)
  PROVE  Copy(m, dst, src)[k]
           = IF dst <= k /\ k < dst + Len(src) THEN src[k - dst + 1] ELSE m[k]
BY DEF Copy, Block

(* memmove within the block reads no byte outside of it. *)
LEMMA MoveByte ==
  ASSUME NEW n \in Nat, NEW m \in Block(n), NEW dst \in Nat, NEW from \in Nat,
         NEW len \in Nat, from + len <= n, NEW k \in 0..(n - 1)
  PROVE  Move(m, dst, from, len)[k]
           = IF dst <= k /\ k < dst + len THEN m[k - dst + from] ELSE m[k]
<1>1. DOMAIN m = 0..(n - 1)
  BY DEF Block
<1>2. dst <= k /\ k < dst + len => k - dst + from \in 0..(n - 1)
  OBVIOUS
<1> QED BY <1>1, <1>2 DEF Move

LEMMA StrCpyByte ==
  ASSUME NEW n \in Nat, NEW m \in Block(n), NEW dst \in Nat, NEW src \in Seq(Char),
         NEW k \in 0..(n - 1)
  PROVE  StrCpy(m, dst, src)[k]
           = IF k = dst + Len(src) THEN NUL
             ELSE IF dst <= k /\ k < dst + Len(src) THEN src[k - dst + 1] ELSE m[k]
<1>1. Copy(m, dst, src) \in Block(n) /\ Len(src) \in Nat
  BY CopyType
<1>2. StrCpy(m, dst, src)[k]
        = IF dst + Len(src) <= k /\ k < dst + Len(src) + 1 THEN NUL ELSE Copy(m, dst, src)[k]
  BY <1>1, FillByte DEF StrCpy
<1>3. (dst + Len(src) <= k /\ k < dst + Len(src) + 1) <=> k = dst + Len(src)
  BY <1>1
<1> QED BY <1>2, <1>3, CopyByte

LEMMA StrMoveByte ==
  ASSUME NEW n \in Nat, NEW m \in Block(n), NEW dst \in Nat, NEW from \in Nat,
         NEW len \in Nat, from + len <= n, NEW k \in 0..(n - 1)
  PROVE  StrMove(m, dst, from, len)[k]
           = IF k = dst + len THEN NUL
             ELSE IF dst <= k /\ k < dst + len THEN m[k - dst + from] ELSE m[k]
<1>1. Move(m, dst, from, len) \in Block(n)
  BY MoveType
<1>2. StrMove(m, dst, from, len)[k]
        = IF dst + len <= k /\ k < dst + len + 1 THEN NUL ELSE Move(m, dst, from, len)[k]
  BY <1>1, FillByte DEF StrMove
<1>3. (dst + len <= k /\ k < dst + len + 1) <=> k = dst + len
  OBVIOUS
<1> QED BY <1>2, <1>3, MoveByte

(* jstr_strmove_len terminates what it has moved, whatever it has moved. *)
LEMMA StrMoveEnds ==
  ASSUME NEW n \in Nat, NEW m \in Block(n), NEW dst \in Nat, NEW from \in Nat,
         NEW len \in Nat, dst + len < n
  PROVE  StrMove(m, dst, from, len)[dst + len] = NUL
<1>1. Move(m, dst, from, len) \in Block(n) /\ dst + len \in 0..(n - 1)
  BY MoveType
<1> QED BY <1>1, FillByte DEF StrMove

(* Characters at the beginning of a block are a string. *)
LEMMA PrefixIsSeq ==
  ASSUME NEW m, NEW n \in Nat, \A k \in 0..(n - 1) : m[k] \in Char
  PROVE  /\ Prefix(m, n) \in Seq(Char)
         /\ Len(Prefix(m, n)) = n
         /\ \A k \in 1..n : Prefix(m, n)[k] = m[k - 1]
<1>1. \A k \in 1..n : m[k - 1] \in Char
  OBVIOUS
<1>2. Prefix(m, n) \in [1..n -> Char]
  BY <1>1 DEF Prefix
<1>3. Prefix(m, n) \in Seq(Char)
  BY <1>2
<1>4. DOMAIN Prefix(m, n) = 1..n
  BY DEF Prefix
<1>5. Len(Prefix(m, n)) = n
  BY <1>3, <1>4, LenProperties
<1> QED BY <1>3, <1>5 DEF Prefix

(* They are a given string when they are its characters. *)
LEMMA PrefixIs ==
  ASSUME NEW m, NEW s \in Seq(Char), \A k \in 1..Len(s) : m[k - 1] = s[k]
  PROVE  Prefix(m, Len(s)) = s
<1>1. \A k \in 0..(Len(s) - 1) : m[k] \in Char
  <2> TAKE k \in 0..(Len(s) - 1)
  <2>1. k + 1 \in 1..Len(s) /\ (k + 1) - 1 = k
    OBVIOUS
  <2> QED BY <2>1
<1>2. /\ Prefix(m, Len(s)) \in Seq(Char) /\ Len(Prefix(m, Len(s))) = Len(s)
      /\ \A k \in 1..Len(s) : Prefix(m, Len(s))[k] = s[k]
  BY <1>1, PrefixIsSeq
<1> QED BY <1>2, SeqEqual

(* The block holds the string s at d. *)
Holds(m, d, s) == \A k \in 1..Len(s) : m[d + k - 1] = s[k]

(* Two blocks begin with the same n bytes. *)
Alike(w, m, n) == \A k \in 0..(n - 1) : w[k] = m[k]

(* A string that is written behind another one. *)
LEMMA Glue ==
  ASSUME NEW m, NEW d \in Nat, Prefix(m, d) \in Seq(Char), NEW t \in Seq(Char), NEW w,
         Alike(w, m, d), Holds(w, d, t)
  PROVE  Prefix(w, d + Len(t)) = Prefix(m, d) \o t
<1> DEFINE s == Prefix(m, d)
<1>1. Len(s) = d /\ \A k \in 1..d : s[k] = m[k - 1]
  BY LenProperties DEF Prefix
<1> HIDE DEF s
<1>2. s \in Seq(Char) /\ s \o t \in Seq(Char) /\ Len(s \o t) = d + Len(t)
  BY <1>1, SMTT(30) DEF s
<1>3. ASSUME NEW k \in 1..(d + Len(t)) PROVE w[k - 1] = (s \o t)[k]
  <2>1. CASE k <= d
    <3>1. (s \o t)[k] = s[k] /\ k - 1 \in 0..(d - 1) /\ k \in 1..d
      BY <1>1, <1>2, <2>1
    <3> QED BY <1>1, <3>1 DEF Alike
  <2>2. CASE k > d
    <3>1. PICK j \in 1..Len(t) : k = d + j
      <4>1. k - d \in 1..Len(t) /\ d + (k - d) = k
        BY <2>2
      <4> QED BY <4>1
    <3>2. (s \o t)[k] = t[j]
      BY <1>1, <1>2, <2>2, <3>1
    <3>3. k - 1 = d + j - 1
      BY <3>1
    <3> QED BY <3>1, <3>2, <3>3 DEF Holds
  <2>3. k <= d \/ k > d
    OBVIOUS
  <2> QED BY <2>1, <2>2, <2>3
<1>4. Prefix(w, Len(s \o t)) = s \o t
  BY <1>2, <1>3, PrefixIs
<1> QED BY <1>2, <1>4 DEF s

(* Where a block holds what another one holds, moved by d, the matches are  *)
(* the same.                                                                *)
LEMMA MatchesAlike ==
  ASSUME NEW m, NEW w, NEW find \in Seq(Char), NEW d \in Nat,
         NEW from \in Nat, NEW to \in Nat, d <= from,
         \A k \in from..(to - 1) : m[k] = w[k - d], NEW p \in Nat
  PROVE  p \in Matches(m, find, from, to) <=> p - d \in Matches(w, find, from - d, to - d)
<1>1. Len(find) \in Nat
  OBVIOUS
<1>2. p \in from..(to - Len(find)) <=> p - d \in (from - d)..((to - d) - Len(find))
  BY <1>1
<1>3. ASSUME p \in from..(to - Len(find)), NEW k \in 1..Len(find)
      PROVE  m[p + k - 1] = w[(p - d) + k - 1]
  <2>1. PICK q \in from..(to - 1) : q = p + k - 1
    BY <1>1, <1>3
  <2>2. q - d = (p - d) + k - 1
    BY <2>1
  <2> QED BY <2>1, <2>2
<1> QED BY <1>2, <1>3 DEF Matches

(***************************************************************************)
(* Induction, as a fact about sets of numbers: they are well ordered.       *)
(***************************************************************************)

LEMMA Least ==
  ASSUME NEW S \in SUBSET Nat, S # {}
  PROVE  \E m \in S : \A k \in S : m <= k
<1>1. \E R : IsWellFoundedOn(R, Nat) /\ \A k, m \in Nat : <<k, m>> \in R <=> k < m
  <2>1. IsWellFoundedOn(OpToRel(<, Nat), Nat)
    BY NatLessThanWellFounded, Zenon
  <2>2. \A k, m \in Nat : <<k, m>> \in OpToRel(<, Nat) <=> k < m
    BY DEF OpToRel
  <2> QED BY <2>1, <2>2, Zenon
<1>2. PICK R : IsWellFoundedOn(R, Nat) /\ \A k, m \in Nat : <<k, m>> \in R <=> k < m
  BY <1>1
<1>3. IsWellFoundedOn(R, Nat) /\ S \subseteq Nat
  BY <1>2
<1>4. \E m \in S : \A k \in S : ~(<<k, m>> \in R)
  BY <1>3, WFMin, Zenon
<1>5. \A k, m \in S : <<k, m>> \in R <=> k < m
  BY <1>2, <1>3, Zenon
<1>6. \A k, m \in S : ~(k < m) => m <= k
  BY <1>3, SMT
<1> QED BY <1>4, <1>5, <1>6, Zenon

LEMMA Induction ==
  ASSUME NEW S, 0 \in S, \A n \in Nat : n \in S => n + 1 \in S
  PROVE  \A n \in Nat : n \in S
<1> SUFFICES ASSUME NEW n \in Nat, n \notin S PROVE FALSE
  OBVIOUS
<1>1. PICK m \in Nat \ S : \A k \in Nat \ S : m <= k
  BY Least
<1>2. m # 0 /\ m - 1 \in Nat /\ ~(m <= m - 1) /\ (m - 1) + 1 = m
  BY <1>1
<1>3. m - 1 \in S
  BY <1>1, <1>2
<1> QED BY <1>1, <1>2, <1>3
=============================================================================
