-------------------------- MODULE JstrRegex_proofs --------------------------
(***************************************************************************)
(* What JstrRegex keeps for every text, replacement, capacity and number    *)
(* of searches, and whatever regexec answers: the calls stay inside their   *)
(* blocks, every search sees the text as it was, a call that fails leaves   *)
(* what the properties say, and one that succeeds leaves the text with its  *)
(* matches replaced.                                                        *)
(*                                                                          *)
(* The first part is about references: the loop that measures a             *)
(* replacement and the loop that stores it agree on its length, so the room *)
(* reserved is the room taken.  The second is the invariant of the loops.   *)
(* The third is about what they write: what a reference stands for, what    *)
(* the history of searches makes of the text, and that the block holds it   *)
(* up to the cursor.                                                        *)
(***************************************************************************)
EXTENDS JstrRegex, JstrMem_proofs, FiniteSetTheorems

(***************************************************************************)
(* The invariant.  A removal leaves alone what is not below its cursor      *)
(* i.dst, and everything as long as it has removed nothing; a replacement   *)
(* works behind the terminator.                                             *)
(***************************************************************************)
CallOK ==
  /\ call.text \in Seq(Char) /\ call.rplc \in Seq(Char)
  /\ call.start \in Nat /\ call.cf_newline \in BOOLEAN

Answers ==
  [from : Nat, notbol : BOOLEAN, answer : {"match", "nomatch", "error"},
   span : {<<>>} \cup (Nat \X Nat), group : {<<>>} \cup (Nat \X Nat)]

Typed ==
  /\ alloc \in Nat /\ capacity = alloc /\ data \in Block(alloc) /\ size \in Nat
  /\ pc \in {"entry", "rmn", "rplcn", "done"}
  /\ i \in [dst : Nat, src : Nat, src_e : Nat]
  /\ dst_s \in Nat
  /\ searches \in Seq(Answers)
  /\ overrun \in BOOLEAN

Kept ==
  /\ end = Len(call.text) /\ end < alloc
  /\ pc # "done" => size = end /\ data[end] = NUL

Intact(from) == \A k \in from..(end - 1) : data[k] = call.text[k + 1]

AtEntry ==
  pc = "entry" =>
    Intact(0) /\ i.dst = call.start /\ i.src = call.start /\ i.src_e = call.start

Compacting ==
  pc = "rmn" =>
    /\ Removing
    /\ i.dst <= i.src /\ i.src_e = i.src /\ i.src <= end
    /\ Intact(i.dst)
    /\ i.dst = i.src => Intact(0)

References ==
  refs # <<>> => RefFirst \notin {0, Wild} /\ refs = <<RefFirst, RefLast(RefFirst)>>

Building ==
  pc = "rplcn" =>
    /\ Intact(0) /\ References
    /\ dst_s = end + 1 /\ dst_s <= i.dst
    /\ i.src <= i.src_e /\ i.src_e <= end
    /\ i.dst + (end - i.src) < alloc

Told ==
  \A k \in DOMAIN searches :
    LET from == searches[k].from
    IN  searches[k].notbol
          = (from > 0 /\ (call.cf_newline => call.text[from] \notin call.newlines))

Within ==
  overrun => pc = "done" /\ ret = Undefined /\ call.backref /\ RefFirst = Wild

IInv ==
  /\ CallOK /\ Typed /\ Kept /\ AtEntry /\ Compacting /\ Building
  /\ Told /\ Within /\ FailureLeaves

(***************************************************************************)
(* Functions defined from the end of an interval backwards.                 *)
(***************************************************************************)

LEMMA Downwards ==
  ASSUME NEW m \in Nat, NEW S, \A p \in 1..m : (\A r \in (p + 1)..m : r \in S) => p \in S
  PROVE  \A p \in 1..m : p \in S
<1> SUFFICES ASSUME NEW p \in 1..m, p \notin S PROVE FALSE
  OBVIOUS
<1> DEFINE D == {d \in Nat : d < m /\ m - d \notin S}
<1>1. m - p \in D
  <2>1. m - p \in Nat /\ m - p < m /\ m - (m - p) = p
    OBVIOUS
  <2> QED BY <2>1
<1>2. PICK d \in D : \A k \in D : d <= k
  <2>1. D \in SUBSET Nat /\ D # {}
    BY <1>1
  <2> QED BY <2>1, Least
<1>3. m - d \in 1..m /\ m - d \notin S
  BY <1>2
<1>4. ASSUME NEW r \in ((m - d) + 1)..m PROVE r \in S
  <2>1. m - r \in Nat /\ m - r < d /\ m - r < m /\ m - (m - r) = r
    BY <1>2
  <2>2. m - r \notin D
    BY <1>2, <2>1
  <2> QED BY <2>1, <2>2
<1> QED BY <1>3, <1>4

(* At p the value is base[p], or G[p] of the value at nxt[p], further on. *)
Descent(m, V, nxt, base, G) ==
  \A p \in 1..m :
    /\ base[p] \in V
    /\ nxt[p] # 0 => nxt[p] \in (p + 1)..m /\ \A v \in V : G[p][v] \in V

Descended(f, m, nxt, base, G) ==
  \A p \in 1..m : f[p] = IF nxt[p] = 0 THEN base[p] ELSE G[p][f[nxt[p]]]

LEMMA Descends ==
  ASSUME NEW m \in Nat, NEW V, NEW nxt, NEW base, NEW G, Descent(m, V, nxt, base, G)
  PROVE  \E f \in [1..m -> V] : Descended(f, m, nxt, base, G)
<1> USE DEF Descent
<1> DEFINE Fits(f, p) == f[p] = IF nxt[p] = 0 THEN base[p] ELSE G[p][f[nxt[p]]]
           S == {k \in Nat : \E f \in [1..m -> V] : \A p \in 1..m : p > m - k => Fits(f, p)}
<1>1. 0 \in S
  <2>1. [p \in 1..m |-> base[p]] \in [1..m -> V]
    OBVIOUS
  <2>2. \A p \in 1..m : ~(p > m - 0)
    OBVIOUS
  <2> QED BY <2>1, <2>2
<1>2. ASSUME NEW k \in Nat, k \in S PROVE k + 1 \in S
  <2>1. PICK f \in [1..m -> V] : \A p \in 1..m : p > m - k => Fits(f, p)
    BY <1>2
  <2>2. CASE k >= m
    <3>1. \A p \in 1..m : p > m - k
      BY <2>2
    <3>2. \A p \in 1..m : p > m - (k + 1) => Fits(f, p)
      BY <2>1, <3>1
    <3> QED BY <3>2
  <2>3. CASE k < m
    <3> DEFINE c == m - k
               v == IF nxt[c] = 0 THEN base[c] ELSE G[c][f[nxt[c]]]
               h == [f EXCEPT ![c] = v]
    <3>1. c \in 1..m
      BY <2>3
    <3>2. v \in V
      <4>1. nxt[c] # 0 => f[nxt[c]] \in V
        <5>1. nxt[c] # 0 => nxt[c] \in 1..m
          BY <3>1
        <5> QED BY <5>1
      <4> QED BY <3>1, <4>1
    <3> HIDE DEF v
    <3>3. h \in [1..m -> V]
      BY <3>1, <3>2
    <3>4. h[c] = v /\ \A p \in 1..m : p # c => h[p] = f[p]
      BY <3>1
    <3>5. ASSUME NEW p \in 1..m, p > m - (k + 1) PROVE Fits(h, p)
      <4>1. p >= c
        BY <3>5
      <4>2. nxt[p] # 0 => nxt[p] \in 1..m /\ nxt[p] # c
        BY <3>1, <4>1
      <4>3. nxt[p] # 0 => h[nxt[p]] = f[nxt[p]]
        BY <3>4, <4>2
      <4>4. CASE p = c
        BY <3>4, <4>3, <4>4 DEF v
      <4>5. CASE p # c
        <5>1. p > m - k
          BY <4>1, <4>5
        <5>2. Fits(f, p)
          BY <2>1, <5>1
        <5>3. h[p] = f[p]
          BY <3>4, <4>5
        <5> QED BY <4>3, <5>2, <5>3
      <4> QED BY <4>4, <4>5
    <3>6. \A p \in 1..m : p > m - (k + 1) => Fits(h, p)
      BY <3>5
    <3> HIDE DEF h, Fits
    <3>7. \E g \in [1..m -> V] : \A p \in 1..m : p > m - (k + 1) => Fits(g, p)
      BY <3>3, <3>6
    <3> QED BY <3>7
  <2> QED BY <2>2, <2>3
<1>3. m \in S
  BY <1>1, <1>2, Induction
<1>4. \A p \in 1..m : p > m - m
  OBVIOUS
<1> QED BY <1>3, <1>4 DEF Descended

(***************************************************************************)
(* References in a replacement.                                             *)
(***************************************************************************)

LEMMA Lengths == ASSUME CallOK PROVE rplc_len \in Nat /\ Len(call.text) \in Nat
BY DEF CallOK, rplc_len

LEMMA MemChrFinds ==
  ASSUME NEW p \in Nat \ {0}, NEW e \in Nat
  PROVE  \/ /\ MemChr(p, e) = 0
            /\ \A k \in p..(e - 1) : call.rplc[k] # Backslash
         \/ /\ MemChr(p, e) \in p..(e - 1)
            /\ call.rplc[MemChr(p, e)] = Backslash
            /\ \A k \in p..(MemChr(p, e) - 1) : call.rplc[k] # Backslash
<1> DEFINE found == {q \in p..(e - 1) : call.rplc[q] = Backslash}
<1>1. CASE found = {}
  BY <1>1 DEF MemChr
<1>2. CASE found # {}
  <2> DEFINE q == CHOOSE q \in found : \A r \in found : q <= r
  <2>1. MemChr(p, e) = q
    BY <1>2 DEF MemChr
  <2>2. \E k \in found : \A r \in found : k <= r
    <3>1. found \in SUBSET Nat
      OBVIOUS
    <3> HIDE DEF found
    <3> QED BY <1>2, <3>1, Least
  <2>3. q \in found /\ \A r \in found : q <= r
    BY <2>2
  <2> HIDE DEF q
  <2>4. q \in p..(e - 1) /\ call.rplc[q] = Backslash
    BY <2>3
  <2>5. ASSUME NEW k \in p..(q - 1) PROVE call.rplc[k] # Backslash
    <3>1. k \in p..(e - 1) /\ ~(q <= k)
      BY <2>4
    <3> QED BY <2>3, <3>1
  <2> QED BY <2>1, <2>4, <2>5
<1> QED BY <1>1, <1>2

(* The same character is found when the search may go on further. *)
LEMMA MemChrFurther ==
  ASSUME NEW p \in Nat \ {0}, NEW e \in Nat, NEW f \in Nat, e <= f, MemChr(p, e) # 0
  PROVE  MemChr(p, f) = MemChr(p, e)
<1> DEFINE a == MemChr(p, e)
           b == MemChr(p, f)
<1>1. a \in p..(e - 1) /\ call.rplc[a] = Backslash /\ \A k \in p..(a - 1) : call.rplc[k] # Backslash
  BY MemChrFinds
<1>2. \/ b = 0 /\ \A k \in p..(f - 1) : call.rplc[k] # Backslash
      \/ b \in p..(f - 1) /\ call.rplc[b] = Backslash /\ \A k \in p..(b - 1) : call.rplc[k] # Backslash
  BY MemChrFinds
<1> HIDE DEF a, b
<1>3. b # 0
  BY <1>1, <1>2
<1>4. ~(a < b) /\ ~(b < a)
  BY <1>1, <1>2, <1>3
<1>5. a = b
  BY <1>1, <1>2, <1>3, <1>4
<1> QED BY <1>5 DEF a, b

(* The scan for the first reference. *)
Scans(f) ==
  f = [p \in 1..(rplc_len + 1) |->
         IF p = rplc_len + 1 THEN Wild
         ELSE LET q == MemChr(p, rplc_len)
              IN  IF q = 0 \/ IsDigit(q + 1) THEN q ELSE f[q + 2]]

LEMMA ScanExists ==
  ASSUME CallOK
  PROVE  \E f : Scans(f)
<1> DEFINE L == rplc_len
           q(p) == MemChr(p, L)
           stops(p) == p = L + 1 \/ q(p) = 0 \/ IsDigit(q(p) + 1)
           nxt == [p \in 1..(L + 1) |-> IF stops(p) THEN 0 ELSE q(p) + 2]
           base == [p \in 1..(L + 1) |-> IF p = L + 1 THEN Wild ELSE q(p)]
           G == [p \in 1..(L + 1) |-> [v \in Int |-> v]]
<1>1. L \in Nat
  BY Lengths
<1>2. \A p \in 1..L : q(p) \in Nat /\ (q(p) # 0 => q(p) \in p..(L - 1))
  <2> TAKE p \in 1..L
  <2>1. p \in Nat \ {0}
    BY <1>1
  <2> QED BY <1>1, <2>1, MemChrFinds
<1> HIDE DEF q
<1>3. \A p \in 1..(L + 1) : nxt[p] = 0 \/ nxt[p] \in (p + 1)..(L + 1)
  <2> SUFFICES ASSUME NEW p \in 1..(L + 1), ~stops(p)
               PROVE  q(p) + 2 \in (p + 1)..(L + 1)
    OBVIOUS
  <2>1. p \in 1..L /\ q(p) # 0
    BY <1>1
  <2> QED BY <1>1, <1>2, <2>1
<1>4. \A p \in 1..(L + 1) : base[p] \in Int
  BY <1>1, <1>2 DEF Wild
<1>5. \A p \in 1..(L + 1) : \A v \in Int : G[p][v] \in Int
  OBVIOUS
<1>6. L + 1 \in Nat
  BY <1>1
<1> HIDE DEF nxt, base, G
<1>7. PICK f \in [1..(L + 1) -> Int] :
        \A p \in 1..(L + 1) : f[p] = IF nxt[p] = 0 THEN base[p] ELSE G[p][f[nxt[p]]]
  <2>1. Descent(L + 1, Int, nxt, base, G)
    BY <1>3, <1>4, <1>5 DEF Descent
  <2>2. \E f \in [1..(L + 1) -> Int] : Descended(f, L + 1, nxt, base, G)
    BY <1>6, <2>1, Descends, Zenon
  <2> QED BY <2>2 DEF Descended
<1>8. ASSUME NEW p \in 1..(L + 1)
      PROVE  f[p] = IF p = L + 1 THEN Wild
                    ELSE IF q(p) = 0 \/ IsDigit(q(p) + 1) THEN q(p) ELSE f[q(p) + 2]
  <2>1. CASE stops(p)
    <3>1. nxt[p] = 0 /\ base[p] = IF p = L + 1 THEN Wild ELSE q(p)
      BY <2>1 DEF nxt, base
    <3> QED BY <1>7, <2>1, <3>1
  <2>2. CASE ~stops(p)
    <3>1. nxt[p] = q(p) + 2 /\ p # L + 1 /\ q(p) # 0 /\ ~IsDigit(q(p) + 1)
      BY <2>2 DEF nxt
    <3>2. nxt[p] # 0 /\ nxt[p] \in 1..(L + 1)
      <4>1. p \in 1..L
        BY <1>1, <3>1
      <4>2. q(p) \in p..(L - 1)
        BY <1>2, <3>1, <4>1
      <4> QED BY <1>1, <3>1, <4>1, <4>2, SMTT(30)
    <3>3. f[nxt[p]] \in Int
      BY <3>2
    <3>4. G[p][f[nxt[p]]] = f[nxt[p]]
      BY <3>3 DEF G
    <3> QED BY <1>7, <3>1, <3>2, <3>4
  <2> QED BY <2>1, <2>2
<1>9. f = [p \in 1..(L + 1) |->
             IF p = L + 1 THEN Wild
             ELSE IF q(p) = 0 \/ IsDigit(q(p) + 1) THEN q(p) ELSE f[q(p) + 2]]
  BY <1>8
<1> QED BY <1>9 DEF q, Scans

LEMMA ScanUnfolds ==
  ASSUME CallOK, rplc_len >= 2
  PROVE  \E f : Scans(f) /\ RefFirst = f[1]
<1> DEFINE f == CHOOSE f : f = [p \in 1..(rplc_len + 1) |->
                                  IF p = rplc_len + 1 THEN Wild
                                  ELSE LET q == MemChr(p, rplc_len)
                                       IN  IF q = 0 \/ IsDigit(q + 1) THEN q ELSE f[q + 2]]
<1>1. Scans(f)
  BY ScanExists, Zenon DEF Scans
<1>2. RefFirst = IF rplc_len < 2 THEN 0 ELSE f[1]
  BY Zenon DEF RefFirst
<1>3. ~(rplc_len < 2)
  BY Lengths
<1> HIDE DEF f
<1> QED BY <1>1, <1>2, <1>3

(* A scan stops at a reference, at the last character, or outside. *)
IsRef(k) == call.rplc[k] = Backslash /\ IsDigit(k + 1)

LEMMA ScanStops ==
  ASSUME CallOK, NEW f, Scans(f)
  PROVE  \A p \in 1..(rplc_len + 1) :
           \/ f[p] = 0
           \/ f[p] \in 1..(rplc_len - 1) /\ IsRef(f[p])
           \/ /\ f[p] = Wild
              /\ \/ p = rplc_len + 1
                 \/ /\ rplc_len >= 2 /\ call.rplc[rplc_len - 1] = Backslash
                    /\ call.rplc[rplc_len] \notin Digits
<1> DEFINE L == rplc_len
           Good(p) == \/ f[p] = 0
                      \/ f[p] \in 1..(L - 1) /\ IsRef(f[p])
                      \/ /\ f[p] = Wild
                         /\ \/ p = L + 1
                            \/ /\ L >= 2 /\ call.rplc[L - 1] = Backslash
                               /\ call.rplc[L] \notin Digits
           S == {p \in 1..(L + 1) : Good(p)}
<1>1. L \in Nat /\ L + 1 \in Nat
  BY Lengths
<1>2. ASSUME NEW p \in 1..(L + 1), \A r \in (p + 1)..(L + 1) : r \in S
      PROVE  p \in S
  <2> DEFINE q == MemChr(p, L)
  <2>1. f[p] = IF p = L + 1 THEN Wild
               ELSE IF q = 0 \/ IsDigit(q + 1) THEN q ELSE f[q + 2]
    BY DEF Scans
  <2>2. q = 0 \/ (q \in p..(L - 1) /\ call.rplc[q] = Backslash)
    <3>1. p \in Nat \ {0}
      BY <1>1
    <3> QED BY <1>1, <3>1, MemChrFinds
  <2> HIDE DEF q
  <2>3. CASE p = L + 1
    BY <2>1, <2>3
  <2>4. CASE p # L + 1 /\ q = 0
    BY <2>1, <2>4
  <2>5. CASE p # L + 1 /\ q # 0 /\ IsDigit(q + 1)
    <3>1. f[p] = q /\ q \in 1..(L - 1) /\ IsRef(q)
      BY <1>1, <2>1, <2>2, <2>5 DEF IsRef
    <3> QED BY <3>1
  <2>6. CASE p # L + 1 /\ q # 0 /\ ~IsDigit(q + 1)
    <3>1. f[p] = f[q + 2] /\ q \in p..(L - 1) /\ call.rplc[q] = Backslash
      BY <2>1, <2>2, <2>6
    <3>2. q + 2 \in (p + 1)..(L + 1)
      BY <1>1, <3>1
    <3>3. Good(q + 2)
      BY <1>2, <3>2
    <3>4. CASE q + 2 = L + 1
      <4>1. q = L - 1 /\ q + 1 = L /\ L >= 2
        BY <1>1, <3>1, <3>4
      <4>2. call.rplc[L] \notin Digits
        BY <2>6, <4>1 DEF IsDigit
      <4>3. f[L + 1] = Wild
        BY <1>1 DEF Scans
      <4> QED BY <3>1, <3>4, <4>1, <4>2, <4>3
    <3>5. CASE q + 2 # L + 1
      BY <3>1, <3>3, <3>5
    <3> QED BY <3>4, <3>5
  <2> QED BY <2>3, <2>4, <2>5, <2>6
<1> HIDE DEF S
<1>3. \A p \in 1..(L + 1) : p \in S
  BY <1>1, <1>2, Downwards
<1> QED BY <1>3 DEF S

LEMMA FirstIsRef ==
  ASSUME CallOK, RefFirst \notin {0, Wild}
  PROVE  RefFirst \in 1..(rplc_len - 1) /\ IsRef(RefFirst)
<1>1. rplc_len \in Nat /\ rplc_len >= 2
  BY Lengths DEF RefFirst
<1>2. PICK f : Scans(f) /\ RefFirst = f[1]
  BY <1>1, ScanUnfolds
<1>3. 1 \in 1..(rplc_len + 1)
  BY <1>1
<1> QED BY <1>2, <1>3, ScanStops

(* The only way out of the replacement. *)
LEMMA WildMeans ==
  ASSUME CallOK, RefFirst = Wild
  PROVE  call.rplc[rplc_len - 1] = Backslash /\ call.rplc[rplc_len] \notin Digits
<1>1. rplc_len \in Nat /\ rplc_len >= 2
  BY Lengths DEF RefFirst, Wild
<1>2. PICK f : Scans(f) /\ RefFirst = f[1]
  BY <1>1, ScanUnfolds
<1>3. 1 \in 1..(rplc_len + 1) /\ 1 # rplc_len + 1 /\ f[1] \notin 1..(rplc_len - 1) /\ f[1] # 0
  BY <1>1, <1>2 DEF Wild
<1> QED BY <1>2, <1>3, ScanStops

LEMMA LastCovers ==
  ASSUME CallOK, NEW first \in 1..(rplc_len - 1), IsRef(first)
  PROVE  /\ RefLast(first) \in (first + 2)..(rplc_len + 1)
         /\ IsDigit(RefLast(first) - 1)
         /\ \A k \in RefLast(first)..(rplc_len - 1) : ~IsRef(k)
<1> DEFINE L == rplc_len
           pairs == {q \in (first + 2)..(L - 1) : call.rplc[q] = Backslash /\ IsDigit(q + 1)}
<1>1. L \in Nat
  BY Lengths
<1>2. CASE pairs = {}
  <2>1. RefLast(first) = first + 2
    BY <1>2 DEF RefLast
  <2>2. \A k \in (first + 2)..(L - 1) : ~IsRef(k)
    BY <1>2 DEF IsRef
  <2>3. IsDigit(first + 1) /\ (first + 2) - 1 = first + 1
    BY DEF IsRef
  <2> QED BY <1>1, <2>1, <2>2, <2>3
<1>3. CASE pairs # {}
  <2> DEFINE q == CHOOSE q \in pairs : \A r \in pairs : r <= q
  <2>1. RefLast(first) = 2 + q
    BY <1>3 DEF RefLast
  <2>2. \E k \in pairs : \A r \in pairs : r <= k
    <3> DEFINE D == {d \in Nat : d <= L /\ L - d \in pairs}
    <3>1. PICK p : p \in pairs
      BY <1>3
    <3>2. L - p \in Nat /\ L - p <= L /\ L - (L - p) = p
      BY <1>1, <3>1
    <3>3. L - p \in D
      BY <3>1, <3>2
    <3>4. PICK d \in D : \A k \in D : d <= k
      <4>1. D \in SUBSET Nat /\ D # {}
        BY <3>3
      <4> HIDE DEF D
      <4> QED BY <4>1, Least
    <3>5. ASSUME NEW r \in pairs PROVE r <= L - d
      <4>1. L - r \in Nat /\ L - r <= L /\ L - (L - r) = r
        BY <1>1
      <4>2. d <= L - r
        BY <3>4, <4>1
      <4> QED BY <1>1, <4>2
    <3>6. L - d \in pairs
      BY <3>4
    <3> HIDE DEF pairs
    <3> QED BY <3>5, <3>6
  <2>3. q \in pairs /\ \A r \in pairs : r <= q
    BY <2>2
  <2> HIDE DEF q
  <2>4. q \in (first + 2)..(L - 1) /\ IsDigit(q + 1)
    BY <2>3
  <2>5. 2 + q \in (first + 2)..(L + 1) /\ (2 + q) - 1 = q + 1
    BY <1>1, <2>4
  <2>6. ASSUME NEW k \in (2 + q)..(L - 1) PROVE ~IsRef(k)
    <3>1. k \in (first + 2)..(L - 1) /\ ~(k <= q)
      BY <1>1, <2>4
    <3> QED BY <2>3, <3>1 DEF IsRef
  <2> QED BY <2>1, <2>4, <2>5, <2>6
<1> QED BY <1>2, <1>3

(***************************************************************************)
(* The two loops over a replacement with references.                        *)
(***************************************************************************)

(* No group, or a part of the text. *)
Part(g) == g = <<>> \/ \E a, b \in Nat : a <= b /\ b <= end /\ g = <<a, b>>

LEMMA ReferredIsPart ==
  ASSUME NEW q, NEW s, NEW g, Part(s), Part(g)
  PROVE  Part(Referred(q, s, g))
BY DEF Referred, Group, Part

LEMMA SubSeqLen ==
  ASSUME NEW t \in Seq(Char), NEW a \in 1..(Len(t) + 1), NEW b \in (a - 1)..Len(t)
  PROVE  SubSeq(t, a, b) \in Seq(Char) /\ Len(SubSeq(t, a, b)) = (b - a) + 1
<1>1. Len(t) \in Nat
  OBVIOUS
<1>2. \A k \in a..b : t[k] \in Char
  BY <1>1
<1>3. SubSeq(t, a, b) \in Seq(Char)
  BY <1>1, <1>2
<1>4. Len(SubSeq(t, a, b)) = IF a <= b THEN (b - a) + 1 ELSE 0
  BY <1>1, SubSeqProperties
<1>5. ~(a <= b) => (b - a) + 1 = 0
  BY <1>1
<1> QED BY <1>3, <1>4, <1>5

(* What is stored for the two characters from q on. *)
Stored(q, grp) ==
  IF grp = <<>> THEN SubSeq(call.rplc, q, q + 1)
  ELSE [k \in 1..(grp[2] - grp[1]) |-> data[grp[1] + k - 1]]

Wider(grp) == IF grp = <<>> THEN 0 ELSE grp[2] - grp[1] - 2

LEMMA StoredType ==
  ASSUME CallOK, \A k \in 0..(end - 1) : data[k] \in Char, end \in Nat,
         NEW q \in 1..(rplc_len - 1), NEW grp, Part(grp)
  PROVE  /\ Stored(q, grp) \in Seq(Char) /\ Wider(grp) \in Int
         /\ Len(Stored(q, grp)) = 2 + Wider(grp)
<1>1. rplc_len \in Nat /\ call.rplc \in Seq(Char) /\ rplc_len = Len(call.rplc)
  BY Lengths DEF CallOK, rplc_len
<1>2. CASE grp = <<>>
  <2>1. q \in 1..(Len(call.rplc) + 1) /\ q + 1 \in (q - 1)..Len(call.rplc) /\ ((q + 1) - q) + 1 = 2
    BY <1>1
  <2>2. SubSeq(call.rplc, q, q + 1) \in Seq(Char) /\ Len(SubSeq(call.rplc, q, q + 1)) = 2
    BY <1>1, <2>1, SubSeqLen
  <2> QED BY <1>2, <2>2 DEF Stored, Wider
<1>3. CASE grp # <<>>
  <2>1. PICK a, b \in Nat : a <= b /\ b <= end /\ grp = <<a, b>>
    BY <1>3 DEF Part
  <2> DEFINE t == [k \in 1..(b - a) |-> data[a + k - 1]]
  <2>2. Stored(q, grp) = t /\ Wider(grp) = b - a - 2
    BY <1>3, <2>1 DEF Stored, Wider
  <2>3. \A k \in 1..(b - a) : data[a + k - 1] \in Char
    <3> TAKE k \in 1..(b - a)
    <3>1. a + k - 1 \in 0..(end - 1)
      BY <2>1
    <3> QED BY <3>1
  <2>4. b - a \in Nat
    BY <2>1
  <2>5. t \in Seq(Char) /\ Len(t) = b - a
    BY <2>3, <2>4
  <2> QED BY <2>1, <2>2, <2>4, <2>5, SMTT(30)
<1> QED BY <1>2, <1>3

Measures(f, s, g) ==
  f = [p \in 1..(rplc_len + 1) |->
         LET q == MemChr(p, refs[2])
         IN  IF q = 0 THEN 0
             ELSE LET grp == Referred(q, s, g)
                  IN  f[q + 2] + (IF grp = <<>> THEN 0 ELSE grp[2] - grp[1] - 2)]

Stores(f, s, g) ==
  f = [p \in 1..(rplc_len + 1) |->
         LET q == MemChr(p, rplc_len + 1)
         IN  IF q = 0 \/ q = rplc_len THEN SubSeq(call.rplc, p, rplc_len)
             ELSE LET grp == Referred(q, s, g)
                  IN  SubSeq(call.rplc, p, q - 1)
                        \o (IF grp = <<>> THEN SubSeq(call.rplc, q, q + 1)
                            ELSE [k \in 1..(grp[2] - grp[1]) |-> data[grp[1] + k - 1]])
                        \o f[q + 2]]

(* The measuring loop runs to the last reference. *)
LEMMA MeasuredWithin ==
  ASSUME CallOK, References, refs # <<>>, NEW p \in 1..(rplc_len + 1),
         MemChr(p, refs[2]) # 0
  PROVE  /\ MemChr(p, refs[2]) \in p..(refs[2] - 2)
         /\ refs[2] \in 1..(rplc_len + 1)
         /\ MemChr(p, rplc_len + 1) = MemChr(p, refs[2])
         /\ MemChr(p, refs[2]) \in 1..(rplc_len - 1)
<1> DEFINE q == MemChr(p, refs[2])
           e == refs[2]
<1>1. rplc_len \in Nat
  BY Lengths
<1>2. /\ e = RefLast(RefFirst) /\ RefFirst \in 1..(rplc_len - 1) /\ IsRef(RefFirst)
  BY FirstIsRef DEF References
<1>3. e \in (RefFirst + 2)..(rplc_len + 1) /\ IsDigit(e - 1)
  BY <1>2, LastCovers
<1>4. p \in Nat \ {0} /\ e \in Nat /\ e <= rplc_len + 1 /\ rplc_len + 1 \in Nat
  BY <1>1, <1>2, <1>3
<1>5. q \in p..(e - 1) /\ call.rplc[q] = Backslash
  BY <1>4, MemChrFinds
<1>6. MemChr(p, rplc_len + 1) = q
  BY <1>4, MemChrFurther
<1> HIDE DEF q, e
<1>7. q # e - 1
  BY <1>3, <1>5, DigitsAssumption DEF IsDigit
<1>8. q \in p..(e - 2) /\ q \in 1..(rplc_len - 1) /\ e \in 1..(rplc_len + 1)
  BY <1>1, <1>4, <1>5, <1>7
<1> QED BY <1>6, <1>8 DEF q, e

LEMMA MeasureExists ==
  ASSUME CallOK, References, refs # <<>>, end \in Nat, NEW s, NEW g, Part(s), Part(g)
  PROVE  \E f : Measures(f, s, g) /\ f \in [1..(rplc_len + 1) -> Int]
<1> DEFINE L == rplc_len
           q(p) == MemChr(p, refs[2])
           w(p) == Wider(Referred(q(p), s, g))
           nxt == [p \in 1..(L + 1) |-> IF q(p) = 0 THEN 0 ELSE q(p) + 2]
           base == [p \in 1..(L + 1) |-> 0]
           G == [p \in 1..(L + 1) |-> [v \in Int |-> v + w(p)]]
<1>1. L \in Nat /\ L + 1 \in Nat
  BY Lengths
<1>2. \A p \in 1..(L + 1) : q(p) # 0 =>
        q(p) \in p..(refs[2] - 2) /\ refs[2] \in 1..(L + 1)
  BY MeasuredWithin
<1>3. \A p : w(p) \in Int
  <2> TAKE p
  <2>1. Part(Referred(q(p), s, g))
    BY ReferredIsPart
  <2> QED BY <2>1 DEF Part, Wider
<1> HIDE DEF q, w
<1>4. Descent(L + 1, Int, nxt, base, G)
  <2>1. ASSUME NEW p \in 1..(L + 1) PROVE nxt[p] = 0 \/ nxt[p] \in (p + 1)..(L + 1)
    <3>1. CASE q(p) = 0
      BY <3>1
    <3>2. CASE q(p) # 0
      <4>1. q(p) \in p..(refs[2] - 2) /\ refs[2] \in 1..(L + 1)
        BY <1>2, <3>2
      <4>2. q(p) + 2 \in (p + 1)..(L + 1)
        BY <1>1, <4>1
      <4> QED BY <3>2, <4>2
    <3> QED BY <3>1, <3>2
  <2>2. ASSUME NEW p \in 1..(L + 1), NEW v \in Int PROVE G[p][v] \in Int
    BY <1>3
  <2>3. \A p \in 1..(L + 1) : base[p] \in Int
    OBVIOUS
  <2> HIDE DEF nxt, base, G
  <2> QED BY <2>1, <2>2, <2>3 DEF Descent
<1> HIDE DEF nxt, base, G
<1>5. \E f \in [1..(L + 1) -> Int] : Descended(f, L + 1, nxt, base, G)
  BY <1>1, <1>4, Descends, Zenon
<1>6. PICK f \in [1..(L + 1) -> Int] :
        \A p \in 1..(L + 1) : f[p] = IF nxt[p] = 0 THEN base[p] ELSE G[p][f[nxt[p]]]
  BY <1>5 DEF Descended
<1>7. ASSUME NEW p \in 1..(L + 1)
      PROVE  f[p] = IF q(p) = 0 THEN 0 ELSE f[q(p) + 2] + w(p)
  <2>1. CASE q(p) = 0
    <3>1. nxt[p] = 0 /\ base[p] = 0
      BY <2>1 DEF nxt, base
    <3> QED BY <1>6, <2>1, <3>1
  <2>2. CASE q(p) # 0
    <3>1. q(p) \in p..(refs[2] - 2) /\ refs[2] \in 1..(L + 1)
      BY <1>2, <2>2
    <3>2. nxt[p] = q(p) + 2 /\ nxt[p] # 0 /\ nxt[p] \in 1..(L + 1)
      BY <1>1, <2>2, <3>1, SMTT(30) DEF nxt
    <3>3. f[nxt[p]] \in Int
      BY <3>2
    <3>4. G[p][f[nxt[p]]] = f[nxt[p]] + w(p)
      BY <3>3 DEF G
    <3> QED BY <1>6, <2>2, <3>2, <3>4
  <2> QED BY <2>1, <2>2
<1>8. f = [p \in 1..(L + 1) |-> IF q(p) = 0 THEN 0 ELSE f[q(p) + 2] + w(p)]
  BY <1>7
<1>9. Measures(f, s, g)
  BY <1>8 DEF q, w, Wider, Measures
<1> QED BY <1>9

LEMMA StrLenUnfolds ==
  ASSUME CallOK, References, refs # <<>>, end \in Nat, NEW s, NEW g, Part(s), Part(g)
  PROVE  \E f : Measures(f, s, g) /\ StrLen(s, g) = rplc_len + f[refs[1]]
<1> DEFINE f == CHOOSE f :
                  f = [p \in 1..(rplc_len + 1) |->
                         LET q == MemChr(p, refs[2])
                         IN  IF q = 0 THEN 0
                             ELSE LET grp == Referred(q, s, g)
                                  IN  f[q + 2] + (IF grp = <<>> THEN 0 ELSE grp[2] - grp[1] - 2)]
<1>1. Measures(f, s, g)
  <2>1. \E h : Measures(h, s, g)
    BY MeasureExists
  <2> QED BY <2>1, Zenon DEF Measures
<1>2. StrLen(s, g) = rplc_len + f[refs[1]]
  BY Zenon DEF StrLen
<1> HIDE DEF f
<1> QED BY <1>1, <1>2

LEMMA StoreExists ==
  ASSUME CallOK, end \in Nat, \A k \in 0..(end - 1) : data[k] \in Char,
         NEW s, NEW g, Part(s), Part(g)
  PROVE  \E f : Stores(f, s, g) /\ f \in [1..(rplc_len + 1) -> Seq(Char)]
<1> DEFINE L == rplc_len
           q(p) == MemChr(p, L + 1)
           front(p) == SubSeq(call.rplc, p, q(p) - 1)
           item(p) == Stored(q(p), Referred(q(p), s, g))
           stops(p) == q(p) = 0 \/ q(p) = L
           nxt == [p \in 1..(L + 1) |-> IF stops(p) THEN 0 ELSE q(p) + 2]
           base == [p \in 1..(L + 1) |-> SubSeq(call.rplc, p, L)]
           G == [p \in 1..(L + 1) |-> [v \in Seq(Char) |-> front(p) \o item(p) \o v]]
<1>1. L \in Nat /\ L + 1 \in Nat /\ L = Len(call.rplc) /\ call.rplc \in Seq(Char)
  BY Lengths DEF CallOK, rplc_len
<1>2. \A p \in 1..(L + 1) : ~stops(p) => q(p) \in p..(L - 1) /\ q(p) \in 1..(L - 1)
  <2> TAKE p \in 1..(L + 1)
  <2>1. p \in Nat \ {0}
    BY <1>1
  <2>2. q(p) = 0 \/ q(p) \in p..((L + 1) - 1)
    BY <1>1, <2>1, MemChrFinds
  <2> HIDE DEF q
  <2> QED BY <1>1, <2>1, <2>2
<1>3. \A p \in 1..(L + 1) : base[p] \in Seq(Char)
  <2> SUFFICES ASSUME NEW p \in 1..(L + 1) PROVE SubSeq(call.rplc, p, L) \in Seq(Char)
    OBVIOUS
  <2>1. p \in 1..(Len(call.rplc) + 1) /\ L \in (p - 1)..Len(call.rplc)
    BY <1>1
  <2> QED BY <1>1, <2>1, SubSeqLen
<1>4. \A p \in 1..(L + 1) : ~stops(p) => front(p) \in Seq(Char) /\ item(p) \in Seq(Char)
  <2> SUFFICES ASSUME NEW p \in 1..(L + 1), ~stops(p)
               PROVE  front(p) \in Seq(Char) /\ item(p) \in Seq(Char)
    OBVIOUS
  <2>1. q(p) \in p..(L - 1) /\ q(p) \in 1..(L - 1)
    BY <1>2
  <2>2. Part(Referred(q(p), s, g))
    BY ReferredIsPart
  <2>3. item(p) \in Seq(Char)
    BY <2>1, <2>2, StoredType
  <2> HIDE DEF q, item
  <2>4. p \in 1..(Len(call.rplc) + 1) /\ q(p) - 1 \in (p - 1)..Len(call.rplc)
    BY <1>1, <2>1
  <2>5. front(p) \in Seq(Char)
    BY <1>1, <2>4, SubSeqLen
  <2> QED BY <2>3, <2>5
<1> HIDE DEF q, front, item
<1>5. Descent(L + 1, Seq(Char), nxt, base, G)
  <2>1. ASSUME NEW p \in 1..(L + 1) PROVE nxt[p] = 0 \/ nxt[p] \in (p + 1)..(L + 1)
    <3>1. CASE stops(p)
      BY <3>1
    <3>2. CASE ~stops(p)
      <4>1. q(p) \in p..(L - 1)
        BY <1>2, <3>2
      <4>2. q(p) + 2 \in (p + 1)..(L + 1)
        BY <1>1, <4>1
      <4> QED BY <3>2, <4>2
    <3> QED BY <3>1, <3>2
  <2>2. ASSUME NEW p \in 1..(L + 1), nxt[p] # 0, NEW v \in Seq(Char) PROVE G[p][v] \in Seq(Char)
    <3>1. front(p) \in Seq(Char) /\ item(p) \in Seq(Char)
      BY <1>4, <2>2
    <3>2. front(p) \o item(p) \o v \in Seq(Char)
      BY <3>1
    <3> QED BY <3>2
  <2> HIDE DEF nxt, base, G
  <2> QED BY <2>1, <2>2, <1>3 DEF Descent
<1> HIDE DEF nxt, base, G
<1>6. \E f \in [1..(L + 1) -> Seq(Char)] : Descended(f, L + 1, nxt, base, G)
  BY <1>1, <1>5, Descends, Zenon
<1>7. PICK f \in [1..(L + 1) -> Seq(Char)] :
        \A p \in 1..(L + 1) : f[p] = IF nxt[p] = 0 THEN base[p] ELSE G[p][f[nxt[p]]]
  BY <1>6 DEF Descended
<1>8. ASSUME NEW p \in 1..(L + 1)
      PROVE  f[p] = IF q(p) = 0 \/ q(p) = L THEN SubSeq(call.rplc, p, L)
                    ELSE front(p) \o item(p) \o f[q(p) + 2]
  <2>1. CASE stops(p)
    <3>1. nxt[p] = 0 /\ base[p] = SubSeq(call.rplc, p, L)
      BY <2>1 DEF nxt, base
    <3> QED BY <1>7, <2>1, <3>1
  <2>2. CASE ~stops(p)
    <3>1. q(p) \in p..(L - 1)
      BY <1>2, <2>2
    <3>2. nxt[p] = q(p) + 2 /\ nxt[p] # 0 /\ nxt[p] \in 1..(L + 1)
      BY <1>1, <2>2, <3>1 DEF nxt
    <3>3. f[nxt[p]] \in Seq(Char)
      BY <3>2
    <3>4. G[p][f[nxt[p]]] = front(p) \o item(p) \o f[nxt[p]]
      BY <3>3 DEF G
    <3> QED BY <1>7, <2>2, <3>2, <3>4
  <2> QED BY <2>1, <2>2
<1>9. f = [p \in 1..(L + 1) |->
             IF q(p) = 0 \/ q(p) = L THEN SubSeq(call.rplc, p, L)
             ELSE front(p) \o item(p) \o f[q(p) + 2]]
  BY <1>8
<1>10. Stores(f, s, g)
  BY <1>9 DEF q, front, item, Stored, Stores
<1> QED BY <1>10

LEMMA CpyUnfolds ==
  ASSUME CallOK, end \in Nat, \A k \in 0..(end - 1) : data[k] \in Char,
         NEW s, NEW g, Part(s), Part(g)
  PROVE  \E f : Stores(f, s, g) /\ Cpy(s, g) = f[1]
<1> DEFINE f == CHOOSE f :
                  f = [p \in 1..(rplc_len + 1) |->
                         LET q == MemChr(p, rplc_len + 1)
                         IN  IF q = 0 \/ q = rplc_len THEN SubSeq(call.rplc, p, rplc_len)
                             ELSE LET grp == Referred(q, s, g)
                                  IN  SubSeq(call.rplc, p, q - 1)
                                        \o (IF grp = <<>> THEN SubSeq(call.rplc, q, q + 1)
                                            ELSE [k \in 1..(grp[2] - grp[1]) |-> data[grp[1] + k - 1]])
                                        \o f[q + 2]]
<1>1. Stores(f, s, g)
  <2>1. \E h : Stores(h, s, g)
    BY StoreExists
  <2> QED BY <2>1, Zenon DEF Stores
<1>2. Cpy(s, g) = f[1]
  BY Zenon DEF Cpy
<1> HIDE DEF f
<1> QED BY <1>1, <1>2

(* From p on the storing loop stores what it reads, but for the items that  *)
(* are wider or narrower.                                                   *)
LEMMA StoreSteps ==
  ASSUME CallOK, end \in Nat, \A k \in 0..(end - 1) : data[k] \in Char,
         NEW s, NEW g, Part(s), Part(g), NEW f, Stores(f, s, g),
         NEW p \in 1..(rplc_len + 1)
  PROVE  LET q == MemChr(p, rplc_len + 1)
         IN  IF q = 0 \/ q = rplc_len
             THEN f[p] \in Seq(Char) /\ Len(f[p]) = (rplc_len + 1) - p
             ELSE /\ q \in p..(rplc_len - 1)
                  /\ f[q + 2] \in Seq(Char) =>
                       /\ f[p] \in Seq(Char)
                       /\ Len(f[p]) = (((q + 2) - p) + Wider(Referred(q, s, g))) + Len(f[q + 2])
<1> DEFINE L == rplc_len
           q == MemChr(p, L + 1)
           front == SubSeq(call.rplc, p, q - 1)
           item == Stored(q, Referred(q, s, g))
<1>1. L \in Nat /\ L + 1 \in Nat /\ L = Len(call.rplc) /\ call.rplc \in Seq(Char)
  BY Lengths DEF CallOK, rplc_len
<1>2. f[p] = IF q = 0 \/ q = L THEN SubSeq(call.rplc, p, L) ELSE front \o item \o f[q + 2]
  BY DEF Stores, Stored
<1>3. q = 0 \/ q \in p..L
  <2>1. p \in Nat \ {0}
    BY <1>1
  <2> QED BY <1>1, <2>1, MemChrFinds
<1>4. CASE q = 0 \/ q = L
  <2>1. p \in 1..(Len(call.rplc) + 1) /\ L \in (p - 1)..Len(call.rplc)
    BY <1>1
  <2>2. SubSeq(call.rplc, p, L) \in Seq(Char) /\ Len(SubSeq(call.rplc, p, L)) = (L - p) + 1
    BY <1>1, <2>1, SubSeqLen
  <2>3. (L - p) + 1 = (L + 1) - p
    BY <1>1
  <2> HIDE DEF q
  <2> QED BY <1>2, <1>4, <2>2, <2>3 DEF q
<1>5. CASE ~(q = 0 \/ q = L)
  <2>1. q \in p..(L - 1) /\ q \in 1..(L - 1)
    <3> HIDE DEF q
    <3> QED BY <1>1, <1>3, <1>5
  <2>2. Part(Referred(q, s, g))
    BY ReferredIsPart
  <2>3. /\ item \in Seq(Char) /\ Len(item) = 2 + Wider(Referred(q, s, g))
        /\ Wider(Referred(q, s, g)) \in Int
    BY <2>1, <2>2, StoredType
  <2> DEFINE w == Wider(Referred(q, s, g))
  <2> HIDE DEF q, item, w
  <2>4. front \in Seq(Char) /\ Len(front) = ((q - 1) - p) + 1
    <3>1. p \in 1..(Len(call.rplc) + 1) /\ q - 1 \in (p - 1)..Len(call.rplc)
      BY <1>1, <2>1
    <3> QED BY <1>1, <3>1, SubSeqLen
  <2> HIDE DEF front
  <2>5. ASSUME f[q + 2] \in Seq(Char)
        PROVE  f[p] \in Seq(Char) /\ Len(f[p]) = (((q + 2) - p) + w) + Len(f[q + 2])
    <3> DEFINE t == f[q + 2]
    <3>1. t \in Seq(Char) /\ Len(t) \in Nat
      BY <2>5
    <3>2. f[p] = front \o item \o t
      BY <1>2, <1>5
    <3> HIDE DEF t
    <3>3. /\ front \o item \o t \in Seq(Char)
          /\ Len(front \o item \o t) = (Len(front) + Len(item)) + Len(t)
      BY <2>3, <2>4, <3>1, SMTT(30)
    <3>4. w \in Int /\ Len(item) = 2 + w
      BY <2>3 DEF w
    <3>5. (((q - 1) - p) + 1 + (2 + w)) + Len(t) = (((q + 2) - p) + w) + Len(t)
      BY <1>1, <2>1, <3>1, <3>4
    <3>6. Len(f[p]) = (((q - 1) - p) + 1 + (2 + w)) + Len(t)
      BY <2>4, <3>2, <3>3, <3>4
    <3> QED BY <3>2, <3>3, <3>5, <3>6 DEF t
  <2> QED BY <1>5, <2>1, <2>5 DEF q, w
<1> QED BY <1>4, <1>5

(* A replacement is being made of the match s and the group g in the text. *)
Matched(s, g) ==
  /\ CallOK /\ end \in Nat /\ \A k \in 0..(end - 1) : data[k] \in Char
  /\ Part(s) /\ Part(g)

(* StoreSteps, told apart. *)
LEMMA StoreEnds ==
  ASSUME NEW s, NEW g, Matched(s, g), NEW f, Stores(f, s, g), NEW p \in 1..(rplc_len + 1),
         MemChr(p, rplc_len + 1) \in {0, rplc_len}
  PROVE  f[p] \in Seq(Char) /\ Len(f[p]) = (rplc_len + 1) - p
BY StoreSteps DEF Matched

LEMMA StoreGoesOn ==
  ASSUME NEW s, NEW g, Matched(s, g), NEW f, Stores(f, s, g), NEW p \in 1..(rplc_len + 1),
         NEW q, q = MemChr(p, rplc_len + 1), q \notin {0, rplc_len}
  PROVE  /\ q \in p..(rplc_len - 1)
         /\ f[q + 2] \in Seq(Char) =>
              /\ f[p] \in Seq(Char)
              /\ Len(f[p]) = (((q + 2) - p) + Wider(Referred(q, s, g))) + Len(f[q + 2])
BY StoreSteps DEF Matched

LEMMA StoreTypes ==
  ASSUME NEW s, NEW g, Matched(s, g), NEW f, Stores(f, s, g)
  PROVE  \A p \in 1..(rplc_len + 1) : f[p] \in Seq(Char)
<1> DEFINE S == {p \in 1..(rplc_len + 1) : f[p] \in Seq(Char)}
<1>1. rplc_len \in Nat /\ rplc_len + 1 \in Nat
  BY Lengths DEF Matched
<1>2. ASSUME NEW p \in 1..(rplc_len + 1), \A r \in (p + 1)..(rplc_len + 1) : r \in S
      PROVE  p \in S
  <2>1. CASE MemChr(p, rplc_len + 1) \in {0, rplc_len}
    BY <2>1, StoreEnds
  <2>2. CASE MemChr(p, rplc_len + 1) \notin {0, rplc_len}
    <3> DEFINE q == MemChr(p, rplc_len + 1)
    <3>1. q \in p..(rplc_len - 1) /\ (f[q + 2] \in Seq(Char) => f[p] \in Seq(Char))
      BY <2>2, StoreGoesOn
    <3> HIDE DEF q
    <3>2. q + 2 \in (p + 1)..(rplc_len + 1)
      BY <1>1, <3>1
    <3> QED BY <1>2, <3>1, <3>2
  <2> QED BY <2>1, <2>2
<1> HIDE DEF S
<1>3. \A p \in 1..(rplc_len + 1) : p \in S
  BY <1>1, <1>2, Downwards
<1> QED BY <1>3 DEF S

(* Behind the last reference everything is stored as it stands. *)
LEMMA TailLiteral ==
  ASSUME NEW s, NEW g, Matched(s, g), NEW f, Stores(f, s, g)
  PROVE  \A p \in 1..(rplc_len + 1) :
           (\A k \in p..(rplc_len - 1) : ~IsRef(k)) => Len(f[p]) = (rplc_len + 1) - p
<1> DEFINE L == rplc_len
           Plain(p) == \A k \in p..(L - 1) : ~IsRef(k)
           S == {p \in 1..(L + 1) : Plain(p) => Len(f[p]) = (L + 1) - p}
<1>1. L \in Nat /\ L + 1 \in Nat
  BY Lengths DEF Matched
<1>2. ASSUME NEW p \in 1..(L + 1), \A r \in (p + 1)..(L + 1) : r \in S
      PROVE  p \in S
  <2> SUFFICES ASSUME Plain(p) PROVE Len(f[p]) = (L + 1) - p
    OBVIOUS
  <2>1. CASE MemChr(p, L + 1) \in {0, L}
    BY <2>1, StoreEnds
  <2>2. CASE MemChr(p, L + 1) \notin {0, L}
    <3> DEFINE q == MemChr(p, L + 1)
    <3>1. /\ q \in p..(L - 1)
          /\ f[q + 2] \in Seq(Char) =>
               Len(f[p]) = (((q + 2) - p) + Wider(Referred(q, s, g))) + Len(f[q + 2])
      BY <2>2, StoreGoesOn
    <3>2. call.rplc[q] = Backslash
      <4>1. p \in Nat \ {0} /\ q # 0
        BY <1>1, <2>2
      <4> QED BY <1>1, <4>1, MemChrFinds
    <3> HIDE DEF q
    <3>3. q + 2 \in (p + 1)..(L + 1) /\ q + 2 \in 1..(L + 1)
      BY <1>1, <3>1
    <3>4. Plain(q + 2)
      BY <1>1, <3>1
    <3>5. Len(f[q + 2]) = (L + 1) - (q + 2) /\ f[q + 2] \in Seq(Char)
      BY <1>2, <3>3, <3>4, StoreTypes
    <3>6. ~IsDigit(q + 1)
      BY <3>1, <3>2 DEF IsRef
    <3>7. Wider(Referred(q, s, g)) = 0
      BY <3>6 DEF Referred, Wider
    <3>8. (((q + 2) - p) + 0) + ((L + 1) - (q + 2)) = (L + 1) - p
      BY <1>1, <3>1
    <3> QED BY <3>1, <3>5, <3>7, <3>8
  <2> QED BY <2>1, <2>2
<1> HIDE DEF S
<1>3. \A p \in 1..(L + 1) : p \in S
  BY <1>1, <1>2, Downwards
<1> QED BY <1>3 DEF S

(* From the first reference to behind the last the loops go in step. *)
LEMMA LoopsAgree ==
  ASSUME NEW s, NEW g, Matched(s, g), References, refs # <<>>,
         NEW f, Stores(f, s, g), NEW h, Measures(h, s, g)
  PROVE  \A p \in 1..(rplc_len + 1) :
           p <= refs[2] => h[p] \in Int /\ Len(f[p]) = ((rplc_len + 1) - p) + h[p]
<1> DEFINE L == rplc_len
           e == refs[2]
           S == {p \in 1..(L + 1) : p <= e => h[p] \in Int /\ Len(f[p]) = ((L + 1) - p) + h[p]}
<1>1. L \in Nat /\ L + 1 \in Nat /\ CallOK
  BY Lengths DEF Matched
<1>2. /\ e \in Nat /\ \A k \in e..(L - 1) : ~IsRef(k)
      /\ e <= L + 1
  <2>1. e = RefLast(RefFirst) /\ RefFirst \in 1..(L - 1) /\ IsRef(RefFirst)
    BY <1>1, FirstIsRef DEF References
  <2>2. e \in (RefFirst + 2)..(L + 1) /\ \A k \in e..(L - 1) : ~IsRef(k)
    BY <1>1, <2>1, LastCovers
  <2> HIDE DEF e
  <2> QED BY <1>1, <2>1, <2>2
<1>3. ASSUME NEW p \in 1..(L + 1), \A r \in (p + 1)..(L + 1) : r \in S
      PROVE  p \in S
  <2> SUFFICES ASSUME p <= e PROVE h[p] \in Int /\ Len(f[p]) = ((L + 1) - p) + h[p]
    OBVIOUS
  <2> DEFINE q == MemChr(p, e)
  <2>1. h[p] = IF q = 0 THEN 0 ELSE h[q + 2] + Wider(Referred(q, s, g))
    BY DEF Measures, Wider
  <2>2. CASE q = 0
    <3>1. \A k \in p..(e - 1) : call.rplc[k] # Backslash
      <4>1. p \in Nat \ {0}
        BY <1>1
      <4> QED BY <1>2, <2>2, <4>1, MemChrFinds
    <3> HIDE DEF e
    <3>2. \A k \in p..(L - 1) : ~IsRef(k)
      BY <1>1, <1>2, <3>1 DEF IsRef
    <3>3. Len(f[p]) = (L + 1) - p
      BY <3>2, TailLiteral
    <3>4. ((L + 1) - p) + 0 = (L + 1) - p
      BY <1>1
    <3> QED BY <2>1, <2>2, <3>3, <3>4
  <2>3. CASE q # 0
    <3>1. /\ q \in p..(e - 2) /\ e \in 1..(L + 1)
          /\ MemChr(p, L + 1) = q /\ q \in 1..(L - 1)
      BY <1>1, <2>3, MeasuredWithin
    <3>2. q \notin {0, L}
      BY <1>1, <3>1
    <3> HIDE DEF q, e
    <3>3. f[q + 2] \in Seq(Char) =>
            Len(f[p]) = (((q + 2) - p) + Wider(Referred(q, s, g))) + Len(f[q + 2])
      BY <3>1, <3>2, StoreGoesOn
    <3>4. q + 2 \in (p + 1)..(L + 1) /\ q + 2 \in 1..(L + 1) /\ q + 2 <= e
      BY <1>1, <3>1
    <3>5. /\ h[q + 2] \in Int /\ Len(f[q + 2]) = ((L + 1) - (q + 2)) + h[q + 2]
          /\ f[q + 2] \in Seq(Char)
      BY <1>3, <3>4, StoreTypes
    <3>6. Wider(Referred(q, s, g)) \in Int
      <4>1. Part(Referred(q, s, g))
        BY ReferredIsPart DEF Matched
      <4> QED BY <4>1 DEF Part, Wider
    <3> DEFINE w == Wider(Referred(q, s, g))
               b == h[q + 2]
    <3>7. h[p] = b + w
      BY <2>1, <2>3
    <3>8. Len(f[p]) = (((q + 2) - p) + w) + (((L + 1) - (q + 2)) + b)
      BY <3>3, <3>5
    <3>9. w \in Int /\ b \in Int
      BY <3>5, <3>6
    <3> HIDE DEF w, b
    <3>10. (((q + 2) - p) + w) + (((L + 1) - (q + 2)) + b) = ((L + 1) - p) + (b + w)
      BY <1>1, <3>1, <3>9
    <3> QED BY <3>7, <3>8, <3>9, <3>10
  <2> QED BY <2>2, <2>3
<1> HIDE DEF S
<1>4. \A p \in 1..(L + 1) : p \in S
  BY <1>1, <1>3, Downwards
<1> QED BY <1>4 DEF S

(* Up to the first reference everything is stored as it stands. *)
LEMMA HeadLiteral ==
  ASSUME NEW s, NEW g, Matched(s, g), RefFirst \notin {0, Wild},
         NEW f, Stores(f, s, g), NEW c, Scans(c)
  PROVE  \A p \in 1..(rplc_len + 1) :
           c[p] = RefFirst => Len(f[p]) = Len(f[RefFirst]) + (RefFirst - p)
<1> DEFINE L == rplc_len
           first == RefFirst
           S == {p \in 1..(L + 1) : c[p] = first => Len(f[p]) = Len(f[first]) + (first - p)}
<1>1. L \in Nat /\ L + 1 \in Nat /\ CallOK
  BY Lengths DEF Matched
<1>2. first \in 1..(L - 1) /\ IsRef(first)
  BY <1>1, FirstIsRef
<1> HIDE DEF first
<1>3. ASSUME NEW p \in 1..(L + 1), \A r \in (p + 1)..(L + 1) : r \in S
      PROVE  p \in S
  <2> SUFFICES ASSUME c[p] = first PROVE Len(f[p]) = Len(f[first]) + (first - p)
    OBVIOUS
  <2> DEFINE q == MemChr(p, L)
             w == Wider(Referred(q, s, g))
  <2>1. c[p] = IF p = L + 1 THEN Wild ELSE IF q = 0 \/ IsDigit(q + 1) THEN q ELSE c[q + 2]
    BY DEF Scans
  <2>2. p # L + 1 /\ q # 0
    BY <1>1, <1>2, <2>1 DEF Wild
  <2>3. q \in p..(L - 1) /\ MemChr(p, L + 1) = q
    <3>1. p \in Nat \ {0} /\ L <= L + 1
      BY <1>1
    <3> QED BY <1>1, <2>2, <3>1, MemChrFinds, MemChrFurther
  <2>4. w \in Int
    <3>1. Part(Referred(q, s, g))
      BY ReferredIsPart DEF Matched
    <3> QED BY <3>1 DEF Part, Wider
  <2> HIDE DEF q
  <2>5. q \notin {0, L} /\ q + 2 \in (p + 1)..(L + 1) /\ q + 2 \in 1..(L + 1)
    BY <1>1, <2>2, <2>3
  <2>6. f[q + 2] \in Seq(Char) /\ Len(f[q + 2]) \in Nat
    BY <2>5, StoreTypes
  <2>7. Len(f[p]) = (((q + 2) - p) + w) + Len(f[q + 2])
    BY <2>3, <2>5, <2>6, StoreGoesOn
  <2>8. CASE IsDigit(q + 1)
    <3>1. q = first
      BY <2>1, <2>2, <2>8
    <3>2. MemChr(first, L + 1) = first
      <4>1. first \in Nat \ {0}
        BY <1>2
      <4>2. \/ /\ MemChr(first, L + 1) = 0
               /\ \A k \in first..((L + 1) - 1) : call.rplc[k] # Backslash
            \/ /\ MemChr(first, L + 1) \in first..((L + 1) - 1)
               /\ \A k \in first..(MemChr(first, L + 1) - 1) : call.rplc[k] # Backslash
        BY <1>1, <4>1, MemChrFinds
      <4>3. call.rplc[first] = Backslash
        BY <1>2 DEF IsRef
      <4> QED BY <1>1, <1>2, <4>2, <4>3
    <3>3. first \in 1..(L + 1) /\ first \notin {0, L}
      BY <1>1, <1>2
    <3>4. Len(f[first]) = (((first + 2) - first) + w) + Len(f[first + 2])
      BY <2>6, <3>1, <3>2, <3>3, StoreGoesOn
    <3> DEFINE t == Len(f[first + 2])
    <3>5. t \in Nat /\ Len(f[p]) = (((first + 2) - p) + w) + t
      BY <2>6, <2>7, <3>1
    <3> HIDE DEF t, w
    <3>6. (((first + 2) - p) + w) + t = ((((first + 2) - first) + w) + t) + (first - p)
      BY <1>1, <1>2, <2>4, <3>5
    <3> QED BY <3>4, <3>5, <3>6 DEF t
  <2>9. CASE ~IsDigit(q + 1)
    <3>1. c[q + 2] = first
      BY <2>1, <2>2, <2>9
    <3>2. Len(f[q + 2]) = Len(f[first]) + (first - (q + 2))
      BY <1>3, <2>5, <3>1
    <3>3. w = 0
      BY <2>9 DEF Referred, Wider
    <3>4. Len(f[first]) \in Nat
      <4>1. first \in 1..(L + 1)
        BY <1>1, <1>2
      <4>2. f[first] \in Seq(Char)
        BY <4>1, StoreTypes
      <4> QED BY <4>2
    <3> DEFINE t == Len(f[first])
    <3>0. t \in Nat
      BY <3>4
    <3> HIDE DEF t, w
    <3>5. (((q + 2) - p) + 0) + (t + (first - (q + 2))) = t + (first - p)
      BY <1>1, <1>2, <2>3, <3>0
    <3>6. Len(f[p]) = (((q + 2) - p) + 0) + (t + (first - (q + 2)))
      BY <2>7, <3>2, <3>3 DEF t
    <3> QED BY <3>5, <3>6 DEF t
  <2> QED BY <2>8, <2>9
<1> HIDE DEF S
<1>4. \A p \in 1..(L + 1) : p \in S
  BY <1>1, <1>3, Downwards
<1> QED BY <1>4 DEF S, first

(* What is reserved for a replacement with references is what it takes. *)
LEMMA SameLength ==
  ASSUME NEW s, NEW g, Matched(s, g), References, refs # <<>>
  PROVE  Cpy(s, g) \in Seq(Char) /\ StrLen(s, g) = Len(Cpy(s, g))
<1> DEFINE L == rplc_len
<1>1. L \in Nat /\ CallOK
  BY Lengths DEF Matched
<1>2. PICK f : Stores(f, s, g) /\ Cpy(s, g) = f[1]
  BY CpyUnfolds DEF Matched
<1>3. PICK h : Measures(h, s, g) /\ StrLen(s, g) = L + h[refs[1]]
  BY StrLenUnfolds DEF Matched
<1>4. RefFirst \notin {0, Wild} /\ refs[1] = RefFirst /\ refs[2] = RefLast(RefFirst)
  BY DEF References
<1>5. RefFirst \in 1..(L - 1) /\ IsRef(RefFirst)
  BY <1>1, <1>4, FirstIsRef
<1>6. refs[2] \in (RefFirst + 2)..(L + 1)
  BY <1>1, <1>4, <1>5, LastCovers
<1>7. PICK c : Scans(c) /\ RefFirst = c[1]
  BY <1>1, <1>4, ScanUnfolds DEF RefFirst
<1>8. 1 \in 1..(L + 1) /\ RefFirst \in 1..(L + 1) /\ RefFirst <= refs[2]
  BY <1>1, <1>5, <1>6
<1>9. Len(f[1]) = Len(f[RefFirst]) + (RefFirst - 1)
  BY <1>2, <1>4, <1>7, <1>8, HeadLiteral
<1>10. h[RefFirst] \in Int /\ Len(f[RefFirst]) = ((L + 1) - RefFirst) + h[RefFirst]
  BY <1>2, <1>3, <1>8, LoopsAgree
<1>11. f[1] \in Seq(Char)
  BY <1>2, <1>8, StoreTypes
<1>12. (((L + 1) - RefFirst) + h[RefFirst]) + (RefFirst - 1) = L + h[RefFirst]
  BY <1>1, <1>5, <1>10
<1> QED BY <1>2, <1>3, <1>4, <1>9, <1>10, <1>11, <1>12

(***************************************************************************)
(* Matches, and what a search is told.                                      *)
(***************************************************************************)

LEMMA SpanBounds ==
  ASSUME NEW from \in Nat, NEW to \in Nat, NEW s \in Spans(from, to)
  PROVE  /\ s[1] \in Nat /\ s[2] \in Nat /\ s = <<s[1], s[2]>>
         /\ from <= s[1] /\ s[1] <= s[2] /\ s[2] <= to
<1>1. CASE call.pattern = "nullable"
  <2>1. PICK eo \in from..to : s = <<from, eo>>
    BY <1>1 DEF Spans
  <2> QED BY <2>1
<1>2. CASE call.pattern # "nullable"
  <2>1. s \in (from..to) \X (from..to) /\ s[1] <= s[2]
    <3>1. CASE call.pattern = "solid"
      <4>1. s \in (from..to) \X (from..to) /\ s[1] < s[2]
        BY <3>1 DEF Spans
      <4> QED BY <4>1
    <3>2. CASE call.pattern # "solid"
      BY <1>2, <3>2 DEF Spans
    <3> QED BY <3>1, <3>2
  <2> QED BY <2>1
<1> QED BY <1>1, <1>2

LEMMA MatchIsPart ==
  ASSUME end \in Nat, NEW from \in Nat, NEW s \in Spans(from, end), NEW g \in Groups(s)
  PROVE  /\ Part(s) /\ Part(g)
         /\ s \in {<<>>} \cup (Nat \X Nat) /\ g \in {<<>>} \cup (Nat \X Nat)
<1>1. /\ s[1] \in Nat /\ s[2] \in Nat /\ s = <<s[1], s[2]>> /\ s[1] <= s[2] /\ s[2] <= end
  BY SpanBounds
<1>2. Part(s) /\ s \in Nat \X Nat
  BY <1>1 DEF Part
<1>3. CASE g = <<>>
  BY <1>2, <1>3 DEF Part
<1>4. CASE g # <<>>
  <2>1. g \in {h \in (s[1]..s[2]) \X (s[1]..s[2]) : h[1] <= h[2]}
    BY <1>4 DEF Groups
  <2>2. g \in (s[1]..s[2]) \X (s[1]..s[2]) /\ g[1] <= g[2]
    BY <2>1
  <2>3. g[1] \in Nat /\ g[2] \in Nat /\ g[2] <= end /\ g = <<g[1], g[2]>>
    BY <1>1, <2>2
  <2> QED BY <1>2, <2>2, <2>3 DEF Part
<1> QED BY <1>3, <1>4

(* The byte before the search is the one of the string the call was given. *)
Before(from) == from > 0 => data[from - 1] = call.text[from]

LEMMA AskedTold ==
  ASSUME CallOK, Typed, Told, call' = call, NEW from \in Nat, Before(from),
         NEW answer \in {"match", "nomatch", "error"},
         NEW s \in {<<>>} \cup (Nat \X Nat), NEW g \in {<<>>} \cup (Nat \X Nat),
         Asked(from, answer, s, g)
  PROVE  searches' \in Seq(Answers) /\ Told'
<1> DEFINE a == [from |-> from, notbol |-> NotBol(from),
                 answer |-> answer, span |-> s, group |-> g]
<1>1. searches' = Append(searches, a) /\ searches \in Seq(Answers)
  BY DEF Asked, Typed
<1>2. NotBol(from) = (from > 0 /\ (call.cf_newline => call.text[from] \notin call.newlines))
  BY DEF NotBol, Before, CallOK
<1>3. NotBol(from) \in BOOLEAN
  BY DEF NotBol
<1>4. a \in Answers /\ a.from = from /\ a.notbol = NotBol(from)
  BY <1>3 DEF Answers
<1> HIDE DEF a
<1>5. /\ searches' \in Seq(Answers) /\ DOMAIN searches' = 1..(Len(searches) + 1)
      /\ DOMAIN searches = 1..Len(searches) /\ Len(searches) \in Nat
      /\ \A k \in 1..Len(searches) : searches'[k] = searches[k]
      /\ searches'[Len(searches) + 1] = a
  BY <1>1, <1>4
<1> DEFINE Right(r) == r.notbol = (r.from > 0
                         /\ (call.cf_newline => call.text[r.from] \notin call.newlines))
<1>6. \A k \in DOMAIN searches : Right(searches[k])
  BY DEF Told
<1>7. Right(a)
  BY <1>2, <1>4
<1> HIDE DEF Right
<1>8. \A k \in DOMAIN searches' : Right(searches'[k])
  <2> TAKE k \in DOMAIN searches'
  <2>1. CASE k = Len(searches) + 1
    BY <1>5, <1>7, <2>1
  <2>2. CASE k # Len(searches) + 1
    <3>1. k \in 1..Len(searches)
      BY <1>5, <2>2
    <3> QED BY <1>5, <1>6, <3>1
  <2> QED BY <2>1, <2>2
<1>9. Told'
  BY <1>8 DEF Told, Right
<1> QED BY <1>5, <1>9

(* A search, whatever comes of it. *)
Searched(from) ==
  \/ NotFound(from)
  \/ ExecFails(from)
  \/ \E s \in Spans(from, end) : \E g \in Groups(s) : Found(from, s, g)

LEMMA SearchedTold ==
  ASSUME CallOK, Typed, Told, end \in Nat, call' = call, NEW from \in Nat, Before(from),
         Searched(from)
  PROVE  searches' \in Seq(Answers) /\ Told'
<1>1. CASE NotFound(from)
  BY <1>1, AskedTold DEF NotFound
<1>2. CASE ExecFails(from)
  BY <1>2, AskedTold DEF ExecFails
<1>3. CASE \E s \in Spans(from, end) : \E g \in Groups(s) : Found(from, s, g)
  <2>1. PICK s \in Spans(from, end) : \E g \in Groups(s) : Found(from, s, g)
    BY <1>3
  <2>2. PICK g \in Groups(s) : Found(from, s, g)
    BY <2>1
  <2>3. Asked(from, "match", s, g)
    BY <2>2 DEF Found
  <2>4. s \in {<<>>} \cup (Nat \X Nat) /\ g \in {<<>>} \cup (Nat \X Nat)
    BY <2>1, <2>2, MatchIsPart
  <2> QED BY <2>3, <2>4, AskedTold
<1> QED BY <1>1, <1>2, <1>3 DEF Searched

(***************************************************************************)
(* How a call ends.                                                         *)
(***************************************************************************)

LEMMA Basics ==
  ASSUME IInv
  PROVE  /\ CallOK /\ Typed /\ Told /\ end \in Nat /\ end = Len(call.text) /\ end < alloc
         /\ alloc \in Nat /\ size \in Nat /\ data \in Block(alloc) /\ capacity = alloc
         /\ i.dst \in Nat /\ i.src \in Nat /\ i.src_e \in Nat /\ dst_s \in Nat
         /\ rplc_len \in Nat /\ call.rplc \in Seq(Char) /\ rplc_len = Len(call.rplc)
         /\ call.text \in Seq(Char) /\ call.start \in Nat
<1>1. Len(call.text) \in Nat
  BY Lengths DEF IInv
<1> QED BY <1>1, Lengths DEF IInv, CallOK, Typed, Kept, rplc_len

LEMMA BufferSound == ASSUME IInv PROVE Sound(Buffer) /\ Buffer.alloc = alloc
BY Basics DEF Sound, Buffer

LEMMA Ends ==
  ASSUME IInv, call' = call, end' = end, i' = i, dst_s' = dst_s, pc' = "done",
         alloc' \in Nat, capacity' = alloc', data' \in Block(alloc'), size' \in Nat,
         end < alloc', searches' \in Seq(Answers), Told', overrun' = FALSE, FailureLeaves'
  PROVE  IInv'
<1>1. CallOK' /\ Typed' /\ Kept'
  BY DEF IInv, CallOK, Typed, Kept
<1>2. AtEntry' /\ Compacting' /\ Building' /\ Within'
  BY DEF AtEntry, Compacting, Building, Within
<1> QED BY <1>1, <1>2 DEF IInv

(* A call that succeeds owes nothing to FailureLeaves. *)
LEMMA EndsWith ==
  ASSUME IInv, pc # "done", call' = call, end' = end, i' = i, dst_s' = dst_s,
         searches' \in Seq(Answers), Told',
         NEW b, Sound(b), b.alloc >= alloc, NEW d \in Block(b.alloc), NEW sz \in Nat,
         Works(b, d, sz), NEW extent \in Nat, extent <= b.alloc, Touch(b, extent),
         NEW r \in Nat, Done(r)
  PROVE  IInv'
<1>1. ~overrun /\ end < alloc /\ end \in Nat /\ alloc \in Nat
  BY Basics DEF IInv, Within
<1>2. b.alloc \in Nat /\ b.cap = b.alloc
  BY DEF Sound
<1>3. data' = d /\ alloc' = b.alloc /\ capacity' = b.alloc /\ size' = sz
  BY <1>2 DEF Works
<1>4. overrun' = FALSE
  <2>1. ~(extent > b.alloc)
    BY <1>2
  <2>2. overrun' = (overrun \/ extent > b.alloc)
    BY DEF Touch
  <2> QED BY <1>1, <2>1, <2>2
<1>5. pc' = "done" /\ ret' = r
  BY DEF Done
<1>6. FailureLeaves'
  <2>1. r \notin {ExecError, ESpace}
    BY DEF ExecError, ESpace
  <2> QED BY <1>5, <2>1 DEF FailureLeaves
<1>7. end < alloc'
  BY <1>1, <1>2, <1>3
<1> QED BY <1>2, <1>3, <1>4, <1>5, <1>6, <1>7, Ends

(* A call that gives up leaves the string in the state it is in. *)
LEMMA EndsUnchanged ==
  ASSUME IInv, pc # "done", call' = call, end' = end, i' = i, dst_s' = dst_s,
         searches' \in Seq(Answers), Told', NEW r, Unchanged(r)
  PROVE  IInv'
<1>1. /\ ~overrun /\ size = end /\ data[end] = NUL
  BY DEF IInv, Within, Kept
<1>2. /\ data' = data /\ alloc' = alloc /\ size' = size /\ capacity' = capacity
      /\ overrun' = overrun /\ pc' = "done" /\ ret' = r
  BY DEF Unchanged, Done, string
<1>3. ASSUME NEW k \in 0..(end - 1), data[k] # call.text[k + 1]
      PROVE  Removing /\ i.dst < i.src /\ k < i.src
  <2>1. ~Intact(0)
    BY <1>3 DEF Intact
  <2>2. Compacting /\ pc = "rmn"
    BY <2>1 DEF IInv, AtEntry, Building, Typed
  <2>3. Removing /\ i.dst <= i.src /\ Intact(i.dst) /\ i.dst # i.src
    BY <2>1, <2>2 DEF Compacting
  <2>4. ~(k \in i.dst..(end - 1))
    BY <1>3, <2>3 DEF Intact
  <2>5. i.dst \in Nat /\ i.src \in Nat /\ end \in Nat
    BY Basics
  <2> QED BY <2>3, <2>4, <2>5
<1>4. FailureLeaves'
  <2>1. end = Len(call.text) /\ end < alloc
    BY Basics
  <2>2. \A k \in 0..(end - 1) :
          data'[k] # call'.text[k + 1] => Removing' /\ i'.dst < i'.src /\ k < i'.src
    BY <1>2, <1>3 DEF Removing, rplc_len
  <2> QED BY <1>1, <1>2, <2>1, <2>2 DEF FailureLeaves
<1>5. alloc' \in Nat /\ capacity' = alloc' /\ data' \in Block(alloc') /\ size' \in Nat /\ end < alloc'
  BY <1>2, Basics
<1>6. overrun' = FALSE
  BY <1>1, <1>2 DEF IInv, Typed
<1> QED BY <1>2, <1>4, <1>5, <1>6, Ends

(***************************************************************************)
(* One match.                                                               *)
(***************************************************************************)

LEMMA AtStart ==
  ASSUME IInv, pc = "entry", ~TooFar
  PROVE  /\ call.start \in Nat /\ call.start <= end /\ Before(call.start)
         /\ Intact(0) /\ size = end /\ data[end] = NUL
         /\ i.dst = call.start /\ i.src = call.start /\ i.src_e = call.start
<1>1. /\ Intact(0) /\ size = end /\ data[end] = NUL
      /\ i.dst = call.start /\ i.src = call.start /\ i.src_e = call.start
  BY DEF IInv, AtEntry, Kept
<1>2. call.start \in Nat /\ end \in Nat
  BY Basics
<1>3. call.start <= end
  BY <1>1, <1>2 DEF TooFar
<1>4. Before(call.start)
  <2> SUFFICES ASSUME call.start > 0 PROVE data[call.start - 1] = call.text[call.start]
    BY DEF Before
  <2>1. call.start - 1 \in 0..(end - 1) /\ (call.start - 1) + 1 = call.start
    BY <1>2, <1>3
  <2> QED BY <1>1, <2>1 DEF Intact
<1> QED BY <1>1, <1>2, <1>3, <1>4

LEMMA NothingKeeps == ASSUME IInv, Nothing PROVE IInv'
<1>1. /\ pc = "entry" /\ Unchanged(0) /\ call' = call /\ searches' = searches
      /\ end' = end /\ i' = i /\ dst_s' = dst_s
  BY DEF Nothing, loop
<1>2. searches' \in Seq(Answers) /\ Told'
  BY <1>1 DEF IInv, Typed, Told
<1> QED BY <1>1, <1>2, EndsUnchanged

(* A search that finds nothing, or fails, ends a call for one match. *)
LEMMA NoMatchKeeps ==
  ASSUME IInv, Called, UNCHANGED <<call, loop>>, NEW r, Unchanged(r),
         Searched(call.start)
  PROVE  IInv'
<1>1. pc = "entry" /\ ~TooFar
  BY DEF Called
<1>2. /\ call' = call /\ end' = end /\ i' = i /\ dst_s' = dst_s
  BY DEF loop
<1>3. searches' \in Seq(Answers) /\ Told'
  BY <1>1, <1>2, AtStart, Basics, SearchedTold
<1> QED BY <1>1, <1>2, <1>3, EndsUnchanged

LEMMA FoundIsSearched ==
  ASSUME NEW from \in Nat, end \in Nat, NEW s \in Spans(from, end), NEW g \in Groups(s),
         Found(from, s, g)
  PROVE  Searched(from)
BY DEF Searched

LEMMA NoGroup == ASSUME NEW s PROVE <<>> \in Groups(s)
BY DEF Groups

LEMMA RmOneKeeps == ASSUME IInv, RmOne PROVE IInv'
<1>1. Called /\ pc = "entry" /\ ~TooFar /\ UNCHANGED <<call, loop>>
  BY DEF RmOne, Called
<1>2. call' = call /\ end' = end /\ i' = i /\ dst_s' = dst_s
  BY <1>1 DEF loop
<1>3. call.start \in Nat /\ end \in Nat /\ size = end /\ Before(call.start)
  BY <1>1, AtStart, Basics
<1>4. ASSUME NEW s \in Spans(call.start, end), Found(call.start, s, <<>>),
             Works(Buffer, StrMove(data, s[1], s[2], size - s[2]), s[1] + (size - s[2])),
             Touch(Buffer, s[1] + (size - s[2]) + 1), Done(1)
      PROVE  IInv'
  <2> DEFINE rest == size - s[2]
             d == StrMove(data, s[1], s[2], rest)
  <2>1. s[1] \in Nat /\ s[2] \in Nat /\ s[1] <= s[2] /\ s[2] <= end
    BY <1>3, SpanBounds
  <2>2. /\ rest \in Nat /\ s[1] + rest \in Nat /\ s[1] + rest + 1 \in Nat
        /\ s[1] + rest + 1 <= alloc
    <3>1. \A a, b, z, m \in Nat : a <= b /\ b <= z /\ z < m =>
            /\ z - b \in Nat /\ a + (z - b) \in Nat /\ a + (z - b) + 1 \in Nat
            /\ a + (z - b) + 1 <= m
      OBVIOUS
    <3>2. size \in Nat /\ alloc \in Nat /\ end < alloc
      BY Basics
    <3> QED BY <1>3, <2>1, <3>1, <3>2
  <2>3. d \in Block(alloc)
    BY <2>1, Basics, StrMoveType
  <2>4. searches' \in Seq(Answers) /\ Told'
    BY <1>2, <1>3, <1>4, Basics, NoGroup, FoundIsSearched, SearchedTold
  <2>5. Works(Buffer, d, s[1] + rest) /\ Touch(Buffer, s[1] + rest + 1)
    BY <1>4
  <2> HIDE DEF d, rest
  <2>6. Sound(Buffer) /\ Buffer.alloc = alloc /\ alloc >= alloc /\ alloc \in Nat
    BY BufferSound, Basics
  <2> QED BY <1>1, <1>2, <1>4, <2>2, <2>3, <2>4, <2>5, <2>6, EndsWith
<1>5. ASSUME NotFound(call.start), Unchanged(0) PROVE IInv'
  BY <1>1, <1>5, NoMatchKeeps DEF Searched
<1>6. ASSUME ExecFails(call.start), Unchanged(ExecError) PROVE IInv'
  BY <1>1, <1>6, NoMatchKeeps DEF Searched
<1> QED BY <1>4, <1>5, <1>6 DEF RmOne

LEMMA RplcAtKeeps ==
  ASSUME IInv, Called, UNCHANGED <<call, loop>>,
         NEW s \in Spans(call.start, end), Found(call.start, s, <<>>), RplcAt(s)
  PROVE  IInv'
<1> DEFINE need == size + rplc_len - (s[2] - s[1]) + 1
           rest == size - s[2]
           same == rplc_len = s[2] - s[1]
           Moved(b) == IF same THEN b.data ELSE StrMove(b.data, s[1] + rplc_len, s[2], rest)
           extent == IF same THEN s[1] + rplc_len ELSE need
<1>1. /\ pc = "entry" /\ ~TooFar /\ call' = call /\ end' = end /\ i' = i /\ dst_s' = dst_s
      /\ pc # "done"
  BY DEF Called, loop
<1>2. call.start \in Nat /\ end \in Nat /\ size = end /\ Before(call.start) /\ end < alloc
  BY <1>1, AtStart, Basics
<1>3. s[1] \in Nat /\ s[2] \in Nat /\ s[1] <= s[2] /\ s[2] <= end
  BY <1>2, SpanBounds
<1>4. rplc_len \in Nat /\ alloc \in Nat /\ call.rplc \in Seq(Char)
  BY Basics
<1>5. /\ need \in Nat /\ rest \in Nat /\ need - 1 \in Nat /\ extent \in Nat
      /\ s[1] + rplc_len \in Nat /\ extent <= need
  <2>1. \A a, b, z, r \in Nat : a <= b /\ b <= z =>
          /\ z + r - (b - a) + 1 \in Nat /\ z - b \in Nat /\ z + r - (b - a) + 1 - 1 \in Nat
          /\ a + r \in Nat /\ a + r <= z + r - (b - a) + 1
    OBVIOUS
  <2>2. size \in Nat
    BY Basics
  <2>3. /\ need \in Nat /\ rest \in Nat /\ need - 1 \in Nat
        /\ s[1] + rplc_len \in Nat /\ s[1] + rplc_len <= need
    BY <1>2, <1>3, <1>4, <2>1, <2>2, SMTT(30)
  <2> HIDE DEF need
  <2> QED BY <2>3
<1>6. searches' \in Seq(Answers) /\ Told'
  BY <1>1, <1>2, Basics, NoGroup, FoundIsSearched, SearchedTold
<1>7. ASSUME NEW b \in Reserved(Buffer, need),
             Works(b, Copy(Moved(b), s[1], call.rplc), need - 1),
             Touch(b, extent), Done(1)
      PROVE  IInv'
  <2>1. Sound(b) /\ b.alloc >= need /\ b.alloc >= alloc
    BY <1>5, BufferSound, ReserveSound
  <2>2. b.alloc \in Nat /\ b.data \in Block(b.alloc)
    BY <2>1 DEF Sound
  <2>3. Moved(b) \in Block(b.alloc)
    BY <1>3, <1>5, <2>2, StrMoveType
  <2> DEFINE d == Copy(Moved(b), s[1], call.rplc)
  <2> HIDE DEF Moved
  <2>4. d \in Block(b.alloc)
    BY <1>3, <1>4, <2>2, <2>3, CopyType
  <2>5. Works(b, d, need - 1)
    BY <1>7
  <2> HIDE DEF d, need, extent
  <2>6. extent <= b.alloc
    BY <1>5, <2>1, <2>2
  <2> QED BY <1>1, <1>5, <1>6, <1>7, <2>1, <2>4, <2>5, <2>6, EndsWith
<1>8. ASSUME Unchanged(ESpace) PROVE IInv'
  BY <1>1, <1>6, <1>8, EndsUnchanged
<1> QED BY <1>7, <1>8 DEF RplcAt

LEMMA RplcOneKeeps == ASSUME IInv, RplcOne PROVE IInv'
<1>1. Called /\ UNCHANGED <<call, loop>>
  BY DEF RplcOne
<1>2. ASSUME NEW s \in Spans(call.start, end), Found(call.start, s, <<>>), RplcAt(s)
      PROVE  IInv'
  BY <1>1, <1>2, RplcAtKeeps
<1>3. ASSUME NotFound(call.start), Unchanged(0) PROVE IInv'
  BY <1>1, <1>3, NoMatchKeeps DEF Searched
<1>4. ASSUME ExecFails(call.start), Unchanged(ExecError) PROVE IInv'
  BY <1>1, <1>4, NoMatchKeeps DEF Searched
<1> QED BY <1>2, <1>3, <1>4 DEF RplcOne

(***************************************************************************)
(* The loop that removes.                                                   *)
(***************************************************************************)

LEMMA ChangedType == ASSUME IInv PROVE Changed \in Nat
<1>1. searches \in Seq(Answers)
  BY DEF IInv, Typed
<1>2. DOMAIN searches = 1..Len(searches) /\ Len(searches) \in Nat
  BY <1>1
<1>3. IsFiniteSet(1..Len(searches))
  BY <1>2, FS_Interval
<1>4. IsFiniteSet({k \in DOMAIN searches : searches[k].answer = "match"})
  BY <1>2, <1>3, FS_Subset
<1> QED BY <1>4, FS_CardinalityType DEF Changed

LEMMA AfterMatchMeans ==
  ASSUME NEW b, NEW d, NEW p, NEW s, AfterMatch(b, d, p, s)
  PROVE  \E k \in {0, 1} :
           /\ k = 1 => s[1] = s[2] /\ s[2] < end
           /\ i' = [dst |-> p + k, src |-> s[2] + k, src_e |-> s[2] + k]
           /\ Works(b, IF k = 1 THEN Move(d, p, s[2], 1) ELSE d, size)
<1> DEFINE step == s[1] = s[2] /\ s[2] < end
<1>1. CASE step
  <2>1. /\ i' = [dst |-> p + 1, src |-> s[2] + 1, src_e |-> s[2] + 1]
        /\ Works(b, Move(d, p, s[2], 1), size)
    BY <1>1 DEF AfterMatch
  <2> QED BY <1>1, <2>1
<1>2. CASE ~step
  <2>1. /\ i' = [dst |-> p + 0, src |-> s[2] + 0, src_e |-> s[2] + 0]
        /\ Works(b, d, size)
    BY <1>2 DEF AfterMatch
  <2> QED BY <2>1
<1> QED BY <1>1, <1>2

LEMMA RmnStartKeeps == ASSUME IInv, RmnStart PROVE IInv'
<1>1. /\ pc = "entry" /\ ~TooFar /\ Removing /\ pc' = "rmn" /\ call' = call
      /\ UNCHANGED <<data, alloc, size, capacity>> /\ i' = i /\ dst_s' = dst_s /\ end' = end
      /\ searches' = searches /\ ret' = ret /\ overrun' = overrun
  BY DEF RmnStart, Called, string, loop
<1>2. /\ call.start \in Nat /\ call.start <= end /\ Intact(0)
      /\ i.dst = call.start /\ i.src = call.start /\ i.src_e = call.start
  BY <1>1, AtStart
<1>3. Intact(call.start)
  BY <1>2 DEF Intact
<1>4. CallOK' /\ Typed' /\ Kept' /\ Told'
  BY <1>1 DEF IInv, CallOK, Typed, Kept, Told
<1>5. Compacting'
  BY <1>1, <1>2, <1>3 DEF Compacting, Intact, Removing, rplc_len
<1>6. ~overrun
  BY <1>1 DEF IInv, Within
<1> QED BY <1>1, <1>4, <1>5, <1>6 DEF IInv, AtEntry, Building, Within, FailureLeaves

LEMMA InRmn ==
  ASSUME IInv, pc = "rmn"
  PROVE  /\ Removing /\ i.dst <= i.src /\ i.src_e = i.src /\ i.src <= end
         /\ Intact(i.dst) /\ (i.dst = i.src => Intact(0))
         /\ size = end /\ data[end] = NUL /\ overrun = FALSE /\ Before(i.src_e)
<1>1. /\ Removing /\ i.dst <= i.src /\ i.src_e = i.src /\ i.src <= end
      /\ Intact(i.dst) /\ (i.dst = i.src => Intact(0))
      /\ size = end /\ data[end] = NUL /\ overrun = FALSE
  BY DEF IInv, Compacting, Kept, Within, Typed
<1>2. i.dst \in Nat /\ i.src \in Nat /\ end \in Nat
  BY Basics
<1>3. ASSUME i.src > 0 PROVE data[i.src - 1] = call.text[i.src]
  <2>1. (i.src - 1) + 1 = i.src /\ i.src - 1 \in 0..(end - 1)
    BY <1>1, <1>2, <1>3
  <2>2. CASE i.dst = i.src
    BY <1>1, <2>1, <2>2 DEF Intact
  <2>3. CASE i.dst # i.src
    <3>1. i.src - 1 \in i.dst..(end - 1)
      BY <1>1, <1>2, <1>3, <2>3
    <3> QED BY <1>1, <2>1, <3>1 DEF Intact
  <2> QED BY <2>2, <2>3
<1> QED BY <1>1, <1>3 DEF Before

LEMMA MoveBytes ==
  ASSUME NEW a \in Nat, NEW m \in Block(a), NEW t \in Nat, NEW f \in Nat, NEW len \in Nat,
         f + len <= a
  PROVE  \A j \in 0..(a - 1) :
           Move(m, t, f, len)[j] = IF t <= j /\ j < t + len THEN m[j - t + f] ELSE m[j]
BY MoveByte

(* len bytes are moved down, and one more from p when k is 1. *)
Compacted(m, t, f, len, p, k) ==
  IF k = 1 THEN Move(Move(m, t, f, len), t + len, p, 1) ELSE Move(m, t, f, len)

Compacts(a, m, t, f, len, p, k) ==
  /\ a \in Nat /\ m \in Block(a) /\ t \in Nat /\ f \in Nat /\ len \in Nat /\ p \in Nat
  /\ k \in {0, 1} /\ t <= f /\ f + len <= p /\ p + k <= a

(* Nothing is changed behind what was written, and nothing at all when the  *)
(* bytes were in their places.                                              *)
Agrees(a, m, t, f, len, p, k, w) ==
  /\ w \in Block(a)
  /\ \A j \in (t + len + k)..(a - 1) : w[j] = m[j]
  /\ t + len = p => t = f /\ \A j \in 0..(a - 1) : w[j] = m[j]

LEMMA CompactedBytes ==
  ASSUME NEW a, NEW m, NEW t, NEW f, NEW len, NEW p, NEW k, Compacts(a, m, t, f, len, p, k)
  PROVE  Agrees(a, m, t, f, len, p, k, Compacted(m, t, f, len, p, k))
<1>0. /\ a \in Nat /\ m \in Block(a) /\ t \in Nat /\ f \in Nat /\ len \in Nat /\ p \in Nat
      /\ k \in {0, 1} /\ t <= f /\ f + len <= p /\ p + k <= a
  BY DEF Compacts
<1> DEFINE d == Move(m, t, f, len)
           e == Move(d, t + len, p, 1)
           w == Compacted(m, t, f, len, p, k)
<1>1. f + len <= a /\ t + len \in Nat
  BY <1>0
<1>2. \A j \in 0..(a - 1) : d[j] = IF t <= j /\ j < t + len THEN m[j - t + f] ELSE m[j]
  BY <1>0, <1>1, MoveBytes, SMTT(30)
<1>3. d \in Block(a)
  BY <1>0, MoveType
<1> HIDE DEF d
<1>4. ASSUME k = 1
      PROVE  \A j \in 0..(a - 1) :
               e[j] = IF t + len <= j /\ j < t + len + 1 THEN d[j - (t + len) + p] ELSE d[j]
  <2>1. p + 1 <= a /\ 1 \in Nat
    BY <1>0, <1>4
  <2> QED BY <1>0, <1>1, <1>3, <2>1, MoveBytes
<1>5. e \in Block(a)
  BY <1>0, <1>1, <1>3, MoveType
<1> HIDE DEF e
<1>6. w = IF k = 1 THEN e ELSE d
  BY DEF Compacted, d, e
<1> HIDE DEF w
<1>7. w \in Block(a)
  BY <1>0, <1>3, <1>5, <1>6
<1>8. ASSUME NEW j \in (t + len + k)..(a - 1) PROVE w[j] = m[j]
  <2>1. j \in 0..(a - 1) /\ ~(j < t + len) /\ (k = 1 => ~(j < t + len + 1))
    BY <1>0
  <2>2. d[j] = m[j]
    BY <1>2, <2>1
  <2>3. k = 1 => e[j] = d[j]
    BY <1>4, <2>1
  <2> QED BY <1>0, <1>6, <2>2, <2>3
<1>9. ASSUME t + len = p PROVE t = f /\ \A j \in 0..(a - 1) : w[j] = m[j]
  <2>1. t = f
    BY <1>0, <1>9
  <2>2. ASSUME NEW j \in 0..(a - 1) PROVE w[j] = m[j]
    <3>1. j - t + f = j /\ j - (t + len) + p = j
      BY <1>0, <1>9, <2>1
    <3>2. d[j] = m[j]
      BY <1>0, <1>2, <3>1
    <3>3. k = 1 => e[j] = d[j]
      BY <1>4, <3>1
    <3> QED BY <1>0, <1>6, <3>2, <3>3
  <2> QED BY <2>1, <2>2
<1> QED BY <1>7, <1>8, <1>9 DEF Agrees, w

LEMMA RmnStepKeeps == ASSUME IInv, RmnStep PROVE IInv'
<1>1. /\ pc = "rmn" /\ call' = call /\ pc' = pc /\ dst_s' = dst_s /\ end' = end /\ ret' = ret
  BY DEF RmnStep
<1>2. /\ Removing /\ i.dst <= i.src /\ i.src_e = i.src /\ i.src <= end
      /\ Intact(i.dst) /\ (i.dst = i.src => Intact(0))
      /\ size = end /\ data[end] = NUL /\ overrun = FALSE /\ Before(i.src_e)
  BY <1>1, InRmn
<1>3. /\ i.dst \in Nat /\ i.src \in Nat /\ i.src_e \in Nat /\ end \in Nat /\ alloc \in Nat
      /\ end < alloc /\ capacity = alloc
  BY Basics
<1>4. PICK s \in Spans(i.src_e, end) :
        /\ Found(i.src_e, s, <<>>)
        /\ AfterMatch(Buffer, Move(data, i.dst, i.src, s[1] - i.src), i.dst + (s[1] - i.src), s)
        /\ Touch(Buffer, i'.dst)
  BY DEF RmnStep
<1>5. s[1] \in Nat /\ s[2] \in Nat /\ i.src <= s[1] /\ s[1] <= s[2] /\ s[2] <= end
  BY <1>2, <1>3, SpanBounds
<1> DEFINE p == i.dst + (s[1] - i.src)
           d == Move(data, i.dst, i.src, s[1] - i.src)
<1>6. PICK k \in {0, 1} :
        /\ k = 1 => s[1] = s[2] /\ s[2] < end
        /\ i' = [dst |-> p + k, src |-> s[2] + k, src_e |-> s[2] + k]
        /\ Works(Buffer, IF k = 1 THEN Move(d, p, s[2], 1) ELSE d, size)
  BY <1>4, AfterMatchMeans
<1> DEFINE w == Compacted(data, i.dst, i.src, s[1] - i.src, s[2], k)
<1>7. s[2] + k <= end /\ s[2] + k \in Nat
  BY <1>3, <1>5, <1>6
<1>8. /\ p \in Nat /\ p <= s[1] /\ w \in Block(alloc)
      /\ \A j \in (p + k)..(alloc - 1) : w[j] = data[j]
      /\ p = s[2] => i.dst = i.src /\ \A j \in 0..(alloc - 1) : w[j] = data[j]
  <2> DEFINE len == s[1] - i.src
  <2>1. /\ len \in Nat /\ i.src + len = s[1] /\ p = i.dst + len /\ p \in Nat /\ p <= s[1]
        /\ s[2] + k <= alloc
    BY <1>2, <1>3, <1>5, <1>7
  <2>2. w = Compacted(data, i.dst, i.src, len, s[2], k)
    OBVIOUS
  <2> HIDE DEF len, w, p
  <2>3. data \in Block(alloc)
    BY Basics
  <2>4. Compacts(alloc, data, i.dst, i.src, len, s[2], k)
    BY <1>2, <1>3, <1>5, <2>1, <2>3 DEF Compacts
  <2>5. Agrees(alloc, data, i.dst, i.src, len, s[2], k, w)
    BY <2>2, <2>4, CompactedBytes
  <2> QED BY <2>1, <2>5 DEF Agrees
<1>9. data' = w /\ alloc' = alloc /\ capacity' = capacity /\ size' = size
  BY <1>6 DEF Works, Buffer, Compacted
<1> HIDE DEF p, d, w
<1>10. i'.dst = p + k /\ i'.src = s[2] + k /\ i'.src_e = s[2] + k
  BY <1>6
<1>11. p + k \in Nat /\ p + k <= s[2] + k /\ i.dst <= p + k
  BY <1>2, <1>3, <1>5, <1>6, <1>8 DEF p
<1>12. searches' \in Seq(Answers) /\ Told'
  BY <1>1, <1>2, <1>3, <1>4, Basics, NoGroup, FoundIsSearched, SearchedTold
<1>13. overrun' = FALSE
  <2>1. ~(i'.dst > alloc)
    BY <1>3, <1>7, <1>10, <1>11
  <2>2. overrun' = (overrun \/ i'.dst > alloc)
    BY <1>4 DEF Touch, Buffer
  <2> QED BY <1>2, <2>1, <2>2
<1>14. Typed'
  <2>1. i' \in [dst : Nat, src : Nat, src_e : Nat]
    BY <1>6, <1>7, <1>11
  <2> QED BY <1>1, <1>8, <1>9, <1>12, <1>13, <2>1 DEF IInv, Typed
<1>15. CallOK'
  BY <1>1 DEF IInv, CallOK
<1>16. w[end] = data[end]
  BY <1>3, <1>7, <1>8, <1>11
<1>17. Kept'
  BY <1>1, <1>2, <1>9, <1>16 DEF IInv, Kept
<1>18. \A j \in (p + k)..(end - 1) : w[j] = call.text[j + 1]
  <2> TAKE j \in (p + k)..(end - 1)
  <2>1. j \in (p + k)..(alloc - 1) /\ j \in i.dst..(end - 1)
    BY <1>3, <1>11
  <2> QED BY <1>2, <1>8, <2>1 DEF Intact
<1>19. ASSUME p + k = s[2] + k, NEW j \in 0..(end - 1) PROVE w[j] = call.text[j + 1]
  <2>1. p = s[2] /\ j \in 0..(alloc - 1)
    BY <1>3, <1>5, <1>6, <1>8, <1>19
  <2> QED BY <1>2, <1>8, <2>1 DEF Intact
<1>20. Compacting'
  <2>1. Removing'
    BY <1>1, <1>2 DEF Removing, rplc_len
  <2>2. Intact(i.dst)'
    BY <1>1, <1>9, <1>10, <1>18 DEF Intact
  <2>3. i'.dst = i'.src => Intact(0)'
    BY <1>1, <1>9, <1>10, <1>19 DEF Intact
  <2> QED BY <1>1, <1>7, <1>10, <1>11, <2>1, <2>2, <2>3 DEF Compacting
<1> QED BY <1>1, <1>12, <1>13, <1>14, <1>15, <1>17, <1>20
        DEF IInv, AtEntry, Building, Within, FailureLeaves

LEMMA RmnEndKeeps == ASSUME IInv, RmnEnd PROVE IInv'
<1> DEFINE rest == end - i.src
           d == StrMove(data, i.dst, i.src, rest)
<1>1. /\ pc = "rmn" /\ pc # "done" /\ call' = call /\ end' = end /\ i' = i /\ dst_s' = dst_s
      /\ Works(Buffer, d, i.dst + rest) /\ Touch(Buffer, i.dst + rest + 1) /\ Done(Changed)
      /\ searches' = searches \/ NotFound(i.src_e)
  BY DEF RmnEnd, loop, Stops
<1>2. i.dst <= i.src /\ i.src <= end /\ Before(i.src_e)
  BY <1>1, InRmn
<1>3. i.dst \in Nat /\ i.src \in Nat /\ end \in Nat /\ alloc \in Nat /\ end < alloc
      /\ i.src_e \in Nat /\ data \in Block(alloc)
  BY Basics
<1>4. /\ rest \in Nat /\ i.dst + rest \in Nat /\ i.dst + rest + 1 \in Nat
      /\ i.dst + rest + 1 <= alloc
  BY <1>2, <1>3
<1>5. d \in Block(alloc)
  BY <1>3, StrMoveType
<1>6. searches' \in Seq(Answers) /\ Told'
  <2>1. CASE searches' = searches
    BY <1>1, <2>1 DEF IInv, Typed, Told
  <2>2. CASE NotFound(i.src_e)
    BY <1>1, <1>2, <1>3, <2>2, Basics, SearchedTold DEF Searched
  <2> QED BY <1>1, <2>1, <2>2
<1>7. Sound(Buffer) /\ Buffer.alloc = alloc /\ alloc >= alloc
  BY <1>3, BufferSound
<1>8. Changed \in Nat
  BY ChangedType
<1> HIDE DEF d, rest
<1> QED BY <1>1, <1>4, <1>5, <1>6, <1>7, <1>8, EndsWith

(* An error of regexec ends either loop. *)
LEMMA LoopFailsKeeps ==
  ASSUME IInv, NEW p \in {"rmn", "rplcn"}, LoopFails(p), Before(i.src_e)
  PROVE  IInv'
<1>1. /\ pc # "done" /\ call' = call /\ end' = end /\ i' = i /\ dst_s' = dst_s
      /\ ExecFails(i.src_e) /\ Unchanged(ExecError)
  BY DEF LoopFails, loop
<1>2. searches' \in Seq(Answers) /\ Told'
  BY <1>1, Basics, SearchedTold DEF Searched
<1> QED BY <1>1, <1>2, EndsUnchanged

LEMMA RmnFailsKeeps == ASSUME IInv, RmnFails PROVE IInv'
<1>1. pc = "rmn" /\ LoopFails("rmn")
  BY DEF RmnFails, LoopFails
<1> QED BY <1>1, InRmn, LoopFailsKeeps

(***************************************************************************)
(* The loop that replaces.                                                  *)
(***************************************************************************)

LEMMA SameReferences ==
  ASSUME call' = call
  PROVE  RefFirst' = RefFirst /\ RefLast(RefFirst)' = RefLast(RefFirst)
BY DEF RefFirst, RefLast, MemChr, IsDigit, rplc_len

LEMMA ScansPastKeeps == ASSUME IInv, RplcnScansPast PROVE IInv'
<1>1. /\ call.backref /\ RefFirst = Wild /\ overrun' = TRUE /\ pc' = "done" /\ ret' = Undefined
      /\ data' = data /\ alloc' = alloc /\ size' = size /\ capacity' = capacity
      /\ call' = call /\ searches' = searches /\ end' = end /\ i' = i /\ dst_s' = dst_s
  BY DEF RplcnScansPast, Done, string, loop
<1>2. CallOK' /\ Typed' /\ Kept' /\ Told'
  BY <1>1 DEF IInv, CallOK, Typed, Kept, Told
<1>3. Within'
  <2>1. RefFirst' = RefFirst
    BY <1>1, SameReferences
  <2> QED BY <1>1, <2>1 DEF Within, Wild, Undefined
<1>4. FailureLeaves'
  <2>1. ret' \notin {ExecError, ESpace}
    BY <1>1 DEF Undefined, ExecError, ESpace
  <2> QED BY <2>1 DEF FailureLeaves, ExecError, ESpace
<1> QED BY <1>1, <1>2, <1>3, <1>4 DEF IInv, AtEntry, Compacting, Building

(* Nothing below the place that is written to changes. *)
LEMMA MoveLeaves ==
  ASSUME NEW a \in Nat, NEW m \in Block(a), NEW t \in Nat, NEW f, NEW len,
         NEW j \in 0..(a - 1), j < t
  PROVE  Move(m, t, f, len)[j] = m[j]
<1>1. DOMAIN m = 0..(a - 1) /\ ~(t <= j)
  BY DEF Block
<1> QED BY <1>1 DEF Move

LEMMA CopyLeaves ==
  ASSUME NEW a \in Nat, NEW m \in Block(a), NEW t \in Nat, NEW x, NEW j \in 0..(a - 1), j < t
  PROVE  Copy(m, t, x)[j] = m[j]
<1>1. DOMAIN m = 0..(a - 1) /\ ~(t <= j)
  BY DEF Block
<1> QED BY <1>1 DEF Copy

(* A larger block still holds the string. *)
LEMMA GrownKeeps ==
  ASSUME IInv, NEW need \in Nat, NEW b \in Reserved(Buffer, need)
  PROVE  /\ b.alloc \in Nat /\ b.cap = b.alloc /\ b.data \in Block(b.alloc)
         /\ b.alloc >= need /\ b.alloc >= alloc
         /\ \A j \in 0..end : b.data[j] = data[j]
<1>1. Sound(Buffer) /\ Buffer.alloc = alloc /\ end < alloc /\ end \in Nat /\ alloc \in Nat
  BY BufferSound, Basics
<1>2. Sound(b) /\ b.alloc >= need /\ b.alloc >= alloc
  BY <1>1, ReserveSound
<1>3. \A j \in 0..end : b.data[j] = data[j]
  <2> TAKE j \in 0..end
  <2>1. j \in 0..(Buffer.alloc - 1)
    BY <1>1
  <2>2. b.data[j] = Buffer.data[j]
    BY <1>1, <2>1, ReservedLeaves
  <2> QED BY <2>2 DEF Buffer
<1> QED BY <1>2, <1>3 DEF Sound

LEMMA RplcnStartKeeps == ASSUME IInv, RplcnStart PROVE IInv'
<1> DEFINE need == 2 * size + 2
<1>1. /\ pc = "entry" /\ ~TooFar /\ pc # "done"
      /\ call' = call /\ end' = end /\ searches' = searches
      /\ call.backref => RefFirst # Wild
  BY DEF RplcnStart, RplcnCalled, Called
<1>2. /\ call.start <= end /\ Intact(0) /\ size = end /\ data[end] = NUL
      /\ i.dst = call.start /\ i.src = call.start /\ i.src_e = call.start
  BY <1>1, AtStart
<1>3. /\ call.start \in Nat /\ end \in Nat /\ alloc \in Nat /\ end < alloc
  BY Basics
<1>4. searches' \in Seq(Answers) /\ Told'
  BY <1>1 DEF IInv, Typed, Told
<1>5. need \in Nat /\ Build \in Nat /\ Build = end + 1 /\ Build + size < need /\ Build + size \in Nat
  BY <1>2, <1>3 DEF Build
<1> HIDE DEF need
<1>6. ASSUME ReserveFails(Buffer, need), Unchanged(ESpace), UNCHANGED <<i, dst_s, refs>>
      PROVE  IInv'
  BY <1>1, <1>4, <1>6, EndsUnchanged
<1>7. ASSUME NEW b \in Reserved(Buffer, need),
             Works(b, Move(b.data, Build, 0, size), size), Touch(b, Build + size),
             i' = [dst |-> Build, src |-> 0, src_e |-> call.start],
             refs' = IF HasRefs THEN <<RefFirst, RefLast(RefFirst)>> ELSE <<>>,
             dst_s' = Build, pc' = "rplcn"
      PROVE  IInv'
  <2>1. /\ b.alloc \in Nat /\ b.cap = b.alloc /\ b.data \in Block(b.alloc)
        /\ b.alloc >= need /\ b.alloc >= alloc
        /\ \A j \in 0..end : b.data[j] = data[j]
    BY <1>5, GrownKeeps
  <2> DEFINE d == Move(b.data, Build, 0, size)
  <2>2. data' = d /\ alloc' = b.alloc /\ capacity' = b.alloc /\ size' = size
    BY <1>7, <2>1 DEF Works
  <2>3. d \in Block(b.alloc)
    BY <1>5, <2>1, MoveType
  <2>4. \A j \in 0..end : d[j] = data[j]
    <3> TAKE j \in 0..end
    <3>1. j \in 0..(b.alloc - 1) /\ j < Build
      BY <1>3, <1>5, <2>1
    <3>2. d[j] = b.data[j]
      BY <1>5, <2>1, <3>1, MoveLeaves
    <3> QED BY <2>1, <3>2
  <2> HIDE DEF d
  <2>5. overrun' = FALSE
    <3>1. ~(Build + size > b.alloc)
      BY <1>5, <2>1
    <3>2. overrun' = (overrun \/ Build + size > b.alloc) /\ overrun = FALSE
      BY <1>1, <1>7 DEF Touch, IInv, Within, Typed
    <3> QED BY <3>1, <3>2
  <2>6. i' \in [dst : Nat, src : Nat, src_e : Nat] /\ i'.dst = Build /\ i'.src = 0
        /\ i'.src_e = call.start
    BY <1>3, <1>5, <1>7
  <2>7. CallOK' /\ Typed'
    BY <1>1, <1>3, <1>4, <1>5, <1>7, <2>1, <2>2, <2>3, <2>5, <2>6, Basics DEF CallOK, Typed
  <2>8. Intact(0)' /\ data'[end] = NUL
    <3>1. \A j \in 0..(end - 1) : d[j] = call.text[j + 1]
      <4> TAKE j \in 0..(end - 1)
      <4>1. j \in 0..end
        BY <1>3
      <4> QED BY <1>2, <2>4, <4>1 DEF Intact
    <3>2. end \in 0..end
      BY <1>3
    <3> QED BY <1>1, <1>2, <2>2, <2>4, <3>1, <3>2 DEF Intact
  <2>9. Kept'
    <3>1. end < alloc'
      BY <1>3, <2>1, <2>2
    <3> QED BY <1>1, <1>2, <2>2, <2>8, <3>1, Basics DEF Kept
  <2>10. References'
    BY <1>1, <1>7, SameReferences DEF References, HasRefs
  <2>11. Building'
    <3>1. i'.dst + (end - i'.src) < alloc'
      BY <1>2, <1>3, <1>5, <2>1, <2>2, <2>6
    <3>2. dst_s' = end + 1 /\ dst_s' <= i'.dst /\ i'.src <= i'.src_e /\ i'.src_e <= end
      BY <1>2, <1>3, <1>5, <1>7, <2>6
    <3> QED BY <1>1, <2>8, <2>10, <3>1, <3>2 DEF Building
  <2> QED BY <1>4, <1>7, <2>5, <2>7, <2>9, <2>11
          DEF IInv, AtEntry, Compacting, Within, FailureLeaves
<1> QED BY <1>6, <1>7 DEF RplcnStart, need

LEMMA InRplcn ==
  ASSUME IInv, pc = "rplcn"
  PROVE  /\ Intact(0) /\ References /\ dst_s = end + 1 /\ dst_s <= i.dst
         /\ i.src <= i.src_e /\ i.src_e <= end /\ i.dst + (end - i.src) < alloc
         /\ size = end /\ data[end] = NUL /\ overrun = FALSE /\ Before(i.src_e)
<1>1. /\ Intact(0) /\ References /\ dst_s = end + 1 /\ dst_s <= i.dst
      /\ i.src <= i.src_e /\ i.src_e <= end /\ i.dst + (end - i.src) < alloc
      /\ size = end /\ data[end] = NUL /\ overrun = FALSE
  BY DEF IInv, Building, Kept, Within, Typed
<1>2. i.src_e \in Nat /\ end \in Nat
  BY Basics
<1>3. ASSUME i.src_e > 0 PROVE data[i.src_e - 1] = call.text[i.src_e]
  <2>1. (i.src_e - 1) + 1 = i.src_e /\ i.src_e - 1 \in 0..(end - 1)
    BY <1>1, <1>2, <1>3
  <2> QED BY <1>1, <2>1 DEF Intact
<1> QED BY <1>1, <1>3 DEF Before

LEMMA RplcnFailsKeeps == ASSUME IInv, RplcnFails PROVE IInv'
<1>1. pc = "rplcn" /\ LoopFails("rplcn")
  BY DEF RplcnFails, LoopFails
<1> QED BY <1>1, InRplcn, LoopFailsKeeps

LEMMA RplcnEndKeeps == ASSUME IInv, RplcnEnd PROVE IInv'
<1> DEFINE rest == end - i.src
           sz == i.dst + rest - dst_s
           d == StrMove(Move(data, i.dst, i.src, rest), 0, dst_s, sz)
<1>1. /\ pc = "rplcn" /\ pc # "done" /\ call' = call /\ end' = end /\ i' = i /\ dst_s' = dst_s
      /\ Works(Buffer, d, sz) /\ Touch(Buffer, i.dst + rest) /\ Done(Changed)
      /\ searches' = searches \/ NotFound(i.src_e)
  BY DEF RplcnEnd, loop, Stops
<1>2. /\ i.src <= i.src_e /\ i.src_e <= end /\ Before(i.src_e) /\ dst_s <= i.dst
      /\ i.dst + (end - i.src) < alloc
  BY <1>1, InRplcn
<1>3. i.dst \in Nat /\ i.src \in Nat /\ end \in Nat /\ alloc \in Nat
      /\ i.src_e \in Nat /\ dst_s \in Nat /\ data \in Block(alloc)
  BY Basics
<1>4. rest \in Nat /\ i.dst + rest \in Nat /\ i.dst + rest <= alloc /\ sz \in Nat
  BY <1>2, <1>3
<1>5. d \in Block(alloc)
  <2>1. Move(data, i.dst, i.src, rest) \in Block(alloc)
    BY <1>3, MoveType
  <2> QED BY <1>3, <2>1, StrMoveType
<1>6. searches' \in Seq(Answers) /\ Told'
  <2>1. CASE searches' = searches
    BY <1>1, <2>1 DEF IInv, Typed, Told
  <2>2. CASE NotFound(i.src_e)
    BY <1>1, <1>2, <1>3, <2>2, Basics, SearchedTold DEF Searched
  <2> QED BY <1>1, <2>1, <2>2
<1>7. Sound(Buffer) /\ Buffer.alloc = alloc /\ alloc >= alloc
  BY <1>3, BufferSound
<1>8. Changed \in Nat
  BY ChangedType
<1> HIDE DEF d, sz, rest
<1> QED BY <1>1, <1>4, <1>5, <1>6, <1>7, <1>8, EndsWith

(* What a match is replaced with, and how much of it is reserved for. *)
LEMMA ReplacedWith ==
  ASSUME IInv, pc = "rplcn", NEW s \in Spans(i.src_e, end), NEW g \in Groups(s),
         NEW rlen, rlen = IF refs # <<>> THEN StrLen(s, g) ELSE rplc_len,
         NEW text, text = IF refs # <<>> THEN Cpy(s, g) ELSE call.rplc
  PROVE  text \in Seq(Char) /\ rlen = Len(text)
<1>1. /\ CallOK /\ end \in Nat /\ end = Len(call.text) /\ call.text \in Seq(Char)
      /\ i.src_e \in Nat /\ call.rplc \in Seq(Char) /\ rplc_len = Len(call.rplc)
  BY Basics
<1>2. CASE refs = <<>>
  BY <1>1, <1>2
<1>3. CASE refs # <<>>
  <2>1. Intact(0) /\ References
    BY InRplcn
  <2>2. \A k \in 0..(end - 1) : data[k] \in Char
    <3> TAKE k \in 0..(end - 1)
    <3>1. k + 1 \in 1..Len(call.text)
      BY <1>1
    <3> QED BY <1>1, <2>1, <3>1 DEF Intact
  <2>3. Part(s) /\ Part(g)
    BY <1>1, MatchIsPart
  <2>4. Matched(s, g)
    BY <1>1, <2>2, <2>3 DEF Matched
  <2>5. Cpy(s, g) \in Seq(Char) /\ StrLen(s, g) = Len(Cpy(s, g))
    BY <1>3, <2>1, <2>4, SameLength
  <2> QED BY <1>3, <2>5
<1> QED BY <1>2, <1>3

(* The cursors after a match leave room for the rest of the text. *)
Room(dst, src, e, s1, s2, k, rlen, a) ==
  /\ dst \in Nat /\ src \in Nat /\ e \in Nat /\ s1 \in Nat /\ s2 \in Nat /\ k \in {0, 1}
  /\ rlen \in Nat /\ a \in Nat /\ src <= s1 /\ s1 <= s2 /\ s2 + k <= e
  /\ a >= dst + (e - src) + 2 + (IF rlen > s2 - s1 THEN rlen - (s2 - s1) ELSE 0)

LEMMA RoomLeft ==
  ASSUME NEW dst, NEW src, NEW e, NEW s1, NEW s2, NEW k, NEW rlen, NEW a,
         Room(dst, src, e, s1, s2, k, rlen, a)
  PROVE  LET at == dst + (s1 - src)
             p == at + rlen
         IN  /\ at \in Nat /\ dst <= at /\ p \in Nat /\ dst <= p /\ p + k \in Nat /\ dst <= p + k
             /\ (p + k) + (e - (s2 + k)) < a /\ p + k <= a
BY DEF Room

LEMMA RplcnGoesOn ==
  ASSUME IInv, pc = "rplcn", pc' = pc, call' = call, dst_s' = dst_s, end' = end, refs' = refs,
         ret' = ret, NEW s \in Spans(i.src_e, end), searches' \in Seq(Answers), Told',
         NEW text \in Seq(Char),
         NEW b \in Reserved(Buffer, new_cap(Len(text), s[2] - s[1])),
         AfterMatch(b, Copy(Move(b.data, i.dst, i.src, s[1] - i.src), i.dst + (s[1] - i.src), text),
                    i.dst + (s[1] - i.src) + Len(text), s),
         Touch(b, i'.dst)
  PROVE  IInv'
<1> DEFINE rlen == Len(text)
           at == i.dst + (s[1] - i.src)
           m == Move(b.data, i.dst, i.src, s[1] - i.src)
           c == Copy(m, at, text)
           p == at + rlen
<1>1. /\ Intact(0) /\ References /\ dst_s = end + 1 /\ dst_s <= i.dst
      /\ i.src <= i.src_e /\ i.src_e <= end /\ i.dst + (end - i.src) < alloc
      /\ size = end /\ data[end] = NUL /\ overrun = FALSE
  BY InRplcn
<1>2. i.dst \in Nat /\ i.src \in Nat /\ i.src_e \in Nat /\ end \in Nat /\ alloc \in Nat /\ end < alloc
  BY Basics
<1>3. s[1] \in Nat /\ s[2] \in Nat /\ i.src <= s[1] /\ s[1] <= s[2] /\ s[2] <= end
  <2>1. s[1] \in Nat /\ s[2] \in Nat /\ i.src_e <= s[1] /\ s[1] <= s[2] /\ s[2] <= end
    BY <1>2, SpanBounds
  <2> QED BY <1>1, <1>2, <2>1
<1>4. PICK k \in {0, 1} :
        /\ k = 1 => s[1] = s[2] /\ s[2] < end
        /\ i' = [dst |-> p + k, src |-> s[2] + k, src_e |-> s[2] + k]
        /\ Works(b, IF k = 1 THEN Move(c, p, s[2], 1) ELSE c, size)
  BY AfterMatchMeans
<1> DEFINE w == IF k = 1 THEN Move(c, p, s[2], 1) ELSE c
<1>5. s[2] + k <= end /\ s[2] + k \in Nat
  BY <1>2, <1>3, <1>4
<1>6. rlen \in Nat /\ new_cap(rlen, s[2] - s[1]) \in Nat
  <2>1. \A x, y \in Nat : x \in Nat /\ y \in Nat /\ (IF x > y THEN x - y ELSE 0) \in Nat
    OBVIOUS
  <2>2. s[2] - s[1] \in Nat /\ end - i.src \in Nat
    BY <1>2, <1>3, SMTT(30)
  <2>3. rlen \in Nat
    OBVIOUS
  <2> HIDE DEF rlen
  <2> DEFINE more == IF rlen > s[2] - s[1] THEN rlen - (s[2] - s[1]) ELSE 0
  <2>4. more \in Nat
    BY <2>1, <2>2, <2>3
  <2>5. new_cap(rlen, s[2] - s[1]) = i.dst + (end - i.src) + 2 + more
    BY DEF new_cap
  <2> HIDE DEF more
  <2>6. \A x, y, z \in Nat : x + y + 2 + z \in Nat
    OBVIOUS
  <2>7. i.dst + (end - i.src) + 2 + more \in Nat
    BY <1>2, <2>2, <2>4, <2>6
  <2> QED BY <2>3, <2>5, <2>7
<1>7. /\ b.alloc \in Nat /\ b.cap = b.alloc /\ b.data \in Block(b.alloc)
      /\ b.alloc >= new_cap(rlen, s[2] - s[1]) /\ b.alloc >= alloc
      /\ \A j \in 0..end : b.data[j] = data[j]
  BY <1>6, GrownKeeps
<1> HIDE DEF rlen
<1>8. b.alloc >= i.dst + (end - i.src) + 2 + (IF rlen > s[2] - s[1] THEN rlen - (s[2] - s[1]) ELSE 0)
  BY <1>7 DEF new_cap
<1>9. /\ at \in Nat /\ i.dst <= at /\ p \in Nat /\ i.dst <= p /\ p + k \in Nat
      /\ i.dst <= p + k /\ (p + k) + (end - (s[2] + k)) < b.alloc /\ p + k <= b.alloc
  <2>1. Room(i.dst, i.src, end, s[1], s[2], k, rlen, b.alloc)
    BY <1>2, <1>3, <1>5, <1>6, <1>7, <1>8 DEF Room
  <2> HIDE DEF rlen
  <2> QED BY <2>1, RoomLeft
<1> HIDE DEF at, p
<1>10. m \in Block(b.alloc) /\ c \in Block(b.alloc) /\ w \in Block(b.alloc)
  <2>1. m \in Block(b.alloc)
    BY <1>2, <1>7, MoveType
  <2> HIDE DEF m
  <2>2. c \in Block(b.alloc)
    BY <1>7, <1>9, <2>1, CopyType
  <2> HIDE DEF c
  <2>3. Move(c, p, s[2], 1) \in Block(b.alloc)
    BY <1>3, <1>7, <1>9, <2>2, MoveType
  <2> QED BY <2>1, <2>2, <2>3
<1>11. \A j \in 0..end : w[j] = data[j]
  <2> TAKE j \in 0..end
  <2>1. j \in 0..(b.alloc - 1) /\ j < i.dst /\ j < at /\ j < p
    BY <1>1, <1>2, <1>7, <1>9, SMTT(30)
  <2>2. m[j] = b.data[j]
    BY <1>2, <1>7, <2>1, MoveLeaves
  <2> HIDE DEF m
  <2>3. c[j] = m[j]
    BY <1>7, <1>9, <1>10, <2>1, CopyLeaves
  <2> HIDE DEF c
  <2>4. Move(c, p, s[2], 1)[j] = c[j]
    <3>1. c \in Block(b.alloc) /\ b.alloc \in Nat /\ p \in Nat
      BY <1>7, <1>9, <1>10
    <3> QED BY <2>1, <3>1, MoveLeaves, SMTT(30)
  <2>5. b.data[j] = data[j]
    BY <1>7
  <2> QED BY <2>2, <2>3, <2>4, <2>5
<1>12. data' = w /\ alloc' = b.alloc /\ capacity' = b.alloc /\ size' = size
  BY <1>4, <1>7 DEF Works
<1> HIDE DEF m, c, w
<1>13. i'.dst = p + k /\ i'.src = s[2] + k /\ i'.src_e = s[2] + k
       /\ i' \in [dst : Nat, src : Nat, src_e : Nat]
  BY <1>4, <1>5, <1>9
<1>14. overrun' = FALSE
  <2>1. ~(i'.dst > b.alloc)
    BY <1>7, <1>9, <1>13
  <2>2. overrun' = (overrun \/ i'.dst > b.alloc)
    BY DEF Touch
  <2> QED BY <1>1, <2>1, <2>2
<1>15. CallOK' /\ Typed'
  BY <1>7, <1>10, <1>12, <1>13, <1>14 DEF IInv, CallOK, Typed
<1>16. Intact(0)' /\ data'[end] = NUL
  <2>1. \A j \in 0..(end - 1) : w[j] = call.text[j + 1]
    <3> TAKE j \in 0..(end - 1)
    <3>1. j \in 0..end
      BY <1>2
    <3> QED BY <1>1, <1>11, <3>1 DEF Intact
  <2>2. end \in 0..end
    BY <1>2
  <2> QED BY <1>1, <1>11, <1>12, <2>1, <2>2 DEF Intact
<1>17. Kept'
  <2>1. end < alloc'
    BY <1>2, <1>7, <1>12
  <2> QED BY <1>1, <1>12, <1>16, <2>1 DEF IInv, Kept
<1>18. References'
  <2>1. RefFirst' = RefFirst /\ RefLast(RefFirst)' = RefLast(RefFirst)
    BY SameReferences
  <2> QED BY <1>1, <2>1 DEF References
<1>19. Building'
  <2>1. i'.dst + (end - i'.src) < alloc'
    BY <1>9, <1>12, <1>13
  <2>2. dst_s' = end + 1 /\ dst_s' <= i'.dst
    BY <1>1, <1>2, <1>9, <1>13, SMTT(30)
  <2>3. i'.src <= i'.src_e /\ i'.src_e <= end
    BY <1>5, <1>13
  <2> QED BY <1>16, <1>18, <2>1, <2>2, <2>3 DEF Building
<1> QED BY <1>14, <1>15, <1>17, <1>19
        DEF IInv, AtEntry, Compacting, Within, FailureLeaves

LEMMA RplcnRefused ==
  ASSUME IInv, pc = "rplcn", call' = call, dst_s' = dst_s, end' = end,
         searches' \in Seq(Answers), Told', size' = i.dst, Done(ESpace),
         UNCHANGED <<data, alloc, capacity, i, overrun>>
  PROVE  IInv'
<1>1. /\ Intact(0) /\ dst_s = end + 1 /\ dst_s <= i.dst
      /\ i.src <= i.src_e /\ i.src_e <= end /\ i.dst + (end - i.src) < alloc
      /\ data[end] = NUL /\ overrun = FALSE
  BY InRplcn
<1>2. /\ i.dst \in Nat /\ i.src \in Nat /\ i.src_e \in Nat /\ end \in Nat /\ alloc \in Nat
      /\ end = Len(call.text) /\ end < alloc /\ data \in Block(alloc) /\ capacity = alloc
  BY Basics
<1>3. i.dst < alloc /\ dst_s > end
  <2>1. \A d, f, e, a \in Nat : f <= e /\ d + (e - f) < a => d < a
    OBVIOUS
  <2>2. i.src <= end
    BY <1>1, <1>2
  <2>3. i.dst < alloc
    BY <1>1, <1>2, <2>1, <2>2
  <2>4. dst_s > end
    BY <1>1, <1>2
  <2> QED BY <2>3, <2>4
<1>4. pc' = "done" /\ ret' = ESpace
  BY DEF Done
<1>5. FailureLeaves'
  <2>1. \A k \in 0..(end - 1) : data'[k] = call'.text[k + 1]
    BY <1>1 DEF Intact
  <2> QED BY <1>1, <1>2, <1>3, <1>4, <2>1 DEF FailureLeaves
<1> QED BY <1>1, <1>2, <1>4, <1>5, Ends

LEMMA RplcnStepKeeps == ASSUME IInv, RplcnStep PROVE IInv'
<1>1. pc = "rplcn" /\ call' = call /\ dst_s' = dst_s /\ end' = end /\ refs' = refs
  BY DEF RplcnStep
<1>2. PICK s \in Spans(i.src_e, end) : \E g \in Groups(s) :
       LET prev_len == s[1] - i.src
           at == i.dst + prev_len
       IN  /\ Found(i.src_e, s, g)
           /\ \E rlen \in {IF refs # <<>> THEN StrLen(s, g) ELSE rplc_len},
                 text \in {IF refs # <<>> THEN Cpy(s, g) ELSE call.rplc} :
                LET need == new_cap(rlen, s[2] - s[1])
                IN  \/ \E b \in Reserved(Buffer, need) :
                         /\ AfterMatch(b, Copy(Move(b.data, i.dst, i.src, prev_len), at, text),
                                       at + rlen, s)
                         /\ Touch(b, IF rlen < Len(text) THEN at + Len(text) ELSE i'.dst)
                         /\ UNCHANGED <<pc, ret>>
                    \/ /\ ReserveFails(Buffer, need)
                       /\ size' = i.dst
                       /\ Done(ESpace)
                       /\ UNCHANGED <<data, alloc, capacity, i, n, prev_zero, overrun>>
  BY DEF RplcnStep
<1> DEFINE at == i.dst + (s[1] - i.src)
<1>3. PICK g \in Groups(s) :
        /\ Found(i.src_e, s, g)
        /\ \E rlen \in {IF refs # <<>> THEN StrLen(s, g) ELSE rplc_len},
              text \in {IF refs # <<>> THEN Cpy(s, g) ELSE call.rplc} :
             \/ \E b \in Reserved(Buffer, new_cap(rlen, s[2] - s[1])) :
                  /\ AfterMatch(b, Copy(Move(b.data, i.dst, i.src, s[1] - i.src), at, text),
                                at + rlen, s)
                  /\ Touch(b, IF rlen < Len(text) THEN at + Len(text) ELSE i'.dst)
                  /\ UNCHANGED <<pc, ret>>
             \/ /\ size' = i.dst
                /\ Done(ESpace)
                /\ UNCHANGED <<data, alloc, capacity, i, n, prev_zero, overrun>>
  BY <1>2
<1>4. PICK rlen \in {IF refs # <<>> THEN StrLen(s, g) ELSE rplc_len},
           text \in {IF refs # <<>> THEN Cpy(s, g) ELSE call.rplc} :
        \/ \E b \in Reserved(Buffer, new_cap(rlen, s[2] - s[1])) :
             /\ AfterMatch(b, Copy(Move(b.data, i.dst, i.src, s[1] - i.src), at, text),
                           at + rlen, s)
             /\ Touch(b, IF rlen < Len(text) THEN at + Len(text) ELSE i'.dst)
             /\ UNCHANGED <<pc, ret>>
        \/ /\ size' = i.dst
           /\ Done(ESpace)
           /\ UNCHANGED <<data, alloc, capacity, i, n, prev_zero, overrun>>
  BY <1>3
<1>5. text \in Seq(Char) /\ rlen = Len(text) /\ ~(rlen < Len(text))
  <2>1. text \in Seq(Char) /\ rlen = Len(text)
    BY <1>1, ReplacedWith
  <2>2. \A x \in Nat : ~(x < x)
    OBVIOUS
  <2>3. Len(text) \in Nat
    BY <2>1
  <2> QED BY <2>1, <2>2, <2>3
<1>6. searches' \in Seq(Answers) /\ Told'
  <2>1. Before(i.src_e)
    BY <1>1, InRplcn
  <2>2. Searched(i.src_e)
    BY <1>3 DEF Searched
  <2> QED BY <1>1, <2>1, <2>2, Basics, SearchedTold
<1>7. ASSUME NEW b \in Reserved(Buffer, new_cap(rlen, s[2] - s[1])),
             AfterMatch(b, Copy(Move(b.data, i.dst, i.src, s[1] - i.src), at, text), at + rlen, s),
             Touch(b, IF rlen < Len(text) THEN at + Len(text) ELSE i'.dst),
             UNCHANGED <<pc, ret>>
      PROVE  IInv'
  <2>1. Touch(b, i'.dst)
    BY <1>5, <1>7
  <2> QED BY <1>1, <1>5, <1>6, <1>7, <2>1, RplcnGoesOn
<1>8. ASSUME size' = i.dst, Done(ESpace),
             UNCHANGED <<data, alloc, capacity, i, n, prev_zero, overrun>>
      PROVE  IInv'
  BY <1>1, <1>6, <1>8, RplcnRefused
<1> QED BY <1>4, <1>7, <1>8

(***************************************************************************)
(* The invariant holds.                                                     *)
(***************************************************************************)

LEMMA TextStored ==
  ASSUME NEW text \in Seq(Char), NEW a \in Nat, Len(text) < a,
         NEW d, d = StrCpy([k \in 0..(a - 1) |-> Junk], 0, text)
  PROVE  /\ d \in Block(a) /\ d[Len(text)] = NUL
         /\ \A k \in 0..(Len(text) - 1) : d[k] = text[k + 1]
<1> DEFINE m == [k \in 0..(a - 1) |-> Junk]
<1>1. m \in Block(a) /\ Len(text) \in Nat /\ 0 \in Nat
  BY DEF Block, Byte
<1> HIDE DEF m
<1>2. StrCpy(m, 0, text) \in Block(a)
  BY <1>1, StrCpyType
<1>3. \A k \in 0..(a - 1) :
        StrCpy(m, 0, text)[k] = IF k = 0 + Len(text) THEN NUL
                                ELSE IF 0 <= k /\ k < 0 + Len(text) THEN text[k - 0 + 1] ELSE m[k]
  BY <1>1, StrCpyByte, SMTT(30)
<1>4. StrCpy(m, 0, text)[Len(text)] = NUL
  BY <1>1, <1>3
<1>5. ASSUME NEW k \in 0..(Len(text) - 1) PROVE StrCpy(m, 0, text)[k] = text[k + 1]
  <2>1. /\ k \in 0..(a - 1) /\ k # 0 + Len(text) /\ 0 <= k /\ k < 0 + Len(text)
        /\ k - 0 + 1 = k + 1
    BY <1>1
  <2> QED BY <1>3, <2>1
<1> QED BY <1>2, <1>4, <1>5 DEF m

(* The calls Init begins with. *)
Calls(text, op, start, cnt, rplc, backref, nmatch, pattern, cf_newline, newlines) ==
  /\ op \in {"rm", "rmn"} => rplc = <<>>
  /\ op \in {"rm", "rplc"} => cnt = 1
  /\ backref => op = "rplcn"
  /\ (nmatch = 2) = backref
  /\ pattern = "any" => cnt = 1
  /\ ~cf_newline => newlines = {}
  /\ call = [op |-> op, start |-> start, n |-> cnt, rplc |-> rplc,
             backref |-> backref, nmatch |-> nmatch, pattern |-> pattern,
             cf_newline |-> cf_newline, newlines |-> newlines,
             text |-> text]
  /\ n = (IF size = 0 /\ cnt # 0 THEN 1 ELSE cnt)
  /\ i = [dst |-> start, src |-> start, src_e |-> start]

LEMMA InitInv == ASSUME Init PROVE IInv
<1>1. PICK text \in Texts, slack \in Slacks :
       /\ size = Len(text)
       /\ alloc = Len(text) + 1 + slack
       /\ data = StrCpy([k \in 0..(alloc - 1) |-> Junk], 0, text)
       /\ capacity = alloc
       /\ \E op \in Ops, start \in 0..(Len(text) + 1), cnt \in Counts \cup {All},
             rplc \in Rplcs, backref \in BOOLEAN, nmatch \in 1..2,
             pattern \in Patterns, cf_newline \in BOOLEAN,
             newlines \in {{}} \cup {{text[k]} : k \in DOMAIN text} :
               Calls(text, op, start, cnt, rplc, backref, nmatch, pattern, cf_newline, newlines)
  BY DEF Init, Calls
<1>2. /\ pc = "entry" /\ dst_s = 0 /\ end = size /\ searches = <<>> /\ overrun = FALSE
  BY DEF Init
<1>3. PICK op \in Ops, start \in 0..(Len(text) + 1), cnt \in Counts \cup {All},
           rplc \in Rplcs, backref \in BOOLEAN, nmatch \in 1..2,
           pattern \in Patterns, cf_newline \in BOOLEAN,
           newlines \in {{}} \cup {{text[k]} : k \in DOMAIN text} :
             Calls(text, op, start, cnt, rplc, backref, nmatch, pattern, cf_newline, newlines)
  BY <1>1
<1>4. text \in Seq(Char) /\ rplc \in Seq(Char)
  BY <1>1, <1>3, StringsAssumption
<1>5. Len(text) \in Nat /\ slack \in Nat /\ start \in Nat
  BY <1>1, <1>3, <1>4, CountsAssumption
<1>6. /\ call.text = text /\ call.rplc = rplc /\ call.start = start
      /\ call.cf_newline = cf_newline
  BY <1>3 DEF Calls
<1>7. /\ i.dst = start /\ i.src = start /\ i.src_e = start
      /\ i \in [dst : Nat, src : Nat, src_e : Nat]
  BY <1>3, <1>5 DEF Calls
<1>8. CallOK
  BY <1>3, <1>4, <1>5, <1>6 DEF CallOK
<1>9. alloc \in Nat /\ Len(text) < alloc
  BY <1>1, <1>5
<1>10. /\ data \in Block(alloc) /\ data[Len(text)] = NUL
       /\ \A k \in 0..(Len(text) - 1) : data[k] = text[k + 1]
  <2>1. data = StrCpy([k \in 0..(alloc - 1) |-> Junk], 0, text)
    BY <1>1
  <2> QED BY <1>4, <1>9, <2>1, TextStored
<1>11. Typed
  <2>1. size \in Nat /\ dst_s \in Nat /\ searches \in Seq(Answers)
    BY <1>1, <1>2, <1>5
  <2> QED BY <1>1, <1>2, <1>7, <1>9, <1>10, <2>1 DEF Typed
<1>12. Kept /\ Intact(0)
  BY <1>1, <1>2, <1>6, <1>9, <1>10 DEF Kept, Intact
<1>13. AtEntry /\ Told
  BY <1>2, <1>6, <1>7, <1>12 DEF AtEntry, Told
<1> QED BY <1>2, <1>8, <1>11, <1>12, <1>13
        DEF IInv, Compacting, Building, Within, FailureLeaves

LEMMA StutterKeeps == ASSUME IInv, UNCHANGED vars PROVE IInv'
<1>1. /\ UNCHANGED <<data, alloc, size, capacity, call, pc, i, dst_s, end, n, refs>>
      /\ UNCHANGED <<searches, ret, overrun>>
  BY DEF vars, string, loop
<1>2. CallOK' /\ Typed' /\ Kept' /\ AtEntry' /\ Told' /\ FailureLeaves'
  BY <1>1 DEF IInv, CallOK, Typed, Kept, AtEntry, Told, Intact, FailureLeaves, Removing, rplc_len
<1>3. Compacting'
  BY <1>1 DEF IInv, Compacting, Intact, Removing, rplc_len
<1>4. RefFirst' = RefFirst /\ RefLast(RefFirst)' = RefLast(RefFirst)
  BY <1>1, SameReferences
<1>5. References' = References
  BY <1>1, <1>4 DEF References
<1>6. Building' /\ Within'
  BY <1>1, <1>4, <1>5 DEF IInv, Building, Within, Intact
<1> QED BY <1>2, <1>3, <1>6 DEF IInv

LEMMA NextKeeps == ASSUME IInv, [Next]_vars PROVE IInv'
<1>1. CASE UNCHANGED vars
  BY <1>1, StutterKeeps
<1>2. CASE Nothing
  BY <1>2, NothingKeeps
<1>3. CASE RmOne
  BY <1>3, RmOneKeeps
<1>4. CASE RplcOne
  BY <1>4, RplcOneKeeps
<1>5. CASE RmnStart
  BY <1>5, RmnStartKeeps
<1>6. CASE RmnStep
  BY <1>6, RmnStepKeeps
<1>7. CASE RmnEnd
  BY <1>7, RmnEndKeeps
<1>8. CASE RmnFails
  BY <1>8, RmnFailsKeeps
<1>9. CASE RplcnScansPast
  BY <1>9, ScansPastKeeps
<1>10. CASE RplcnStart
  BY <1>10, RplcnStartKeeps
<1>11. CASE RplcnStep
  BY <1>11, RplcnStepKeeps
<1>12. CASE RplcnEnd
  BY <1>12, RplcnEndKeeps
<1>13. CASE RplcnFails
  BY <1>13, RplcnFailsKeeps
<1> QED BY <1>1, <1>2, <1>3, <1>4, <1>5, <1>6, <1>7, <1>8, <1>9, <1>10, <1>11, <1>12, <1>13 DEF Next

(* The loops of include/regex.h keep the invariant, whatever regexec        *)
(* answers and however far the block can grow.                              *)
THEOREM Inductive == Spec => []IInv
<1>1. Init => IInv
  BY InitInv
<1>2. IInv /\ [Next]_vars => IInv'
  BY NextKeeps
<1> QED BY <1>1, <1>2, PTL DEF Spec

(* No call of include/regex.h touches a byte outside its block: the room    *)
(* jstr_internal_re_rplcbackrefstrlen computes for a match is the room      *)
(* jstr_internal_re_rplcbackrefcpy takes.  Only the scan for the first      *)
(* reference can run on, past a replacement that ends with a backslash and  *)
(* a character that is no digit.                                            *)
THEOREM StaysInside == Spec => []InBounds
<1>1. IInv => InBounds
  BY WildMeans DEF IInv, Within, InBounds
<1> QED BY <1>1, Inductive, PTL

(* Every search of the two loops is given the text as it was, and the right *)
(* answer to whether a line begins there, though the loops rewrite the      *)
(* block in front of it or behind it.                                       *)
THEOREM SearchesUnchanged == Spec => []SearchesOriginal
<1>1. ASSUME IInv PROVE SearchesOriginal
  <2>1. CASE pc = "rmn"
    <3>1. /\ i.dst <= i.src /\ Intact(i.dst) /\ data[end] = NUL
          /\ i.dst \in Nat /\ i.src \in Nat /\ end \in Nat
      BY <1>1, <2>1, InRmn, Basics
    <3>2. \A k \in i.src..(end - 1) : k \in i.dst..(end - 1)
      BY <3>1
    <3>3. \A k \in i.src..(end - 1) : data[k] = call.text[k + 1]
      BY <3>1, <3>2 DEF Intact
    <3> QED BY <1>1, <2>1, <3>1, <3>3 DEF IInv, Told, SearchesOriginal
  <2>2. CASE pc = "rplcn"
    <3>1. /\ Intact(0) /\ data[end] = NUL /\ i.src \in Nat /\ end \in Nat
      BY <1>1, <2>2, InRplcn, Basics
    <3>2. \A k \in i.src..(end - 1) : k \in 0..(end - 1)
      BY <3>1
    <3>3. \A k \in i.src..(end - 1) : data[k] = call.text[k + 1]
      BY <3>1, <3>2 DEF Intact
    <3> QED BY <1>1, <2>2, <3>1, <3>3 DEF IInv, Told, SearchesOriginal
  <2>3. CASE pc \notin {"rmn", "rplcn"}
    BY <1>1, <2>3 DEF IInv, Told, SearchesOriginal
  <2> QED BY <2>1, <2>2, <2>3
<1>2. IInv => SearchesOriginal
  BY <1>1
<1> QED BY <1>2, Inductive, PTL

(* What a call leaves when regexec fails or the block cannot grow: the      *)
(* string it was given, except where a removal has compacted a part of it   *)
(* and where the size is that of the unfinished result.                     *)
THEOREM FailureKeepsString == Spec => []FailureLeaves
<1>1. IInv => FailureLeaves
  BY DEF IInv
<1> QED BY <1>1, Inductive, PTL

(***************************************************************************)
(* What a template stands for: references are read off the number of        *)
(* backslashes before them, and the storing loop finds the same ones.       *)
(***************************************************************************)

LEMMA NotBefore == ASSUME CallOK PROVE ~Escapes(0) /\ ~Escapes(rplc_len)
<1>1. rplc_len \in Nat
  BY Lengths
<1> QED BY <1>1 DEF Escapes

(* The backslashes that end at p. *)
Run(q, p) ==
  /\ q \in 1..p /\ \A k \in q..p : call.rplc[k] = Backslash
  /\ q > 1 => call.rplc[q - 1] # Backslash

LEMMA RunExists ==
  ASSUME NEW p \in Nat \ {0}, call.rplc[p] = Backslash
  PROVE  \E q \in 1..p : Run(q, p)
<1> DEFINE S == {q \in Nat : q \in 1..p /\ \A k \in q..p : call.rplc[k] = Backslash}
<1>1. p \in S
  OBVIOUS
<1>2. PICK q \in S : \A r \in S : q <= r
  <2>1. S \in SUBSET Nat /\ S # {}
    BY <1>1
  <2> HIDE DEF S
  <2> QED BY <2>1, Least
<1>3. ASSUME q > 1 PROVE call.rplc[q - 1] # Backslash
  <2> SUFFICES ASSUME call.rplc[q - 1] = Backslash PROVE FALSE
    OBVIOUS
  <2>1. q - 1 \in Nat /\ q - 1 \in 1..p /\ ~(q <= q - 1)
    BY <1>2, <1>3
  <2>2. \A k \in (q - 1)..p : k = q - 1 \/ k \in q..p
    BY <1>2
  <2>3. \A k \in (q - 1)..p : call.rplc[k] = Backslash
    BY <1>2, <2>2
  <2>4. q - 1 \in S
    BY <2>1, <2>3
  <2> QED BY <1>2, <2>1, <2>4
<1> QED BY <1>2, <1>3 DEF Run

LEMMA RunUnique ==
  ASSUME NEW p \in Nat, NEW q, NEW r, Run(q, p), Run(r, p)
  PROVE  q = r
<1>1. q \in 1..p /\ r \in 1..p
  BY DEF Run
<1>2. ASSUME q < r PROVE FALSE
  <2>1. r > 1 /\ r - 1 \in q..p
    BY <1>1, <1>2
  <2> QED BY <2>1 DEF Run
<1>3. ASSUME r < q PROVE FALSE
  <2>1. q > 1 /\ q - 1 \in r..p
    BY <1>1, <1>3
  <2> QED BY <2>1 DEF Run
<1> QED BY <1>1, <1>2, <1>3

LEMMA EscapesIs ==
  ASSUME NEW p \in Nat
  PROVE  Escapes(p) <=> p \in 1..(rplc_len - 1) /\ \E q \in 1..p : Run(q, p) /\ (p - q) % 2 = 0
BY DEF Escapes, Run

LEMMA EvenOdd ==
  ASSUME NEW p \in Nat, NEW q \in Nat, q <= p
  PROVE  ((p + 1) - q) % 2 = 0 <=> (p - q) % 2 # 0
OBVIOUS

(* A backslash begins an escape when it is not in one. *)
LEMMA EscapesNext ==
  ASSUME CallOK, NEW p \in 1..(rplc_len - 1)
  PROVE  Escapes(p) <=> call.rplc[p] = Backslash /\ ~Escapes(p - 1)
<1>1. rplc_len \in Nat /\ p \in Nat \ {0} /\ p - 1 \in Nat
  BY Lengths
<1>2. CASE call.rplc[p] # Backslash
  <2>1. \A q \in 1..p : ~Run(q, p)
    <3> TAKE q \in 1..p
    <3>1. p \in q..p
      BY <1>1
    <3> QED BY <1>2, <3>1 DEF Run
  <2> QED BY <1>1, <1>2, <2>1, EscapesIs
<1>3. CASE call.rplc[p] = Backslash
  <2>1. PICK q \in 1..p : Run(q, p)
    BY <1>1, <1>3, RunExists
  <2>2. Escapes(p) <=> (p - q) % 2 = 0
    <3>1. \A r \in 1..p : Run(r, p) => r = q
      BY <1>1, <2>1, RunUnique
    <3> QED BY <1>1, <2>1, <3>1, EscapesIs
  <2>3. CASE q = p
    <3>1. Escapes(p)
      <4>1. (p - q) % 2 = 0
        BY <1>1, <2>3
      <4> QED BY <2>2, <4>1
    <3>2. ~Escapes(p - 1)
      <4> SUFFICES ASSUME Escapes(p - 1) PROVE FALSE
        OBVIOUS
      <4>1. p - 1 \in 1..(rplc_len - 1)
        BY <1>1, EscapesIs
      <4>2. PICK r \in 1..(p - 1) : Run(r, p - 1)
        BY <1>1, EscapesIs
      <4>3. p - 1 \in r..(p - 1)
        BY <1>1
      <4>4. call.rplc[p - 1] = Backslash
        BY <4>2, <4>3 DEF Run
      <4>5. q > 1
        BY <2>3, <4>1
      <4> QED BY <2>1, <2>3, <4>4, <4>5 DEF Run
    <3> QED BY <1>3, <3>1, <3>2
  <2>4. CASE q # p
    <3>1. q \in 1..(p - 1) /\ p - 1 \in 1..(rplc_len - 1)
      BY <1>1, <2>4
    <3>2. Run(q, p - 1)
      <4>1. \A k \in q..(p - 1) : k \in q..p
        BY <1>1
      <4> QED BY <2>1, <3>1, <4>1 DEF Run
    <3>3. Escapes(p - 1) <=> ((p - 1) - q) % 2 = 0
      <4>1. \A r \in 1..(p - 1) : Run(r, p - 1) => r = q
        BY <1>1, <3>2, RunUnique
      <4> QED BY <1>1, <3>1, <3>2, <4>1, EscapesIs
    <3>4. (p - q) % 2 = 0 <=> ((p - 1) - q) % 2 # 0
      <4>1. PICK o \in Nat : o = p - 1
        BY <1>1
      <4>2. q \in Nat /\ q <= o /\ p = o + 1
        BY <1>1, <3>1, <4>1
      <4>3. ((o + 1) - q) % 2 = 0 <=> (o - q) % 2 # 0
        BY <4>2, EvenOdd
      <4> QED BY <4>1, <4>2, <4>3
    <3> QED BY <1>3, <2>2, <3>3, <3>4
  <2> QED BY <2>3, <2>4
<1> QED BY <1>2, <1>3

(* A match, and the text it was found in. *)
Fitting(a) ==
  /\ CallOK /\ end = Len(call.text)
  /\ Part(a.span) /\ Part(a.group)

(* What the backslash at p refers to in the replacement of a. *)
RefersTo(p, a) == Referred(p, a.span, a.group)

LEMMA PieceText ==
  ASSUME NEW a, Fitting(a), NEW p, NEW grp, grp = RefersTo(p, a), grp # <<>>
  PROVE  /\ grp[1] \in Nat /\ grp[2] \in Nat /\ grp[1] <= grp[2] /\ grp[2] <= end
         /\ SubSeq(call.text, grp[1] + 1, grp[2]) \in Seq(Char)
         /\ Len(SubSeq(call.text, grp[1] + 1, grp[2])) = grp[2] - grp[1]
         /\ \A k \in 1..(grp[2] - grp[1]) :
              SubSeq(call.text, grp[1] + 1, grp[2])[k] = call.text[grp[1] + k]
<1>1. Part(grp)
  BY ReferredIsPart DEF Fitting, RefersTo
<1>2. PICK x, y \in Nat : x <= y /\ y <= end /\ grp = <<x, y>>
  BY <1>1 DEF Part
<1>3. call.text \in Seq(Char) /\ end = Len(call.text) /\ end \in Nat
  BY Lengths DEF Fitting, CallOK
<1>4. \A k \in (x + 1)..y : call.text[k] \in Char
  <2> TAKE k \in (x + 1)..y
  <2>1. k \in 1..Len(call.text)
    BY <1>2, <1>3
  <2> QED BY <1>3, <2>1
<1> DEFINE t == SubSeq(call.text, x + 1, y)
<1>5. x + 1 \in Int /\ y \in Int
  BY <1>2
<1>6. /\ t \in Seq(Char) /\ Len(t) = (IF x + 1 <= y THEN y - (x + 1) + 1 ELSE 0)
      /\ \A k \in 1..(y - (x + 1) + 1) : t[k] = call.text[(x + 1) + k - 1]
  BY <1>4, <1>5, SubSeqProperties
<1> HIDE DEF t
<1>7. Len(t) = y - x /\ y - (x + 1) + 1 = y - x
  BY <1>2, <1>6
<1>8. \A k \in 1..(y - x) : t[k] = call.text[x + k]
  <2> TAKE k \in 1..(y - x)
  <2>1. (x + 1) + k - 1 = x + k
    BY <1>2
  <2> QED BY <1>6, <1>7, <2>1
<1> QED BY <1>2, <1>6, <1>7, <1>8 DEF t

LEMMA PieceType ==
  ASSUME NEW a, Fitting(a), NEW p \in 1..rplc_len
  PROVE  Piece(p, a) \in Seq(Char)
<1>1. call.rplc[p] \in Char
  BY DEF Fitting, CallOK, rplc_len
<1>2. CASE Refers(p - 1, a)
  BY <1>2 DEF Piece
<1>3. CASE ~Refers(p - 1, a) /\ Refers(p, a)
  <2>1. RefersTo(p, a) # <<>>
    BY <1>3 DEF Refers, RefersTo
  <2> QED BY <1>3, <2>1, PieceText DEF Piece, RefersTo
<1>4. CASE ~Refers(p - 1, a) /\ ~Refers(p, a)
  BY <1>1, <1>4 DEF Piece
<1> QED BY <1>2, <1>3, <1>4

(* A template read character by character. *)
Reads(f, a) ==
  f = [p \in 1..(rplc_len + 1) |->
         IF p = rplc_len + 1 THEN <<>> ELSE Piece(p, a) \o f[p + 1]]

LEMMA ReadExists ==
  ASSUME NEW a, Fitting(a)
  PROVE  \E f : Reads(f, a)
<1> DEFINE L == rplc_len
           nxt == [p \in 1..(L + 1) |-> IF p = L + 1 THEN 0 ELSE p + 1]
           base == [p \in 1..(L + 1) |-> <<>>]
           G == [p \in 1..(L + 1) |-> [v \in Seq(Char) |-> Piece(p, a) \o v]]
<1>1. L \in Nat /\ L + 1 \in Nat
  BY Lengths DEF Fitting
<1>2. Descent(L + 1, Seq(Char), nxt, base, G)
  <2>1. ASSUME NEW p \in 1..(L + 1), nxt[p] # 0
        PROVE  nxt[p] \in (p + 1)..(L + 1) /\ \A v \in Seq(Char) : G[p][v] \in Seq(Char)
    <3>1. p \in 1..L /\ nxt[p] = p + 1
      BY <1>1, <2>1
    <3>2. Piece(p, a) \in Seq(Char)
      BY <3>1, PieceType
    <3>3. \A v \in Seq(Char) : Piece(p, a) \o v \in Seq(Char)
      BY <3>2
    <3>4. p + 1 \in (p + 1)..(L + 1)
      BY <1>1, <3>1
    <3> QED BY <3>1, <3>3, <3>4
  <2>2. \A p \in 1..(L + 1) : base[p] \in Seq(Char)
    OBVIOUS
  <2> HIDE DEF nxt, base, G
  <2> QED BY <2>1, <2>2 DEF Descent
<1> HIDE DEF nxt, base, G
<1>3. \E f \in [1..(L + 1) -> Seq(Char)] : Descended(f, L + 1, nxt, base, G)
  BY <1>1, <1>2, Descends, Zenon
<1>4. PICK f \in [1..(L + 1) -> Seq(Char)] :
        \A p \in 1..(L + 1) : f[p] = IF nxt[p] = 0 THEN base[p] ELSE G[p][f[nxt[p]]]
  BY <1>3 DEF Descended
<1>5. ASSUME NEW p \in 1..(L + 1)
      PROVE  f[p] = IF p = L + 1 THEN <<>> ELSE Piece(p, a) \o f[p + 1]
  <2>1. CASE p = L + 1
    <3>1. nxt[p] = 0 /\ base[p] = <<>>
      BY <2>1 DEF nxt, base
    <3> QED BY <1>4, <2>1, <3>1
  <2>2. CASE p # L + 1
    <3>1. nxt[p] = p + 1 /\ nxt[p] # 0 /\ nxt[p] \in 1..(L + 1)
      BY <1>1, <2>2 DEF nxt
    <3>2. f[p + 1] \in Seq(Char)
      BY <3>1
    <3>3. G[p][f[p + 1]] = Piece(p, a) \o f[p + 1]
      BY <3>2 DEF G
    <3> QED BY <1>4, <2>2, <3>1, <3>3
  <2> QED BY <2>1, <2>2
<1>6. f = [p \in 1..(L + 1) |-> IF p = L + 1 THEN <<>> ELSE Piece(p, a) \o f[p + 1]]
  BY <1>5
<1> QED BY <1>6 DEF Reads

LEMMA ExpandedUnfolds ==
  ASSUME NEW a, Fitting(a), call.backref
  PROVE  \E f : Reads(f, a) /\ Expanded(a) = f[1]
<1> DEFINE f == CHOOSE f :
                  f = [p \in 1..(rplc_len + 1) |->
                         IF p = rplc_len + 1 THEN <<>> ELSE Piece(p, a) \o f[p + 1]]
<1>1. Reads(f, a)
  <2>1. \E h : Reads(h, a)
    BY ReadExists
  <2> QED BY <2>1, Zenon DEF Reads
<1>2. Expanded(a) = IF call.backref THEN f[1] ELSE call.rplc
  BY Zenon DEF Expanded
<1> HIDE DEF f
<1> QED BY <1>1, <1>2

(* One character, or the two of an escape. *)
LEMMA ReadEnd ==
  ASSUME NEW a, Fitting(a), NEW f, Reads(f, a)
  PROVE  f[rplc_len + 1] = <<>>
<1>1. rplc_len + 1 \in 1..(rplc_len + 1)
  BY Lengths DEF Fitting
<1> QED BY <1>1 DEF Reads

LEMMA ReadTypes ==
  ASSUME NEW a, Fitting(a), NEW f, Reads(f, a)
  PROVE  \A p \in 1..(rplc_len + 1) : f[p] \in Seq(Char)
<1> DEFINE S == {p \in 1..(rplc_len + 1) : f[p] \in Seq(Char)}
<1>1. rplc_len \in Nat /\ rplc_len + 1 \in Nat
  BY Lengths DEF Fitting
<1>2. ASSUME NEW p \in 1..(rplc_len + 1), \A r \in (p + 1)..(rplc_len + 1) : r \in S
      PROVE  p \in S
  <2>1. CASE p = rplc_len + 1
    <3>1. f[p] = <<>>
      BY <2>1, ReadEnd
    <3>2. f[p] \in Seq(Char)
      BY <3>1
    <3> QED BY <3>2
  <2>2. CASE p # rplc_len + 1
    <3>1. p \in 1..rplc_len /\ p + 1 \in (p + 1)..(rplc_len + 1)
      BY <1>1, <2>2
    <3>2. f[p + 1] \in Seq(Char) /\ Piece(p, a) \in Seq(Char)
      BY <1>2, <3>1, PieceType
    <3>3. f[p] = Piece(p, a) \o f[p + 1]
      BY <2>2 DEF Reads
    <3>4. Piece(p, a) \o f[p + 1] \in Seq(Char)
      BY <3>2, ConcatProperties
    <3>5. f[p] \in Seq(Char)
      BY <3>3, <3>4
    <3> QED BY <3>5
  <2> QED BY <2>1, <2>2
<1> HIDE DEF S
<1>3. \A p \in 1..(rplc_len + 1) : p \in S
  BY <1>1, <1>2, Downwards
<1> QED BY <1>3 DEF S

LEMMA ReadPlain ==
  ASSUME NEW a, Fitting(a), NEW f, Reads(f, a), NEW p \in 1..rplc_len,
         ~Escapes(p - 1), ~Escapes(p)
  PROVE  f[p] = <<call.rplc[p]>> \o f[p + 1]
<1>1. p \in 1..(rplc_len + 1) /\ p # rplc_len + 1
  BY Lengths DEF Fitting
<1>2. f[p] = Piece(p, a) \o f[p + 1]
  BY <1>1 DEF Reads
<1>3. Piece(p, a) = <<call.rplc[p]>>
  BY DEF Piece, Refers
<1> QED BY <1>2, <1>3

Unit(p, grp) ==
  IF grp = <<>> THEN SubSeq(call.rplc, p, p + 1)
  ELSE SubSeq(call.text, grp[1] + 1, grp[2])

LEMMA ReadEscape ==
  ASSUME NEW a, Fitting(a), NEW f, Reads(f, a), NEW p \in 1..(rplc_len - 1),
         ~Escapes(p - 1), Escapes(p), NEW grp, grp = RefersTo(p, a)
  PROVE  /\ ~Escapes(p + 1)
         /\ f[p] = Unit(p, grp) \o f[p + 2]
<1>1. /\ rplc_len \in Nat /\ CallOK /\ call.rplc \in Seq(Char) /\ rplc_len = Len(call.rplc)
  BY Lengths DEF Fitting, CallOK, rplc_len
<1>2. /\ p \in 1..(rplc_len + 1) /\ p + 1 \in 1..(rplc_len + 1) /\ p + 2 \in 1..(rplc_len + 1)
      /\ p # rplc_len + 1 /\ p + 1 # rplc_len + 1 /\ (p + 1) - 1 = p /\ (p + 1) + 1 = p + 2
  BY <1>1
<1>3. ~Escapes(p + 1)
  <2>1. CASE p + 1 = rplc_len
    BY <1>1, <2>1, NotBefore
  <2>2. CASE p + 1 # rplc_len
    <3>1. p + 1 \in 1..(rplc_len - 1)
      BY <1>1, <2>2
    <3> QED BY <1>1, <1>2, <3>1, EscapesNext
  <2> QED BY <2>1, <2>2
<1>4. f[p] = Piece(p, a) \o f[p + 1] /\ f[p + 1] = Piece(p + 1, a) \o f[p + 2]
  BY <1>2 DEF Reads
<1>5. f[p + 2] \in Seq(Char)
  BY <1>2, ReadTypes
<1>6. CASE grp = <<>>
  <2>1. Piece(p, a) = <<call.rplc[p]>> /\ Piece(p + 1, a) = <<call.rplc[p + 1]>>
    BY <1>2, <1>3, <1>6 DEF Piece, Refers, RefersTo
  <2>2. SubSeq(call.rplc, p, p + 1) = <<call.rplc[p]>> \o <<call.rplc[p + 1]>>
    <3>1. p \in 1..Len(call.rplc) /\ p + 1 \in p..Len(call.rplc) /\ p + 1 \in 1..Len(call.rplc)
          /\ p + 1 \in (p + 1)..Len(call.rplc)
      BY <1>1
    <3>2. SubSeq(call.rplc, p, p + 1) = <<call.rplc[p]>> \o SubSeq(call.rplc, p + 1, p + 1)
      BY <1>1, <3>1, SubSeqRecursiveFirst
    <3>3. SubSeq(call.rplc, p + 1, p + 1)
            = <<call.rplc[p + 1]>> \o SubSeq(call.rplc, (p + 1) + 1, p + 1)
      BY <1>1, <3>1, SubSeqRecursiveFirst
    <3>4. (p + 1) + 1 \in Int /\ p + 1 \in Int /\ p + 1 < (p + 1) + 1
      BY <1>1
    <3>5. SubSeq(call.rplc, (p + 1) + 1, p + 1) = <<>>
      BY <3>4, SubSeqEmpty
    <3>6. call.rplc[p + 1] \in Char
      BY <1>1, <3>1
    <3>7. <<call.rplc[p + 1]>> \in Seq(Char)
      BY <3>6
    <3>8. <<call.rplc[p + 1]>> \o <<>> = <<call.rplc[p + 1]>>
      BY <3>7, ConcatEmptySeq
    <3> QED BY <3>2, <3>3, <3>5, <3>8
  <2>3. <<call.rplc[p]>> \in Seq(Char) /\ <<call.rplc[p + 1]>> \in Seq(Char)
    <3>1. p \in 1..Len(call.rplc) /\ p + 1 \in 1..Len(call.rplc)
      BY <1>1
    <3>2. call.rplc[p] \in Char /\ call.rplc[p + 1] \in Char
      BY <1>1, <3>1
    <3> QED BY <3>2
  <2>4. (<<call.rplc[p]>> \o <<call.rplc[p + 1]>>) \o f[p + 2]
          = <<call.rplc[p]>> \o (<<call.rplc[p + 1]>> \o f[p + 2])
    BY <1>5, <2>3, ConcatAssociative
  <2> QED BY <1>3, <1>4, <1>6, <2>1, <2>2, <2>4 DEF Unit
<1>7. CASE grp # <<>>
  <2>1. ~Refers(p - 1, a) /\ Refers(p, a)
    BY <1>7 DEF Refers, RefersTo
  <2>2. Piece(p, a) = SubSeq(call.text, grp[1] + 1, grp[2]) /\ Piece(p + 1, a) = <<>>
    BY <1>2, <2>1 DEF Piece, RefersTo
  <2>3. <<>> \o f[p + 2] = f[p + 2]
    BY <1>5, ConcatEmptySeq
  <2> QED BY <1>3, <1>4, <1>7, <2>2, <2>3 DEF Unit
<1> QED BY <1>6, <1>7

LEMMA ReadLiteral ==
  ASSUME NEW a, Fitting(a), NEW f, Reads(f, a), NEW p \in 1..(rplc_len - 1),
         ~Escapes(p - 1), Escapes(p), RefersTo(p, a) = <<>>
  PROVE  ~Escapes(p + 1) /\ f[p] = SubSeq(call.rplc, p, p + 1) \o f[p + 2]
<1>1. PICK grp : grp = RefersTo(p, a) /\ grp = <<>>
  OBVIOUS
<1>2. ~Escapes(p + 1) /\ f[p] = Unit(p, grp) \o f[p + 2]
  BY <1>1, ReadEscape
<1> QED BY <1>1, <1>2 DEF Unit

LEMMA MemChrHere ==
  ASSUME NEW e \in Nat, NEW p \in 1..(e - 1), call.rplc[p] = Backslash
  PROVE  MemChr(p, e) = p
<1> DEFINE q == MemChr(p, e)
<1>1. p \in Nat \ {0} /\ p \in p..(e - 1)
  OBVIOUS
<1>2. \/ q = 0 /\ \A k \in p..(e - 1) : call.rplc[k] # Backslash
      \/ q \in p..(e - 1) /\ \A k \in p..(q - 1) : call.rplc[k] # Backslash
  BY <1>1, MemChrFinds
<1> HIDE DEF q
<1>3. q \in p..(e - 1) /\ \A k \in p..(q - 1) : call.rplc[k] # Backslash
  BY <1>1, <1>2
<1>4. ~(p \in p..(q - 1))
  BY <1>3
<1>5. q = p
  BY <1>3, <1>4
<1> QED BY <1>5 DEF q

LEMMA MemChrSkip ==
  ASSUME NEW e \in Nat, NEW p \in Nat \ {0}, call.rplc[p] # Backslash
  PROVE  MemChr(p, e) = MemChr(p + 1, e)
<1> DEFINE q == MemChr(p, e)
           r == MemChr(p + 1, e)
<1>1. p + 1 \in Nat \ {0}
  OBVIOUS
<1>2. \/ q = 0 /\ \A k \in p..(e - 1) : call.rplc[k] # Backslash
      \/ /\ q \in p..(e - 1) /\ call.rplc[q] = Backslash
         /\ \A k \in p..(q - 1) : call.rplc[k] # Backslash
  BY MemChrFinds
<1>3. \/ r = 0 /\ \A k \in (p + 1)..(e - 1) : call.rplc[k] # Backslash
      \/ /\ r \in (p + 1)..(e - 1) /\ call.rplc[r] = Backslash
         /\ \A k \in (p + 1)..(r - 1) : call.rplc[k] # Backslash
  BY <1>1, MemChrFinds
<1> HIDE DEF q, r
<1>4. CASE q = 0
  <2>1. \A k \in (p + 1)..(e - 1) : call.rplc[k] # Backslash
    <3>1. \A k \in p..(e - 1) : call.rplc[k] # Backslash
      BY <1>2, <1>4
    <3> QED BY <3>1
  <2>2. r = 0
    BY <1>3, <2>1
  <2> QED BY <1>4, <2>2 DEF q, r
<1>5. CASE q # 0
  <2>1. /\ q \in (p + 1)..(e - 1) /\ call.rplc[q] = Backslash
        /\ \A k \in (p + 1)..(q - 1) : call.rplc[k] # Backslash
    BY <1>2, <1>5
  <2>2. r # 0 /\ r \in (p + 1)..(e - 1)
    BY <1>3, <2>1
  <2>3. ~(q < r) /\ ~(r < q)
    BY <1>3, <2>1, <2>2
  <2>4. q = r
    BY <2>1, <2>2, <2>3
  <2> QED BY <2>4 DEF q, r
<1> QED BY <1>4, <1>5

LEMMA OneIsSeq == ASSUME NEW c \in Char PROVE <<c>> \in Seq(Char)
OBVIOUS

LEMMA StorePlain ==
  ASSUME NEW s, NEW g, Matched(s, g), NEW f, Stores(f, s, g), NEW p \in 1..rplc_len,
         call.rplc[p] # Backslash \/ p = rplc_len
  PROVE  f[p] = <<call.rplc[p]>> \o f[p + 1]
<1> DEFINE L == rplc_len
           t == call.rplc
           q == MemChr(p, L + 1)
<1>1. L \in Nat /\ L + 1 \in Nat /\ L = Len(t) /\ t \in Seq(Char) /\ CallOK
  BY Lengths DEF Matched, CallOK, rplc_len
<1>2. p \in Nat \ {0} /\ p \in 1..(L + 1) /\ p + 1 \in 1..(L + 1) /\ p + 1 \in Nat \ {0}
      /\ p \in 1..Len(t) /\ L \in p..Len(t)
  BY <1>1
<1>3. SubSeq(t, p, L) = <<t[p]>> \o SubSeq(t, p + 1, L)
  BY <1>1, <1>2, SubSeqRecursiveFirst
<1>4. \A r \in 1..(L + 1) :
        f[r] = IF MemChr(r, L + 1) = 0 \/ MemChr(r, L + 1) = L THEN SubSeq(t, r, L)
               ELSE SubSeq(t, r, MemChr(r, L + 1) - 1)
                      \o Stored(MemChr(r, L + 1), Referred(MemChr(r, L + 1), s, g))
                      \o f[MemChr(r, L + 1) + 2]
  BY DEF Stores, Stored
<1>5. CASE t[p] = Backslash
  <2>1. p = L
    BY <1>5
  <2>2. q = p
    <3>1. p \in 1..((L + 1) - 1)
      BY <1>1, <2>1
    <3> QED BY <1>1, <1>5, <3>1, MemChrHere
  <2>3. MemChr(p + 1, L + 1) = 0
    <3>1. ~(MemChr(p + 1, L + 1) \in (p + 1)..((L + 1) - 1))
      BY <1>1, <2>1
    <3> QED BY <1>1, <1>2, <3>1, MemChrFinds
  <2>4. f[p] = SubSeq(t, p, L) /\ f[p + 1] = SubSeq(t, p + 1, L)
    BY <1>2, <1>4, <2>1, <2>2, <2>3
  <2> QED BY <1>3, <2>4
<1>6. CASE t[p] # Backslash
  <2>1. MemChr(p + 1, L + 1) = q
    BY <1>1, <1>2, <1>6, MemChrSkip
  <2>2. q = 0 \/ q \in (p + 1)..L
    <3>1. q = 0 \/ q \in (p + 1)..((L + 1) - 1)
      BY <1>1, <1>2, <2>1, MemChrFinds
    <3> HIDE DEF q
    <3> QED BY <1>1, <3>1
  <2>3. CASE q = 0 \/ q = L
    <3>1. f[p] = SubSeq(t, p, L) /\ f[p + 1] = SubSeq(t, p + 1, L)
      BY <1>2, <1>4, <2>1, <2>3
    <3> QED BY <1>3, <3>1
  <2>4. CASE ~(q = 0 \/ q = L)
    <3> DEFINE item == Stored(q, Referred(q, s, g))
               rest == f[q + 2]
    <3>1. f[p] = SubSeq(t, p, q - 1) \o item \o rest
          /\ f[p + 1] = SubSeq(t, p + 1, q - 1) \o item \o rest
      BY <1>2, <1>4, <2>1, <2>4
    <3>2. Part(Referred(q, s, g))
      BY ReferredIsPart DEF Matched
    <3> HIDE DEF q
    <3>3. q \in (p + 1)..(L - 1) /\ q \in 1..(L - 1) /\ q + 2 \in 1..(L + 1)
      BY <1>1, <1>2, <2>2, <2>4
    <3>4. item \in Seq(Char)
      BY <3>2, <3>3, StoredType DEF Matched
    <3>5. rest \in Seq(Char)
      BY <3>3, StoreTypes
    <3> HIDE DEF item, rest
    <3>6. q - 1 \in p..Len(t)
      BY <1>1, <1>2, <3>3
    <3>7. SubSeq(t, p, q - 1) = <<t[p]>> \o SubSeq(t, p + 1, q - 1)
      BY <1>1, <1>2, <3>6, SubSeqRecursiveFirst
    <3>8. SubSeq(t, p + 1, q - 1) \in Seq(Char)
      <4>1. p + 1 \in 1..(Len(t) + 1) /\ q - 1 \in ((p + 1) - 1)..Len(t)
        BY <1>1, <1>2, <3>6
      <4> QED BY <1>1, <4>1, SubSeqLen
    <3>9. <<t[p]>> \in Seq(Char)
      BY <1>1, <1>2, OneIsSeq
    <3> DEFINE u == SubSeq(t, p + 1, q - 1)
               c == <<t[p]>>
    <3>10. u \in Seq(Char) /\ c \in Seq(Char)
      BY <3>8, <3>9
    <3>11. f[p] = (c \o u) \o item \o rest /\ f[p + 1] = u \o item \o rest
      BY <3>1, <3>7
    <3> HIDE DEF u, c
    <3>12. (c \o u) \o item = c \o (u \o item)
      BY <3>4, <3>10, ConcatAssociative, SMTT(30)
    <3>13. u \o item \in Seq(Char)
      BY <3>4, <3>10, ConcatProperties
    <3>14. (c \o (u \o item)) \o rest = c \o ((u \o item) \o rest)
      BY <3>5, <3>10, <3>13, ConcatAssociative, SMTT(30)
    <3>15. f[p] = c \o f[p + 1]
      BY <3>11, <3>12, <3>14
    <3> QED BY <3>15 DEF c
  <2> QED BY <2>3, <2>4
<1> QED BY <1>5, <1>6

LEMMA StoreEscape ==
  ASSUME NEW s, NEW g, Matched(s, g), NEW f, Stores(f, s, g), NEW p \in 1..(rplc_len - 1),
         call.rplc[p] = Backslash
  PROVE  f[p] = Stored(p, Referred(p, s, g)) \o f[p + 2]
<1> DEFINE L == rplc_len
           t == call.rplc
           item == Stored(p, Referred(p, s, g))
<1>1. L \in Nat /\ L + 1 \in Nat
  BY Lengths DEF Matched
<1>2. p \in 1..((L + 1) - 1) /\ p \in 1..(L + 1) /\ p + 2 \in 1..(L + 1) /\ p # 0 /\ p # L
      /\ p \in Int /\ p - 1 \in Int /\ p - 1 < p
  BY <1>1
<1>3. MemChr(p, L + 1) = p
  BY <1>1, <1>2, MemChrHere
<1>4. f[p] = SubSeq(t, p, p - 1) \o item \o f[p + 2]
  BY <1>2, <1>3 DEF Stores, Stored
<1>5. SubSeq(t, p, p - 1) = <<>>
  BY <1>2, SubSeqEmpty
<1>6. item \in Seq(Char)
  <2>1. Part(Referred(p, s, g))
    BY ReferredIsPart DEF Matched
  <2> QED BY <2>1, StoredType DEF Matched
<1> HIDE DEF item
<1>7. <<>> \o item = item
  BY <1>6, ConcatEmptySeq
<1> QED BY <1>4, <1>5, <1>7 DEF item

LEMMA StoreEnd ==
  ASSUME NEW s, NEW g, Matched(s, g), NEW f, Stores(f, s, g)
  PROVE  f[rplc_len + 1] = <<>>
<1> DEFINE L == rplc_len
<1>1. L \in Nat /\ L + 1 \in Nat \ {0} /\ L + 1 \in 1..(L + 1)
  BY Lengths DEF Matched
<1>2. MemChr(L + 1, L + 1) \in {0, L}
  <2>1. ~(MemChr(L + 1, L + 1) \in (L + 1)..((L + 1) - 1))
    BY <1>1
  <2> QED BY <1>1, <2>1, MemChrFinds
<1>3. f[L + 1] \in Seq(Char) /\ Len(f[L + 1]) = (L + 1) - (L + 1)
  BY <1>1, <1>2, StoreEnds
<1>4. Len(f[L + 1]) = 0
  BY <1>1, <1>3
<1> QED BY <1>3, <1>4, EmptySeq

LEMMA StoredIsText ==
  ASSUME NEW a, Fitting(a), Intact(0), NEW p, NEW grp, grp = RefersTo(p, a),
         grp # <<>>
  PROVE  Stored(p, grp) = SubSeq(call.text, grp[1] + 1, grp[2])
<1>0. /\ grp[1] \in Nat /\ grp[2] \in Nat /\ grp[1] <= grp[2] /\ grp[2] <= end
      /\ SubSeq(call.text, grp[1] + 1, grp[2]) \in Seq(Char)
      /\ Len(SubSeq(call.text, grp[1] + 1, grp[2])) = grp[2] - grp[1]
      /\ \A k \in 1..(grp[2] - grp[1]) :
           SubSeq(call.text, grp[1] + 1, grp[2])[k] = call.text[grp[1] + k]
  BY PieceText, SMTT(30)
<1> DEFINE t == SubSeq(call.text, grp[1] + 1, grp[2])
           len == grp[2] - grp[1]
<1>1. t \in Seq(Char) /\ Len(t) = len /\ \A k \in 1..len : t[k] = call.text[grp[1] + k]
  BY <1>0
<1>2. end \in Nat
  BY Lengths DEF Fitting
<1>3. \A k \in 1..len : data[grp[1] + k - 1] = call.text[grp[1] + k]
  <2> TAKE k \in 1..len
  <2>1. grp[1] + k - 1 \in 0..(end - 1) /\ (grp[1] + k - 1) + 1 = grp[1] + k
    <3>1. PICK x, y \in Nat : x = grp[1] /\ y = grp[2] /\ x <= y /\ y <= end /\ k \in 1..(y - x)
      BY <1>0
    <3>2. x + k - 1 \in 0..(end - 1) /\ (x + k - 1) + 1 = x + k
      BY <1>2, <3>1, SMTT(30)
    <3> QED BY <3>1, <3>2
  <2> QED BY <2>1 DEF Intact
<1>4. Stored(p, grp) = [k \in 1..len |-> data[grp[1] + k - 1]]
  BY DEF Stored
<1> HIDE DEF t, len
<1>5. t = [k \in 1..len |-> t[k]]
  BY <1>1
<1>6. Stored(p, grp) = t
  BY <1>1, <1>3, <1>4, <1>5
<1> QED BY <1>6 DEF t

(* What is stored for a match is what its replacement stands for. *)
LEMMA CpyIsExpanded ==
  ASSUME NEW a, Fitting(a), Intact(0), Matched(a.span, a.group), call.backref
  PROVE  Cpy(a.span, a.group) = Expanded(a)
<1> DEFINE L == rplc_len
<1>1. PICK f : Stores(f, a.span, a.group) /\ Cpy(a.span, a.group) = f[1]
  BY CpyUnfolds DEF Matched
<1>2. PICK h : Reads(h, a) /\ Expanded(a) = h[1]
  BY ExpandedUnfolds
<1> DEFINE S == {p \in 1..(L + 1) : ~Escapes(p - 1) => f[p] = h[p]}
<1>3. L \in Nat /\ L + 1 \in Nat /\ CallOK
  BY Lengths DEF Fitting
<1>4. ASSUME NEW p \in 1..(L + 1), \A r \in (p + 1)..(L + 1) : r \in S
      PROVE  p \in S
  <2> SUFFICES ASSUME ~Escapes(p - 1) PROVE f[p] = h[p]
    OBVIOUS
  <2>1. CASE p = L + 1
    BY <1>1, <1>2, <2>1, StoreEnd, ReadEnd
  <2>2. CASE p # L + 1 /\ (p = L \/ call.rplc[p] # Backslash)
    <3>1. p \in 1..L /\ p + 1 \in (p + 1)..(L + 1) /\ (p + 1) - 1 = p
      BY <1>3, <2>2
    <3>2. ~Escapes(p)
      <4>1. CASE p = L
        BY <1>3, <4>1, NotBefore
      <4>2. CASE p # L
        <5>1. p \in 1..(L - 1)
          BY <1>3, <3>1, <4>2
        <5> QED BY <1>3, <2>2, <4>2, <5>1, EscapesNext
      <4> QED BY <4>1, <4>2
    <3>3. f[p] = <<call.rplc[p]>> \o f[p + 1]
      BY <1>1, <2>2, <3>1, StorePlain
    <3>4. h[p] = <<call.rplc[p]>> \o h[p + 1]
      BY <1>2, <3>1, <3>2, ReadPlain
    <3>5. f[p + 1] = h[p + 1]
      BY <1>4, <3>1, <3>2
    <3> QED BY <3>3, <3>4, <3>5
  <2>3. CASE p # L + 1 /\ p # L /\ call.rplc[p] = Backslash
    <3>0. p \in 1..(rplc_len - 1) /\ call.rplc[p] = Backslash
      BY <1>3, <2>3
    <3>1. p + 2 \in (p + 1)..(L + 1) /\ (p + 2) - 1 = p + 1
      BY <1>3, <2>3
    <3>2. Escapes(p)
      BY <1>3, <3>0, EscapesNext
    <3> HIDE DEF L, S
    <3>7. PICK grp : grp = RefersTo(p, a)
      OBVIOUS
    <3>3. f[p] = Stored(p, grp) \o f[p + 2]
      <4>1. PICK s, g : s = a.span /\ g = a.group
        OBVIOUS
      <4>2. Matched(s, g) /\ Stores(f, s, g)
        BY <1>1, <4>1
      <4>3. f[p] = Stored(p, Referred(p, s, g)) \o f[p + 2]
        BY <3>0, <4>2, StoreEscape, ZenonT(30)
      <4> QED BY <3>7, <4>1, <4>3 DEF RefersTo
    <3>4. ~Escapes(p + 1) /\ h[p] = Unit(p, grp) \o h[p + 2]
      <4>1. Reads(h, a) /\ Fitting(a) /\ p \in 1..(rplc_len - 1) /\ ~Escapes(p - 1) /\ Escapes(p)
            /\ grp = RefersTo(p, a)
        BY <1>2, <3>0, <3>2, <3>7
      <4>2. ~Escapes(p + 1)
        BY <4>1, ReadEscape
      <4>3. h[p] = Unit(p, grp) \o h[p + 2]
        BY <4>1, ReadEscape
      <4> QED BY <4>2, <4>3
    <3>5. Stored(p, grp) = Unit(p, grp)
      <4>1. CASE grp = <<>>
        BY <4>1 DEF Stored, Unit
      <4>2. CASE grp # <<>>
        <5>1. Stored(p, grp) = SubSeq(call.text, grp[1] + 1, grp[2])
          BY <3>7, <4>2, StoredIsText
        <5> QED BY <4>2, <5>1 DEF Unit
      <4> QED BY <4>1, <4>2
    <3>6. f[p + 2] = h[p + 2]
      BY <1>4, <3>1, <3>4 DEF S
    <3> QED BY <3>3, <3>4, <3>5, <3>6
  <2> QED BY <2>1, <2>2, <2>3
<1> HIDE DEF S
<1>5. \A p \in 1..(L + 1) : p \in S
  BY <1>3, <1>4, Downwards
<1>6. 1 \in S
  BY <1>3, <1>5
<1>7. ~Escapes(1 - 1)
  BY <1>3, NotBefore
<1> QED BY <1>1, <1>2, <1>6, <1>7 DEF S

(* Without a reference the replacement stands for itself. *)
LEMMA ExpandedPlain ==
  ASSUME NEW a, Fitting(a), call.backref => RefFirst = 0
  PROVE  Expanded(a) = call.rplc
<1> DEFINE L == rplc_len
           t == call.rplc
<1>1. CASE ~call.backref
  BY <1>1 DEF Expanded
<1>2. CASE call.backref
  <2>1. PICK h : Reads(h, a) /\ Expanded(a) = h[1]
    BY <1>2, ExpandedUnfolds
  <2>2. /\ L \in Nat /\ L + 1 \in Nat /\ CallOK /\ t \in Seq(Char) /\ L = Len(t)
    BY Lengths DEF Fitting, CallOK, rplc_len
  <2>3. CASE L < 2
    <3>1. CASE L = 0
      <4>1. h[1] = <<>>
        BY <2>1, <3>1, ReadEnd
      <4>2. t = <<>>
        BY <2>2, <3>1, EmptySeq
      <4> QED BY <2>1, <4>1, <4>2
    <3>2. CASE L # 0
      <4>1. L = 1
        <5>1. L \in Nat
          BY <2>2
        <5> HIDE DEF L
        <5> QED BY <2>3, <3>2, <5>1
      <4>2. ~Escapes(0) /\ ~Escapes(1)
        BY <2>2, <4>1, NotBefore
      <4>3. h[1] = <<t[1]>> \o h[2]
        <5>1. 1 \in 1..rplc_len /\ 1 - 1 = 0 /\ 1 + 1 = 2
          BY <4>1
        <5> QED BY <2>1, <4>2, <5>1, ReadPlain
      <4>4. h[2] = <<>>
        <5>1. rplc_len + 1 = 2
          BY <4>1
        <5> QED BY <2>1, <5>1, ReadEnd
      <4>5. t[1] \in Char
        <5>1. 1 \in 1..Len(t)
          BY <2>2, <4>1
        <5> QED BY <2>2, <5>1
      <4>6. <<t[1]>> \in Seq(Char)
        BY <4>5, OneIsSeq
      <4>7. <<t[1]>> \o <<>> = <<t[1]>>
        BY <4>6, ConcatEmptySeq
      <4>8. t = <<t[1]>>
        <5>1. Len(t) = 1 /\ t \in Seq(Char)
          BY <2>2, <4>1
        <5>2. Len(<<t[1]>>) = 1 /\ <<t[1]>>[1] = t[1]
          OBVIOUS
        <5> HIDE DEF t
        <5>3. \A k \in 1..Len(t) : t[k] = <<t[1]>>[k]
          BY <5>1, <5>2
        <5> QED BY <4>6, <5>1, <5>2, <5>3, SeqEqual
      <4> QED BY <2>1, <4>3, <4>4, <4>7, <4>8
    <3> QED BY <3>1, <3>2
  <2>4. CASE L >= 2
    <3>1. PICK c : Scans(c) /\ c[1] = 0
      BY <1>2, <2>2, <2>4, ScanUnfolds
    <3> DEFINE S == {p \in 1..(L + 1) : ~Escapes(p - 1) /\ c[p] = 0 => h[p] = SubSeq(t, p, L)}
    <3>2. ASSUME NEW p \in 1..(L + 1), \A r \in (p + 1)..(L + 1) : r \in S
          PROVE  p \in S
      <4> SUFFICES ASSUME ~Escapes(p - 1), c[p] = 0 PROVE h[p] = SubSeq(t, p, L)
        OBVIOUS
      <4>1. \A r \in 1..(L + 1) :
              c[r] = IF r = L + 1 THEN Wild
                     ELSE IF MemChr(r, L) = 0 \/ IsDigit(MemChr(r, L) + 1) THEN MemChr(r, L)
                          ELSE c[MemChr(r, L) + 2]
        BY <3>1 DEF Scans
      <4>2. p # L + 1 /\ p \in 1..L /\ p \in Nat \ {0} /\ p + 1 \in 1..(L + 1)
        BY <2>2, <4>1 DEF Wild
      <4>3. h[p] = <<t[p]>> \o h[p + 1] /\ h[p + 1] = SubSeq(t, p + 1, L) => h[p] = SubSeq(t, p, L)
        <5>1. p \in 1..Len(t) /\ L \in p..Len(t)
          BY <2>2, <4>2
        <5> QED BY <2>2, <5>1, SubSeqRecursiveFirst, SMTT(30)
      <4>4. CASE p = L
        <5>1. ~Escapes(p)
          BY <2>2, <4>4, NotBefore
        <5>2. h[p] = <<t[p]>> \o h[p + 1]
          BY <2>1, <4>2, <5>1, ReadPlain
        <5>3. h[p + 1] = <<>>
          BY <2>1, <4>4, ReadEnd
        <5>4. SubSeq(t, p + 1, L) = <<>>
          <6>1. p + 1 \in Int /\ L \in Int /\ L < p + 1
            BY <2>2, <4>4
          <6> QED BY <6>1, SubSeqEmpty
        <5> QED BY <4>3, <5>2, <5>3, <5>4
      <4>5. CASE p # L /\ t[p] # Backslash
        <5>1. p \in 1..(L - 1) /\ p + 1 \in (p + 1)..(L + 1) /\ (p + 1) - 1 = p /\ p + 1 # L + 1
          BY <2>2, <4>2, <4>5
        <5>2. ~Escapes(p)
          BY <2>2, <4>5, <5>1, EscapesNext
        <5>3. MemChr(p + 1, L) = MemChr(p, L)
          BY <2>2, <4>2, <4>5, MemChrSkip
        <5>4. c[p + 1] = c[p]
          BY <4>1, <4>2, <5>1, <5>3
        <5>5. h[p + 1] = SubSeq(t, p + 1, L)
          BY <3>2, <5>1, <5>2, <5>4
        <5>6. h[p] = <<t[p]>> \o h[p + 1]
          BY <2>1, <4>2, <5>2, ReadPlain
        <5> QED BY <4>3, <5>5, <5>6
      <4>6. CASE p # L /\ t[p] = Backslash
        <5>1. p \in 1..(L - 1) /\ p + 2 \in (p + 1)..(L + 1) /\ (p + 2) - 1 = p + 1
              /\ p # 0
          BY <2>2, <4>2, <4>6
        <5>2. MemChr(p, L) = p
          BY <2>2, <4>6, <5>1, MemChrHere
        <5>3. ~IsDigit(p + 1) /\ c[p + 2] = 0
          BY <4>1, <4>2, <5>1, <5>2
        <5>4. Escapes(p)
          BY <2>2, <4>6, <5>1, EscapesNext
        <5>5. RefersTo(p, a) = <<>>
          BY <5>3 DEF Referred, RefersTo
        <5> HIDE DEF L, t, S
        <5>6. ~Escapes(p + 1) /\ h[p] = SubSeq(t, p, p + 1) \o h[p + 2]
          <6>1. p \in 1..(rplc_len - 1)
            BY <5>1 DEF L
          <6>2. ~Escapes(p + 1) /\ h[p] = SubSeq(call.rplc, p, p + 1) \o h[p + 2]
            BY <2>1, <5>4, <5>5, <6>1, ReadLiteral, ZenonT(30)
          <6> QED BY <6>2 DEF t
        <5>7. h[p + 2] = SubSeq(t, p + 2, L)
          BY <3>2, <5>1, <5>3, <5>6 DEF S, L
        <5>8. SubSeq(t, p, p + 1) \o SubSeq(t, (p + 1) + 1, L) = SubSeq(t, p, L)
          <6>1. p \in 1..(Len(t) + 1) /\ p + 1 \in (p - 1)..Len(t) /\ L \in (p + 1)..Len(t)
            BY <2>2, <5>1 DEF t, L
          <6> QED BY <2>2, <6>1, ConcatAdjacentSubSeq DEF t, L
        <5>9. (p + 1) + 1 = p + 2
          BY <5>1
        <5> QED BY <5>6, <5>7, <5>8, <5>9
      <4> QED BY <4>4, <4>5, <4>6
    <3> HIDE DEF S
    <3>3. \A p \in 1..(L + 1) : p \in S
      BY <2>2, <3>2, Downwards
    <3>4. 1 \in S /\ ~Escapes(1 - 1)
      BY <2>2, <3>3, NotBefore
    <3>5. h[1] = SubSeq(t, 1, L)
      BY <3>1, <3>4 DEF S
    <3>6. SubSeq(t, 1, L) = t
      BY <2>2, SubSeqFull
    <3> QED BY <2>1, <3>5, <3>6
  <2> QED BY <2>2, <2>3, <2>4
<1> QED BY <1>1, <1>2

LEMMA ExpandedType ==
  ASSUME NEW a, Fitting(a)
  PROVE  Expanded(a) \in Seq(Char)
<1>1. CASE ~call.backref
  BY <1>1 DEF Expanded, Fitting, CallOK
<1>2. CASE call.backref
  <2>1. PICK f : Reads(f, a) /\ Expanded(a) = f[1]
    BY <1>2, ExpandedUnfolds
  <2>2. 1 \in 1..(rplc_len + 1)
    BY Lengths DEF Fitting
  <2> QED BY <2>1, <2>2, ReadTypes
<1> QED BY <1>1, <1>2

(***************************************************************************)
(* The text with the matches of a history replaced.                         *)
(***************************************************************************)

(* f begins with z, and G says how it goes on. *)
Ascended(f, m, z, G) == f[0] = z /\ \A k \in 1..m : f[k] = G[k][f[k - 1]]

Ascent(m, V, G) == \A k \in 1..m : \A v \in V : G[k][v] \in V

LEMMA Ascends ==
  ASSUME NEW m \in Nat, NEW V, NEW z \in V, NEW G, Ascent(m, V, G)
  PROVE  \E f \in [0..m -> V] : Ascended(f, m, z, G)
<1> DEFINE nxt == [p \in 1..(m + 1) |-> IF p = m + 1 THEN 0 ELSE p + 1]
           base == [p \in 1..(m + 1) |-> z]
           H == [p \in 1..(m + 1) |-> G[(m + 1) - p]]
<1>1. Descent(m + 1, V, nxt, base, H)
  <2>1. ASSUME NEW p \in 1..(m + 1), nxt[p] # 0
        PROVE  nxt[p] \in (p + 1)..(m + 1) /\ \A v \in V : H[p][v] \in V
    <3>1. p # m + 1 /\ nxt[p] = p + 1
      BY <2>1
    <3>2. (m + 1) - p \in 1..m /\ p + 1 \in (p + 1)..(m + 1)
      BY <3>1
    <3>3. H[p] = G[(m + 1) - p]
      OBVIOUS
    <3> QED BY <3>1, <3>2, <3>3 DEF Ascent
  <2>2. \A p \in 1..(m + 1) : base[p] \in V
    OBVIOUS
  <2> HIDE DEF nxt, base, H
  <2> QED BY <2>1, <2>2 DEF Descent
<1>2. m + 1 \in Nat
  OBVIOUS
<1> HIDE DEF nxt, base, H
<1>3. \E h \in [1..(m + 1) -> V] : Descended(h, m + 1, nxt, base, H)
  BY <1>1, <1>2, Descends, Zenon
<1>4. PICK h \in [1..(m + 1) -> V] :
        \A p \in 1..(m + 1) : h[p] = IF nxt[p] = 0 THEN base[p] ELSE H[p][h[nxt[p]]]
  BY <1>3 DEF Descended
<1> DEFINE f == [k \in 0..m |-> h[(m + 1) - k]]
<1>5. f \in [0..m -> V]
  <2>1. \A k \in 0..m : (m + 1) - k \in 1..(m + 1)
    OBVIOUS
  <2> QED BY <2>1
<1>6. f[0] = z
  <2>1. m + 1 \in 1..(m + 1) /\ (m + 1) - 0 = m + 1 /\ 0 \in 0..m
    OBVIOUS
  <2>2. h[m + 1] = z
    BY <1>4, <2>1 DEF nxt, base
  <2> QED BY <2>1, <2>2
<1>7. ASSUME NEW k \in 1..m PROVE f[k] = G[k][f[k - 1]]
  <2>1. PICK p \in 1..m : p = (m + 1) - k
    <3>1. (m + 1) - k \in 1..m
      OBVIOUS
    <3> QED BY <3>1
  <2>2. /\ p \in 1..(m + 1) /\ p # m + 1 /\ (m + 1) - p = k /\ (m + 1) - (k - 1) = p + 1
        /\ k \in 0..m /\ k - 1 \in 0..m /\ p + 1 # 0
    BY <2>1
  <2>3. nxt[p] = p + 1 /\ H[p] = G[k]
    BY <2>2 DEF nxt, H
  <2>4. h[p] = G[k][h[p + 1]]
    BY <1>4, <2>2, <2>3
  <2>5. f[k] = h[p] /\ f[k - 1] = h[p + 1]
    BY <2>1, <2>2
  <2> QED BY <2>4, <2>5
<1> HIDE DEF f
<1> QED BY <1>5, <1>6, <1>7 DEF Ascended

(* The text between the matches k - 1 and k of the history q. *)
Between(q, k) ==
  SubSeq(call.text, (IF k = 1 THEN 0 ELSE q[k - 1].span[2]) + 1, q[k].span[1])

Grows(f, q, m) ==
  /\ f[0] = <<>>
  /\ \A k \in 1..m : f[k] = f[k - 1] \o Between(q, k) \o Expanded(q[k])

(* The first m answers of the history q are matches in the text. *)
AllFit(q, m) ==
  /\ m \in Nat
  /\ \A k \in 1..m : Fitting(q[k]) /\ q[k].span # <<>>

LEMMA SpanIs ==
  ASSUME NEW a, Fitting(a), a.span # <<>>
  PROVE  a.span[1] \in Nat /\ a.span[2] \in Nat /\ a.span[1] <= a.span[2] /\ a.span[2] <= end
<1>1. PICK x, y \in Nat : x <= y /\ y <= end /\ a.span = <<x, y>>
  BY DEF Fitting, Part
<1> QED BY <1>1

LEMMA TextCut ==
  ASSUME CallOK, NEW x \in Nat, NEW y \in Nat, y <= Len(call.text)
  PROVE  /\ SubSeq(call.text, x + 1, y) \in Seq(Char)
         /\ Len(SubSeq(call.text, x + 1, y)) = (IF x <= y THEN y - x ELSE 0)
         /\ \A k \in 1..(y - x) : SubSeq(call.text, x + 1, y)[k] = call.text[x + k]
<1> DEFINE t == SubSeq(call.text, x + 1, y)
<1>1. call.text \in Seq(Char) /\ Len(call.text) \in Nat
  BY Lengths DEF CallOK
<1>2. \A k \in (x + 1)..y : call.text[k] \in Char
  <2> TAKE k \in (x + 1)..y
  <2>1. k \in 1..Len(call.text)
    BY <1>1
  <2> QED BY <1>1, <2>1
<1>3. x + 1 \in Int /\ y \in Int
  OBVIOUS
<1>4. /\ t \in Seq(Char) /\ Len(t) = (IF x + 1 <= y THEN y - (x + 1) + 1 ELSE 0)
      /\ \A k \in 1..(y - (x + 1) + 1) : t[k] = call.text[(x + 1) + k - 1]
  BY <1>2, <1>3, SubSeqProperties
<1> HIDE DEF t
<1>5. Len(t) = (IF x <= y THEN y - x ELSE 0)
  BY <1>4
<1>6. \A k \in 1..(y - x) : t[k] = call.text[x + k]
  <2> TAKE k \in 1..(y - x)
  <2>1. k \in 1..(y - (x + 1) + 1) /\ (x + 1) + k - 1 = x + k
    OBVIOUS
  <2> QED BY <1>4, <2>1
<1> QED BY <1>4, <1>5, <1>6 DEF t

LEMMA BetweenType ==
  ASSUME NEW q, NEW m, AllFit(q, m), NEW k \in 1..m
  PROVE  Between(q, k) \in Seq(Char) /\ Expanded(q[k]) \in Seq(Char)
<1>1. m \in Nat /\ Fitting(q[k]) /\ q[k].span # <<>>
  BY DEF AllFit
<1>2. Expanded(q[k]) \in Seq(Char)
  BY <1>1, ExpandedType
<1>3. CallOK /\ end = Len(call.text)
  BY <1>1 DEF Fitting
<1>4. q[k].span[1] \in Nat /\ q[k].span[1] <= end
  <2>1. PICK x, y \in Nat : x <= y /\ y <= end /\ q[k].span = <<x, y>>
    BY <1>1 DEF Fitting, Part
  <2>2. end \in Nat
    BY <1>3, Lengths
  <2> QED BY <2>1, <2>2
<1>5. PICK x \in Nat : x = IF k = 1 THEN 0 ELSE q[k - 1].span[2]
  <2>1. CASE k = 1
    BY <2>1
  <2>2. CASE k # 1
    <3>1. k - 1 \in 1..m
      BY <1>1, <2>2
    <3>2. Fitting(q[k - 1]) /\ q[k - 1].span # <<>>
      BY <3>1 DEF AllFit
    <3>3. q[k - 1].span[2] \in Nat
      BY <3>2, SpanIs
    <3> QED BY <2>2, <3>3
  <2> QED BY <2>1, <2>2
<1>6. SubSeq(call.text, x + 1, q[k].span[1]) \in Seq(Char)
  BY <1>3, <1>4, TextCut
<1> QED BY <1>2, <1>5, <1>6 DEF Between

LEMMA GrowsExists ==
  ASSUME NEW q, NEW m, AllFit(q, m)
  PROVE  \E f \in [0..m -> Seq(Char)] : Grows(f, q, m)
<1> DEFINE G == [k \in 1..m |-> [v \in Seq(Char) |-> v \o Between(q, k) \o Expanded(q[k])]]
<1>1. m \in Nat /\ <<>> \in Seq(Char)
  BY DEF AllFit
<1>2. ASSUME NEW k \in 1..m, NEW v \in Seq(Char)
      PROVE  G[k][v] = v \o Between(q, k) \o Expanded(q[k]) /\ G[k][v] \in Seq(Char)
  <2>1. Between(q, k) \in Seq(Char) /\ Expanded(q[k]) \in Seq(Char)
    BY BetweenType
  <2>2. v \o Between(q, k) \in Seq(Char)
    BY <2>1, ConcatProperties
  <2>3. v \o Between(q, k) \o Expanded(q[k]) \in Seq(Char)
    BY <2>1, <2>2, ConcatProperties
  <2> QED BY <2>3
<1> HIDE DEF G
<1>3. PICK f \in [0..m -> Seq(Char)] : f[0] = <<>> /\ \A k \in 1..m : f[k] = G[k][f[k - 1]]
  <2>1. Ascent(m, Seq(Char), G)
    BY <1>2 DEF Ascent
  <2>2. \E f \in [0..m -> Seq(Char)] : Ascended(f, m, <<>>, G)
    BY <1>1, <2>1, Ascends
  <2> QED BY <2>2 DEF Ascended
<1>4. \A k \in 1..m : f[k] = f[k - 1] \o Between(q, k) \o Expanded(q[k])
  <2> TAKE k \in 1..m
  <2>1. k - 1 \in 0..m
    BY <1>1
  <2>2. f[k - 1] \in Seq(Char)
    BY <2>1
  <2> QED BY <1>2, <1>3, <2>2
<1> QED BY <1>3, <1>4 DEF Grows

(* Two histories begin with the same m searches. *)
Same(q, r, m) == \A k \in 1..m : q[k] = r[k]

LEMMA GrowsUnique ==
  ASSUME NEW q, NEW r, NEW m \in Nat, NEW f, NEW h, Grows(f, q, m), Grows(h, r, m),
         Same(q, r, m)
  PROVE  \A k \in 0..m : f[k] = h[k]
<1> DEFINE S == {k \in Nat : k <= m => f[k] = h[k]}
<1>1. 0 \in S
  BY DEF Grows
<1>2. ASSUME NEW k \in Nat, k \in S PROVE k + 1 \in S
  <2> SUFFICES ASSUME k + 1 <= m PROVE f[k + 1] = h[k + 1]
    OBVIOUS
  <2>1. k + 1 \in 1..m /\ (k + 1) - 1 = k /\ k <= m
    OBVIOUS
  <2>2. f[k] = h[k]
    BY <1>2, <2>1
  <2>3. q[k + 1] = r[k + 1]
    BY <2>1 DEF Same
  <2>4. k + 1 # 1 => q[k] = r[k]
    <3>1. k + 1 # 1 => k \in 1..m
      BY <2>1
    <3> QED BY <3>1 DEF Same
  <2>5. Between(q, k + 1) = Between(r, k + 1)
    BY <2>1, <2>3, <2>4 DEF Between
  <2>6. f[k + 1] = f[k] \o Between(q, k + 1) \o Expanded(q[k + 1])
    BY <2>1 DEF Grows
  <2>7. h[k + 1] = h[k] \o Between(r, k + 1) \o Expanded(r[k + 1])
    BY <2>1 DEF Grows
  <2> QED BY <2>2, <2>3, <2>5, <2>6, <2>7
<1> HIDE DEF S
<1>3. \A k \in Nat : k \in S
  BY <1>1, <1>2, Induction
<1> QED BY <1>3 DEF S

LEMMA GrowsTypes ==
  ASSUME NEW q, NEW m, AllFit(q, m), NEW g, Grows(g, q, m)
  PROVE  \A k \in 0..m : g[k] \in Seq(Char)
<1>1. PICK h : h \in [0..m -> Seq(Char)] /\ Grows(h, q, m)
  BY GrowsExists
<1>2. m \in Nat /\ Same(q, q, m)
  BY DEF AllFit, Same
<1>3. Grows(h, q, m)
  BY <1>1
<1>4. \A k \in 0..m : g[k] = h[k]
  BY <1>2, <1>3, GrowsUnique
<1> QED BY <1>1, <1>4

LEMMA RewrittenGrows ==
  ASSUME AllFit(searches, Changed)
  PROVE  /\ Grows(Rewritten, searches, Changed)
         /\ \A k \in 0..Changed : Rewritten[k] \in Seq(Char)
<1> DEFINE f == CHOOSE f :
                  f = [k \in 0..Changed |->
                         IF k = 0 THEN <<>>
                         ELSE f[k - 1] \o SubSeq(call.text, LastEnd(k - 1) + 1, searches[k].span[1])
                                       \o Expanded(searches[k])]
<1>1. Changed \in Nat
  BY DEF AllFit
<1>2. \A k \in 1..Changed :
        SubSeq(call.text, LastEnd(k - 1) + 1, searches[k].span[1]) = Between(searches, k)
  <2> TAKE k \in 1..Changed
  <2>1. k = 1 <=> k - 1 = 0
    BY <1>1
  <2> QED BY <2>1 DEF LastEnd, Between
<1>3. \E h : h = [k \in 0..Changed |->
                    IF k = 0 THEN <<>>
                    ELSE h[k - 1] \o SubSeq(call.text, LastEnd(k - 1) + 1, searches[k].span[1])
                                  \o Expanded(searches[k])]
  <2>1. PICK h \in [0..Changed -> Seq(Char)] : Grows(h, searches, Changed)
    BY GrowsExists
  <2>2. \A k \in 0..Changed : k # 0 => k \in 1..Changed
    BY <1>1
  <2>3. \A k \in 0..Changed :
          h[k] = IF k = 0 THEN <<>>
                 ELSE h[k - 1] \o SubSeq(call.text, LastEnd(k - 1) + 1, searches[k].span[1])
                               \o Expanded(searches[k])
    BY <1>2, <2>1, <2>2 DEF Grows
  <2> QED BY <2>3
<1>4. f = [k \in 0..Changed |->
             IF k = 0 THEN <<>>
             ELSE f[k - 1] \o SubSeq(call.text, LastEnd(k - 1) + 1, searches[k].span[1])
                           \o Expanded(searches[k])]
  BY <1>3, Zenon
<1>5. Rewritten = f
  BY Zenon DEF Rewritten
<1> HIDE DEF f
<1>6. Grows(f, searches, Changed)
  <2>1. f[0] = <<>>
    <3>1. 0 \in 0..Changed
      BY <1>1
    <3> QED BY <1>4, <3>1
  <2>2. ASSUME NEW k \in 1..Changed
        PROVE  f[k] = f[k - 1] \o Between(searches, k) \o Expanded(searches[k])
    <3>1. k \in 0..Changed /\ k # 0
      BY <1>1
    <3>2. f[k] = f[k - 1] \o SubSeq(call.text, LastEnd(k - 1) + 1, searches[k].span[1])
                          \o Expanded(searches[k])
      BY <1>4, <3>1
    <3> QED BY <1>2, <3>2
  <2> QED BY <2>1, <2>2 DEF Grows
<1>7. \A k \in 0..Changed : f[k] \in Seq(Char)
  <2>1. PICK g, q, m : g = f /\ q = searches /\ m = Changed
    OBVIOUS
  <2>2. AllFit(q, m) /\ Grows(g, q, m)
    BY <1>6, <2>1
  <2>3. \A k \in 0..m : g[k] \in Seq(Char)
    BY <2>2, GrowsTypes
  <2> QED BY <2>1, <2>3
<1> QED BY <1>5, <1>6, <1>7

LEMMA SameExpansion ==
  ASSUME call' = call, end' = end, NEW a
  PROVE  Expanded(a)' = Expanded(a)
BY DEF Expanded, Piece, Refers, Escapes, Referred, Group, IsDigit, rplc_len

LEMMA SameGrows ==
  ASSUME call' = call, end' = end, NEW q, NEW m, NEW f
  PROVE  (Grows(f, q, m)' <=> Grows(f, q, m)) /\ (AllFit(q, m)' <=> AllFit(q, m))
<1>1. ASSUME NEW k PROVE Between(q, k)' = Between(q, k) /\ Expanded(q[k])' = Expanded(q[k])
  BY SameExpansion DEF Between
<1>2. Grows(f, q, m)' <=> Grows(f, q, m)
  BY <1>1 DEF Grows
<1>3. AllFit(q, m)' <=> AllFit(q, m)
  BY DEF AllFit, Fitting, CallOK, Part
<1> QED BY <1>2, <1>3

(* Rewritten is what grows along the searches. *)
Known ==
  \A q, m, f : q = searches /\ m = Changed /\ f = Rewritten /\ AllFit(q, m) => Grows(f, q, m)

LEMMA RewrittenIs == Known
<1> SUFFICES ASSUME NEW q, NEW m, NEW f, q = searches, m = Changed, f = Rewritten, AllFit(q, m)
             PROVE  Grows(f, q, m)
  BY DEF Known
<1>1. AllFit(searches, Changed)
  OBVIOUS
<1>2. Grows(Rewritten, searches, Changed)
  BY <1>1, RewrittenGrows
<1> QED BY <1>2

LEMMA RewrittenThen ==
  ASSUME call' = call, end' = end, NEW q, NEW m, NEW f,
         q = searches', m = Changed', f = Rewritten', AllFit(q, m)
  PROVE  Grows(f, q, m)
<1>1. Known'
  BY RewrittenIs, PTL
<1>2. AllFit(q, m)'
  BY SameGrows
<1>3. Grows(f, q, m)'
  BY <1>1, <1>2 DEF Known
<1> QED BY <1>3, SameGrows

(***************************************************************************)
(* Histories.                                                               *)
(***************************************************************************)

(* Where the search after a match of s begins. *)
NextAfter(s) == IF s[1] = s[2] /\ s[2] < end THEN s[2] + 1 ELSE s[2]

Chain(q) ==
  \A k \in DOMAIN q : q[k].from = IF k = 1 THEN call.start ELSE NextAfter(q[k - 1].span)

(* The first m answers are the matches, and they are matches in the text. *)
Hits(q, m) ==
  /\ m \in 0..Len(q)
  /\ \A k \in DOMAIN q : q[k].answer = "match" <=> k <= m
  /\ \A k \in 1..m : q[k].span # <<>> /\ Part(q[k].span) /\ Part(q[k].group)

LEMMA HitsCounted ==
  ASSUME NEW q \in Seq(Answers), NEW m, Hits(q, m)
  PROVE  Cardinality({k \in DOMAIN q : q[k].answer = "match"}) = m
<1>1. m \in Nat /\ m <= Len(q) /\ Len(q) \in Nat /\ DOMAIN q = 1..Len(q)
  BY DEF Hits
<1>2. {k \in DOMAIN q : q[k].answer = "match"} = 1..m
  <2>1. \A k \in DOMAIN q : q[k].answer = "match" <=> k \in 1..m
    BY <1>1 DEF Hits
  <2>2. 1..m \subseteq DOMAIN q
    BY <1>1
  <2> QED BY <2>1, <2>2
<1>3. Cardinality(1..m) = m
  <2>1. 1 \in Int /\ m \in Int
    BY <1>1
  <2>2. Cardinality(1..m) = IF 1 > m THEN 0 ELSE m - 1 + 1
    BY <2>1, FS_Interval
  <2> QED BY <1>1, <2>2
<1> QED BY <1>2, <1>3

LEMMA HitsFit ==
  ASSUME CallOK, end = Len(call.text), NEW q, NEW m \in Nat, Hits(q, m)
  PROVE  AllFit(q, m)
BY DEF Hits, AllFit, Fitting

LEMMA ChangedIs ==
  ASSUME searches \in Seq(Answers), NEW m, Hits(searches, m)
  PROVE  Changed = m
<1>1. PICK q : q = searches
  OBVIOUS
<1>2. Cardinality({k \in DOMAIN q : q[k].answer = "match"}) = m
  BY <1>1, HitsCounted
<1> QED BY <1>1, <1>2 DEF Changed

LEMMA ChangedThen ==
  ASSUME searches' \in Seq(Answers), NEW q, q = searches', NEW m, Hits(q, m)
  PROVE  Changed' = m
<1>1. q \in Seq(Answers)
  OBVIOUS
<1>2. Cardinality({k \in DOMAIN q : q[k].answer = "match"}) = m
  BY <1>1, HitsCounted
<1> QED BY <1>2 DEF Changed

(* What is behind the k-th match of q. *)
EndOf(q, k) == IF k = 0 THEN 0 ELSE q[k].span[2]

(* The text of q up to its m-th match is f[m]; what it will be later. *)
LEMMA RewrittenNow ==
  ASSUME CallOK, end = Len(call.text), searches \in Seq(Answers), NEW m, Hits(searches, m)
  PROVE  /\ Grows(Rewritten, searches, m) /\ AllFit(searches, m) /\ Changed = m
         /\ Rewritten[m] \in Seq(Char)
<1>1. Changed = m
  BY ChangedIs
<1>2. m \in Nat
  BY DEF Hits
<1>3. AllFit(searches, m)
  BY <1>2 DEF Hits, AllFit, Fitting
<1>4. m \in 0..m
  BY <1>2
<1> QED BY <1>1, <1>3, <1>4, RewrittenGrows

(* The history goes on with the same matches. *)
LEMMA RewrittenSame ==
  ASSUME CallOK, end = Len(call.text), searches \in Seq(Answers), searches' \in Seq(Answers),
         call' = call, end' = end,
         NEW m, Hits(searches, m), NEW q, q = searches', Hits(q, m), Same(q, searches, m)
  PROVE  Changed' = m /\ Rewritten'[m] = Rewritten[m]
<1>1. Changed' = m
  BY ChangedThen
<1>2. m \in Nat /\ m \in 0..m
  BY DEF Hits
<1>3. PICK p, f, h : p = searches /\ f = Rewritten /\ h = Rewritten'
  OBVIOUS
<1>4. Grows(f, p, m)
  BY <1>3, RewrittenNow
<1>5. Grows(h, q, m)
  BY <1>1, <1>2, <1>3, HitsFit, RewrittenThen
<1>6. Same(q, p, m)
  BY <1>3
<1>7. \A k \in 0..m : h[k] = f[k]
  BY <1>2, <1>4, <1>5, <1>6, GrowsUnique
<1> QED BY <1>1, <1>2, <1>3, <1>7

(* The history goes on with one more match. *)
LEMMA RewrittenNext ==
  ASSUME CallOK, end = Len(call.text), searches \in Seq(Answers), searches' \in Seq(Answers),
         call' = call, end' = end,
         NEW m, Hits(searches, m), NEW q, q = searches', Hits(q, m + 1), Same(q, searches, m)
  PROVE  /\ Changed' = m + 1
         /\ Rewritten'[m + 1]
              = Rewritten[m] \o SubSeq(call.text, EndOf(searches, m) + 1, q[m + 1].span[1])
                             \o Expanded(q[m + 1])
<1>1. Changed' = m + 1
  BY ChangedThen
<1>2. m \in Nat /\ m \in 0..m /\ m + 1 \in Nat /\ m + 1 \in 1..(m + 1) /\ (m + 1) - 1 = m
  BY DEF Hits
<1>3. PICK p, f, h : p = searches /\ f = Rewritten /\ h = Rewritten'
  OBVIOUS
<1>4. Grows(f, p, m)
  BY <1>3, RewrittenNow
<1>5. Grows(h, q, m + 1)
  <2>1. AllFit(q, m + 1)
    BY <1>2, HitsFit
  <2> QED BY <1>1, <1>3, <2>1, RewrittenThen
<1>6. Same(q, p, m)
  BY <1>3
<1>7. Grows(h, q, m)
  <2>1. \A k \in 1..m : k \in 1..(m + 1)
    BY <1>2
  <2> QED BY <1>5, <2>1 DEF Grows
<1>8. \A k \in 0..m : h[k] = f[k]
  BY <1>2, <1>4, <1>6, <1>7, GrowsUnique
<1>9. h[m + 1] = h[m] \o Between(q, m + 1) \o Expanded(q[m + 1])
  BY <1>2, <1>5 DEF Grows
<1>10. h[m] = f[m]
  BY <1>2, <1>8
<1>11. Between(q, m + 1) = SubSeq(call.text, EndOf(p, m) + 1, q[m + 1].span[1])
  <2>1. CASE m = 0
    BY <1>2, <2>1 DEF Between, EndOf
  <2>2. CASE m # 0
    <3>1. m \in 1..m /\ m + 1 # 1
      BY <1>2, <2>2
    <3>2. q[m] = p[m]
      BY <1>6, <3>1 DEF Same
    <3> QED BY <1>2, <2>2, <3>1, <3>2 DEF Between, EndOf
  <2> QED BY <2>1, <2>2
<1> QED BY <1>1, <1>3, <1>9, <1>10, <1>11

(***************************************************************************)
(* The invariant: what a loop has written is the text up to its cursor,     *)
(* with the matches so far replaced.                                        *)
(***************************************************************************)
CallFits ==
  /\ call.op \in Ops /\ call.n \in Counts \cup {All} /\ call.backref \in BOOLEAN
  /\ call.op \in {"rm", "rmn"} => call.rplc = <<>>
  /\ call.op \in {"rm", "rplc"} => call.n = 1
  /\ call.backref => call.op = "rplcn"

InLoop == pc \in {"rmn", "rplcn"}

Chained ==
  /\ Chain(searches)
  /\ pc # "done" => Hits(searches, Len(searches))

Entering ==
  pc = "entry" =>
    /\ searches = <<>> /\ dst_s = 0
    /\ n = IF end = 0 /\ call.n # 0 THEN 1 ELSE call.n

(* How many matches a loop may still treat. *)
Counted ==
  InLoop =>
    /\ n \in Nat
    /\ IF call.n = All THEN n = All \/ end = 0
       ELSE /\ n + Len(searches) <= call.n
            /\ end # 0 => n + Len(searches) = call.n

(* Where the next search begins. *)
Resume == IF searches = <<>> THEN call.start ELSE NextAfter(searches[Len(searches)].span)

Resuming ==
  InLoop =>
    /\ i.src_e = Resume
    /\ EndOf(searches, Len(searches)) <= i.src
    /\ pc = "rmn" => dst_s = 0
    /\ pc = "rplcn" => (refs # <<>> <=> HasRefs)

Written ==
  Rewritten[Len(searches)] \o SubSeq(call.text, EndOf(searches, Len(searches)) + 1, i.src)

Standing == InLoop => i.dst = dst_s + Len(Written) /\ Holds(data, dst_s, Written)

RInv ==
  /\ CallFits /\ Chained /\ Entering /\ Counted /\ Resuming /\ Standing /\ Rewrites

(* The history after one more search. *)
Asks(p, q, m, from, ans, s, g) ==
  /\ Len(q) = m + 1 /\ Same(q, p, m)
  /\ q[m + 1].from = from /\ q[m + 1].answer = ans
  /\ q[m + 1].span = s /\ q[m + 1].group = g

LEMMA AskedThen ==
  ASSUME searches \in Seq(Answers), searches' \in Seq(Answers),
         NEW from, NEW ans, NEW s, NEW g, Asked(from, ans, s, g)
  PROVE  Asks(searches, searches', Len(searches), from, ans, s, g)
<1> DEFINE a == [from |-> from, notbol |-> NotBol(from), answer |-> ans, span |-> s, group |-> g]
<1>1. searches' = Append(searches, a)
  BY DEF Asked
<1>2. a.from = from /\ a.answer = ans /\ a.span = s /\ a.group = g
  OBVIOUS
<1> HIDE DEF a
<1>3. Len(searches) \in Nat /\ Len(searches') = Len(searches) + 1
  BY <1>1
<1>4. a \in Answers
  <2>1. searches'[Len(searches) + 1] = a
    BY <1>1, <1>3
  <2>2. Len(searches) + 1 \in 1..Len(searches')
    BY <1>3
  <2> QED BY <2>1, <2>2
<1>5. /\ \A k \in 1..Len(searches) : searches'[k] = searches[k]
      /\ searches'[Len(searches) + 1] = a
  BY <1>1, <1>4
<1> QED BY <1>2, <1>3, <1>5 DEF Asks, Same

LEMMA ChainGoesOn ==
  ASSUME NEW p \in Seq(Answers), NEW q \in Seq(Answers), Chain(p),
         NEW from, NEW ans, NEW s, NEW g, Asks(p, q, Len(p), from, ans, s, g),
         from = IF p = <<>> THEN call.start ELSE NextAfter(p[Len(p)].span)
  PROVE  Chain(q)
<1>1. PICK m \in Nat : m = Len(p)
  OBVIOUS
<1>2. DOMAIN p = 1..m /\ DOMAIN q = 1..(m + 1) /\ Same(q, p, m) /\ q[m + 1].from = from
  BY <1>1 DEF Asks
<1>3. m = 0 <=> p = <<>>
  BY <1>1, EmptySeq
<1> SUFFICES ASSUME NEW k \in 1..(m + 1)
             PROVE  q[k].from = IF k = 1 THEN call.start ELSE NextAfter(q[k - 1].span)
  BY <1>2 DEF Chain
<1>4. CASE k = m + 1
  <2>1. CASE m = 0
    BY <1>1, <1>2, <1>3, <1>4, <2>1
  <2>2. CASE m # 0
    <3>1. k # 1 /\ k - 1 = m /\ m \in 1..m
      BY <1>4, <2>2
    <3>2. q[k - 1] = p[m]
      BY <1>2, <3>1 DEF Same
    <3> QED BY <1>1, <1>2, <1>3, <1>4, <2>2, <3>1, <3>2
  <2> QED BY <2>1, <2>2
<1>5. CASE k # m + 1
  <2>1. k \in 1..m
    BY <1>5
  <2>2. q[k] = p[k]
    BY <1>2, <2>1 DEF Same
  <2>3. k # 1 => q[k - 1] = p[k - 1]
    <3>1. k # 1 => k - 1 \in 1..m
      BY <2>1
    <3> QED BY <1>2, <3>1 DEF Same
  <2> QED BY <1>2, <2>1, <2>2, <2>3 DEF Chain
<1> QED BY <1>4, <1>5

LEMMA HitsGoOn ==
  ASSUME NEW p \in Seq(Answers), NEW q \in Seq(Answers), Hits(p, Len(p)),
         NEW from, NEW ans, NEW s, NEW g, Asks(p, q, Len(p), from, ans, s, g),
         ans = "match" => s # <<>> /\ Part(s) /\ Part(g)
  PROVE  Hits(q, IF ans = "match" THEN Len(p) + 1 ELSE Len(p))
<1>1. PICK m \in Nat : m = Len(p)
  OBVIOUS
<1>2. /\ DOMAIN p = 1..m /\ DOMAIN q = 1..(m + 1) /\ Len(q) = m + 1 /\ Same(q, p, m)
      /\ q[m + 1].answer = ans /\ q[m + 1].span = s /\ q[m + 1].group = g
  BY <1>1 DEF Asks
<1>3. ASSUME NEW k \in 1..m
      PROVE  q[k].answer = "match" /\ q[k].span # <<>> /\ Part(q[k].span) /\ Part(q[k].group)
  <2>1. q[k] = p[k]
    BY <1>2 DEF Same
  <2>2. k <= m
    OBVIOUS
  <2> QED BY <1>1, <1>2, <2>1, <2>2 DEF Hits
<1>4. \A k \in 1..(m + 1) : k \in 1..m \/ k = m + 1
  OBVIOUS
<1>5. CASE ans = "match"
  <2>1. \A k \in 1..(m + 1) :
          q[k].answer = "match" /\ q[k].span # <<>> /\ Part(q[k].span) /\ Part(q[k].group)
    BY <1>2, <1>3, <1>4, <1>5
  <2>2. \A k \in 1..(m + 1) : k <= m + 1
    OBVIOUS
  <2>3. m + 1 \in 0..(m + 1)
    OBVIOUS
  <2> QED BY <1>1, <1>2, <1>5, <2>1, <2>2, <2>3 DEF Hits
<1>6. CASE ans # "match"
  <2>1. \A k \in 1..(m + 1) : q[k].answer = "match" <=> k <= m
    <3> TAKE k \in 1..(m + 1)
    <3>1. CASE k \in 1..m
      <4>1. k <= m
        BY <3>1
      <4> QED BY <1>3, <3>1, <4>1
    <3>2. CASE k = m + 1
      <4>1. ~(k <= m)
        BY <3>2
      <4> QED BY <1>2, <1>6, <3>2, <4>1
    <3> QED BY <1>4, <3>1, <3>2
  <2>2. m \in 0..(m + 1)
    OBVIOUS
  <2> QED BY <1>1, <1>2, <1>3, <1>6, <2>1, <2>2 DEF Hits
<1> QED BY <1>5, <1>6

LEMMA SameChain ==
  ASSUME call' = call, end' = end, NEW q
  PROVE  /\ Chain(q)' <=> Chain(q)
         /\ \A m : Hits(q, m)' <=> Hits(q, m)
BY DEF Chain, NextAfter, Hits, Part

(***************************************************************************)
(* What the block holds.                                                    *)
(***************************************************************************)

(* w is m from b on, for n bytes. *)
KeptOn(w, m, b, l) == \A k \in b..(b + l - 1) : w[k] = m[k]

LEMMA Extend ==
  ASSUME NEW m, NEW w, NEW b \in Nat, NEW s \in Seq(Char), NEW t \in Seq(Char),
         Holds(m, b, s), KeptOn(w, m, b, Len(s)), Holds(w, b + Len(s), t)
  PROVE  Holds(w, b, s \o t) /\ s \o t \in Seq(Char) /\ Len(s \o t) = Len(s) + Len(t)
<1>1. /\ s \o t \in Seq(Char) /\ Len(s \o t) = Len(s) + Len(t)
      /\ Len(s) \in Nat /\ Len(t) \in Nat
      /\ \A k \in 1..(Len(s) + Len(t)) :
           (s \o t)[k] = IF k <= Len(s) THEN s[k] ELSE t[k - Len(s)]
  BY ConcatProperties, LenProperties
<1>2. PICK x, y \in Nat : x = Len(s) /\ y = Len(t)
  BY <1>1
<1>3. ASSUME NEW k \in 1..(x + y) PROVE w[b + k - 1] = (s \o t)[k]
  <2>1. CASE k <= x
    <3>1. k \in 1..x /\ b + k - 1 \in b..(b + x - 1)
      BY <2>1
    <3>2. w[b + k - 1] = m[b + k - 1]
      BY <1>2, <3>1 DEF KeptOn
    <3>3. m[b + k - 1] = s[k]
      BY <1>2, <3>1 DEF Holds
    <3> QED BY <1>1, <1>2, <2>1, <3>2, <3>3
  <2>2. CASE ~(k <= x)
    <3>1. k - x \in 1..y /\ b + x + (k - x) - 1 = b + k - 1
      BY <2>2
    <3>2. w[b + x + (k - x) - 1] = t[k - x]
      BY <1>2, <3>1 DEF Holds
    <3> QED BY <1>1, <1>2, <2>2, <3>1, <3>2
  <2> QED BY <2>1, <2>2
<1> QED BY <1>1, <1>2, <1>3 DEF Holds

(* The text from x to y is where it was. *)
Source(m, x, y) == \A k \in x..(y - 1) : m[k] = call.text[k + 1]

(* w holds u at b, and differs from m in len bytes from d at most. *)
Behind(w, m, size_of, b, u, d, len) ==
  /\ w \in Block(size_of) /\ Holds(w, b, u)
  /\ \A k \in 0..(size_of - 1) : k < d \/ d + len <= k => w[k] = m[k]

(* The text from x to y is in the block m, at a. *)
LEMMA TextHeld ==
  ASSUME CallOK, NEW x \in Nat, NEW y \in Nat, x <= y, y <= Len(call.text),
         NEW m, NEW a \in Nat, \A k \in 0..(y - x - 1) : m[a + k] = call.text[x + k + 1]
  PROVE  Holds(m, a, SubSeq(call.text, x + 1, y))
<1> DEFINE t == SubSeq(call.text, x + 1, y)
<1>1. Len(t) = y - x /\ \A k \in 1..(y - x) : t[k] = call.text[x + k]
  BY TextCut
<1> HIDE DEF t
<1>2. ASSUME NEW k \in 1..(y - x) PROVE m[a + k - 1] = t[k]
  <2>1. k - 1 \in 0..(y - x - 1) /\ a + (k - 1) = a + k - 1 /\ x + (k - 1) + 1 = x + k
    OBVIOUS
  <2> QED BY <1>1, <2>1
<1> QED BY <1>1, <1>2 DEF Holds, t

(* d is right behind the string s that begins at b. *)
JustBehind(d, b, s) == d = b + Len(s)

(* The text from x to y is moved behind the string s. *)
LEMMA MovedBehind ==
  ASSUME CallOK, NEW c \in Nat, NEW m \in Block(c), NEW b \in Nat, NEW s \in Seq(Char),
         Holds(m, b, s), NEW d \in Nat, JustBehind(d, b, s),
         NEW x \in Nat, NEW y \in Nat, x <= y, y <= Len(call.text), y <= c, d + (y - x) <= c,
         Source(m, x, y)
  PROVE  /\ Behind(Move(m, d, x, y - x), m, c, b, s \o SubSeq(call.text, x + 1, y), d, y - x)
         /\ s \o SubSeq(call.text, x + 1, y) \in Seq(Char)
         /\ Len(s \o SubSeq(call.text, x + 1, y)) = Len(s) + (y - x)
<1> DEFINE t == SubSeq(call.text, x + 1, y)
           w == Move(m, d, x, y - x)
<1>1. PICK l \in Nat : l = y - x /\ x + l <= c /\ d + l <= c
  <2>1. y - x \in Nat /\ x + (y - x) = y
    OBVIOUS
  <2> QED BY <2>1
<1>2. w = Move(m, d, x, l)
  BY <1>1
<1> HIDE DEF w
<1>3. w \in Block(c)
  BY <1>1, <1>2, MoveType
<1>4. \A k \in 0..(c - 1) : w[k] = IF d <= k /\ k < d + l THEN m[k - d + x] ELSE m[k]
  BY <1>1, <1>2, MoveBytes
<1>5. Len(s) \in Nat
  OBVIOUS
<1>6. Holds(w, d, t)
  <2>1. ASSUME NEW k \in 0..(y - x - 1) PROVE w[d + k] = call.text[x + k + 1]
    <3>1. /\ d + k \in 0..(c - 1) /\ d <= d + k /\ d + k < d + l /\ (d + k) - d + x = x + k
          /\ x + k \in x..(y - 1) /\ (x + k) + 1 = x + k + 1
      BY <1>1
    <3> QED BY <1>4, <3>1 DEF Source
  <2> QED BY <2>1, TextHeld
<1>7. KeptOn(w, m, b, Len(s))
  <2>1. ASSUME NEW k \in b..(b + Len(s) - 1) PROVE w[k] = m[k]
    <3>1. k \in 0..(c - 1) /\ ~(d <= k)
      BY <1>1, <1>5 DEF JustBehind
    <3> QED BY <1>4, <3>1
  <2> QED BY <2>1 DEF KeptOn
<1>8. t \in Seq(Char) /\ Len(t) = y - x
  BY TextCut
<1> HIDE DEF t
<1>9. Holds(w, b, s \o t) /\ s \o t \in Seq(Char) /\ Len(s \o t) = Len(s) + Len(t)
  BY <1>6, <1>7, <1>8, Extend, SMTT(30) DEF JustBehind
<1>10. ASSUME NEW k \in 0..(c - 1), k < d \/ d + (y - x) <= k PROVE w[k] = m[k]
  <2>1. ~(d <= k /\ k < d + l)
    BY <1>1, <1>10
  <2> QED BY <1>4, <2>1
<1>11. Behind(w, m, c, b, s \o t, d, y - x)
  BY <1>3, <1>9, <1>10 DEF Behind
<1> QED BY <1>8, <1>9, <1>11 DEF w, t

(* t is copied behind the string s. *)
LEMMA CopiedBehind ==
  ASSUME NEW c \in Nat, NEW m \in Block(c), NEW b \in Nat, NEW s \in Seq(Char),
         Holds(m, b, s), NEW d \in Nat, d = b + Len(s), NEW t \in Seq(Char), d + Len(t) <= c
  PROVE  /\ Behind(Copy(m, d, t), m, c, b, s \o t, d, Len(t))
         /\ s \o t \in Seq(Char) /\ Len(s \o t) = Len(s) + Len(t)
<1> DEFINE w == Copy(m, d, t)
<1>1. PICK l \in Nat : l = Len(t)
  OBVIOUS
<1>2. w \in Block(c)
  BY CopyType
<1>3. \A k \in 0..(c - 1) : w[k] = IF d <= k /\ k < d + l THEN t[k - d + 1] ELSE m[k]
  BY <1>1, CopyByte
<1>4. Len(s) \in Nat
  OBVIOUS
<1> HIDE DEF w
<1>5. Holds(w, d, t)
  <2>1. ASSUME NEW k \in 1..l PROVE w[d + k - 1] = t[k]
    <3>1. /\ d + k - 1 \in 0..(c - 1) /\ d <= d + k - 1 /\ d + k - 1 < d + l
          /\ (d + k - 1) - d + 1 = k
      BY <1>1
    <3> QED BY <1>3, <3>1
  <2> QED BY <1>1, <2>1 DEF Holds
<1>6. KeptOn(w, m, b, Len(s))
  <2>1. ASSUME NEW k \in b..(b + Len(s) - 1) PROVE w[k] = m[k]
    <3>1. k \in 0..(c - 1) /\ ~(d <= k)
      BY <1>1, <1>4
    <3> QED BY <1>3, <3>1
  <2> QED BY <2>1 DEF KeptOn
<1>7. Holds(w, b, s \o t) /\ s \o t \in Seq(Char) /\ Len(s \o t) = Len(s) + Len(t)
  BY <1>5, <1>6, Extend
<1>8. ASSUME NEW k \in 0..(c - 1), k < d \/ d + Len(t) <= k PROVE w[k] = m[k]
  <2>1. ~(d <= k /\ k < d + l)
    BY <1>1, <1>8
  <2> QED BY <1>3, <2>1
<1> QED BY <1>2, <1>7, <1>8 DEF w, Behind

(* The rest of the text is moved behind the string s and terminated. *)
LEMMA ClosedBehind ==
  ASSUME CallOK, NEW c \in Nat, NEW m \in Block(c), NEW b \in Nat, NEW s \in Seq(Char),
         Holds(m, b, s), NEW d \in Nat, d = b + Len(s),
         NEW x \in Nat, NEW y \in Nat, x <= y, y <= Len(call.text), y <= c, d + (y - x) < c,
         Source(m, x, y)
  PROVE  LET t == SubSeq(call.text, x + 1, y)
             w == StrMove(m, d, x, y - x)
         IN  /\ Holds(w, b, s \o t) /\ w[d + (y - x)] = NUL
             /\ s \o t \in Seq(Char) /\ Len(s \o t) = Len(s) + (y - x)
<1> DEFINE t == SubSeq(call.text, x + 1, y)
           v == Move(m, d, x, y - x)
           w == StrMove(m, d, x, y - x)
<1>1. d + (y - x) <= c
  OBVIOUS
<1>2. /\ Behind(v, m, c, b, s \o t, d, y - x)
      /\ s \o t \in Seq(Char) /\ Len(s \o t) = Len(s) + (y - x)
  BY <1>1, MovedBehind DEF JustBehind
<1>3. PICK l \in Nat : l = y - x /\ d + l < c /\ Len(s \o t) = Len(s) + l /\ x + l <= c
  <2>1. y - x \in Nat /\ x + (y - x) = y
    OBVIOUS
  <2> HIDE DEF t
  <2> QED BY <1>2, <2>1
<1>4. Len(s) \in Nat
  OBVIOUS
<1>5. w = Fill(v, d + l, NUL, 1) /\ w = StrMove(m, d, x, l)
  BY <1>3 DEF StrMove
<1> HIDE DEF w, v, t
<1>6. w[d + l] = NUL
  BY <1>3, <1>5, StrMoveEnds, SMTT(30)
<1>7. \A k \in 0..(c - 1) : w[k] = IF d + l <= k /\ k < d + l + 1 THEN NUL ELSE v[k]
  BY <1>2, <1>5, FillByte, SMTT(30) DEF Behind
<1>8. ASSUME NEW k \in 1..(Len(s) + l) PROVE w[b + k - 1] = (s \o t)[k]
  <2>1. b + k - 1 \in 0..(c - 1) /\ ~(d + l <= b + k - 1)
    BY <1>3, <1>4
  <2>2. w[b + k - 1] = v[b + k - 1]
    BY <1>7, <2>1
  <2> QED BY <1>2, <1>3, <2>2 DEF Holds, Behind
<1>9. Holds(w, b, s \o t)
  BY <1>3, <1>8 DEF Holds
<1> QED BY <1>2, <1>3, <1>6, <1>9 DEF w, t

(* A string is moved down to the beginning of the block and terminated. *)
LEMMA ClosedAtFront ==
  ASSUME NEW c \in Nat, NEW m \in Block(c), NEW b \in Nat, NEW s \in Seq(Char),
         Holds(m, b, s), b + Len(s) <= c, Len(s) < c
  PROVE  LET w == StrMove(m, 0, b, Len(s))
         IN  Holds(w, 0, s) /\ w[Len(s)] = NUL
<1> DEFINE w == StrMove(m, 0, b, Len(s))
<1>1. PICK l \in Nat : l = Len(s) /\ b + l <= c /\ l < c
  OBVIOUS
<1>2. 0 \in Nat
  OBVIOUS
<1>3. w = StrMove(m, 0, b, l)
  BY <1>1
<1> HIDE DEF w
<1>4. \A k \in 0..(c - 1) :
        w[k] = IF k = 0 + l THEN NUL
               ELSE IF 0 <= k /\ k < 0 + l THEN m[k - 0 + b] ELSE m[k]
  <2> TAKE k \in 0..(c - 1)
  <2>1. PICK z \in Nat : z = 0
    OBVIOUS
  <2>2. b \in Nat /\ l \in Nat /\ b + l <= c /\ c \in Nat /\ m \in Block(c)
    BY <1>1
  <2>3. StrMove(m, z, b, l)[k] = IF k = z + l THEN NUL
                                 ELSE IF z <= k /\ k < z + l THEN m[k - z + b] ELSE m[k]
    BY <2>2, StrMoveByte
  <2> QED BY <1>3, <2>1, <2>3
<1>5. w[l] = NUL
  <2>1. l \in 0..(c - 1) /\ l = 0 + l
    BY <1>1
  <2> QED BY <1>4, <2>1
<1>6. ASSUME NEW k \in 1..l PROVE w[0 + k - 1] = s[k]
  <2>1. /\ 0 + k - 1 \in 0..(c - 1) /\ 0 + k - 1 # 0 + l /\ 0 <= 0 + k - 1 /\ 0 + k - 1 < 0 + l
        /\ (0 + k - 1) - 0 + b = b + k - 1
    BY <1>1
  <2>2. w[0 + k - 1] = m[b + k - 1]
    BY <1>4, <2>1
  <2> QED BY <1>1, <2>2 DEF Holds
<1> QED BY <1>1, <1>5, <1>6 DEF Holds, w

(***************************************************************************)
(* How a call ends.                                                         *)
(***************************************************************************)

LEMMA TextJoined ==
  ASSUME CallOK, NEW r \in Seq(Char), NEW x \in Nat, NEW y \in Nat, NEW z \in Nat,
         x <= y, y <= z, z <= Len(call.text)
  PROVE  /\ r \o SubSeq(call.text, x + 1, z)
              = (r \o SubSeq(call.text, x + 1, y)) \o SubSeq(call.text, y + 1, z)
         /\ r \o SubSeq(call.text, x + 1, y) \in Seq(Char)
<1>1. PICK t : t = call.text
  OBVIOUS
<1>2. t \in Seq(Char) /\ Len(t) \in Nat /\ z <= Len(t)
  BY <1>1, Lengths DEF CallOK
<1>3. /\ x + 1 \in 1..(Len(t) + 1) /\ y \in ((x + 1) - 1)..Len(t) /\ z \in y..Len(t)
  BY <1>2
<1>4. SubSeq(t, x + 1, y) \o SubSeq(t, y + 1, z) = SubSeq(t, x + 1, z)
  BY <1>2, <1>3, ConcatAdjacentSubSeq
<1>5. SubSeq(t, x + 1, y) \in Seq(Char)
  <2>1. y <= Len(call.text)
    BY <1>1, <1>2
  <2> QED BY <1>1, <2>1, TextCut
<1>6. SubSeq(t, y + 1, z) \in Seq(Char)
  BY <1>1, TextCut
<1>7. PICK u, v \in Seq(Char) : u = SubSeq(t, x + 1, y) /\ v = SubSeq(t, y + 1, z)
  BY <1>5, <1>6
<1>8. (r \o u) \o v = r \o (u \o v)
  BY ConcatAssociative, SMTT(30)
<1>9. r \o u \in Seq(Char)
  BY ConcatProperties
<1> QED BY <1>1, <1>4, <1>7, <1>8, <1>9

LEMMA Finish ==
  ASSUME CallOK, CallFits, end = Len(call.text), call' = call, end' = end, pc' = "done",
         NEW q \in Seq(Answers), q = searches', Chain(q), NEW m, Hits(q, m), ret' = m,
         NEW w \in Seq(Char), w = Rewritten'[m] \o SubSeq(call.text, EndOf(q, m) + 1, end),
         Holds(data', 0, w), data'[Len(w)] = NUL, size' = Len(w),
         call.n # All => m <= call.n,
         \/ call.start # 0 /\ call.start >= end
         \/ m = call.n
         \/ i'.src_e = end
         \/ q[Len(q)].answer = "nomatch"
  PROVE  RInv'
<1>1. Changed' = m
  BY ChangedThen
<1>2. m \in Nat /\ \A k \in 1..m : k \in DOMAIN q /\ q[k].answer = "match"
  BY DEF Hits
<1>3. Prefix(data', Len(w)) = w
  <2>1. PICK d : d = data'
    OBVIOUS
  <2>2. \A k \in 1..Len(w) : d[k - 1] = w[k]
    <3> TAKE k \in 1..Len(w)
    <3>1. d[0 + k - 1] = w[k]
      BY <2>1 DEF Holds
    <3>2. 0 + k - 1 = k - 1
      OBVIOUS
    <3> QED BY <3>1, <3>2
  <2>3. Prefix(d, Len(w)) = w
    BY <2>2, PrefixIs
  <2> QED BY <2>1, <2>3
<1>4. Expected' = w
  <2>1. LastEnd(Changed)' = EndOf(q, m)
    BY <1>1 DEF LastEnd, EndOf
  <2> QED BY <1>1, <2>1 DEF Expected
<1>5. \A k \in DOMAIN searches' :
        searches'[k].from = IF k = 1 THEN call'.start ELSE NextFrom(k - 1)'
  BY DEF Chain, NextFrom, NextAfter
<1>6. Rewrites'
  BY <1>1, <1>2, <1>3, <1>4, <1>5 DEF Rewrites
<1>7. CallFits' /\ Chained'
  BY SameChain DEF CallFits, Chained, Chain, NextAfter
<1> QED BY <1>6, <1>7 DEF RInv, Entering, Counted, Resuming, Standing, InLoop

(* A call that fails owes nothing. *)
LEMMA GivesUp ==
  ASSUME CallFits, call' = call, end' = end, pc' = "done", Chain(searches'), ~(ret' >= 0)
  PROVE  RInv'
<1>1. CallFits' /\ Chained'
  BY DEF CallFits, Chained, Chain, NextAfter
<1> QED BY <1>1 DEF RInv, Entering, Counted, Resuming, Standing, InLoop, Rewrites

(* A call in which nothing was searched leaves the text. *)
LEMMA Begins ==
  ASSUME IInv, RInv, pc = "entry"
  PROVE  /\ searches = <<>> /\ Hits(searches, 0) /\ Chain(searches) /\ searches \in Seq(Answers)
         /\ Rewritten[0] = <<>> /\ Changed = 0 /\ Len(searches) = 0
<1>1. searches = <<>> /\ Chain(searches) /\ searches \in Seq(Answers)
  BY DEF RInv, Entering, Chained, IInv, Typed
<1>2. Len(searches) = 0 /\ DOMAIN searches = {}
  BY <1>1
<1>3. Hits(searches, 0)
  BY <1>2 DEF Hits
<1>4. Grows(Rewritten, searches, 0) /\ Changed = 0
  BY <1>1, <1>3, Basics, RewrittenNow
<1> QED BY <1>1, <1>2, <1>3, <1>4 DEF Grows

LEMMA CountType == ASSUME CallFits PROVE call.n \in Nat /\ (call.n # All => call.n < All) /\ 1 < All /\ All \in Nat
BY CountsAssumption, AllAssumption DEF CallFits

LEMMA Whole ==
  ASSUME CallOK, end = Len(call.text), Intact(0), data[end] = NUL
  PROVE  /\ call.text = <<>> \o SubSeq(call.text, 0 + 1, end) /\ call.text \in Seq(Char)
         /\ Holds(data, 0, call.text)
<1>1. PICK t : t = call.text
  OBVIOUS
<1>2. t \in Seq(Char) /\ Len(t) \in Nat /\ end = Len(t)
  BY <1>1, Lengths DEF CallOK
<1>3. SubSeq(t, 1, Len(t)) = t
  BY <1>2, SubSeqFull
<1>4. <<>> \o t = t
  BY <1>2, ConcatEmptySeq
<1>5. \A k \in 1..Len(t) : data[0 + k - 1] = t[k]
  <2> TAKE k \in 1..Len(t)
  <2>1. 0 + k - 1 \in 0..(end - 1) /\ (0 + k - 1) + 1 = k
    BY <1>2
  <2> QED BY <1>1, <2>1 DEF Intact
<1> QED BY <1>1, <1>2, <1>3, <1>4, <1>5 DEF Holds

(* The search a call is about to ask for. *)
LEMMA AsksOn ==
  ASSUME IInv, RInv, pc # "done", searches' \in Seq(Answers),
         NEW ans, NEW s, NEW g, Asked(Resume, ans, s, g),
         ans = "match" => s # <<>> /\ Part(s) /\ Part(g)
  PROVE  /\ Asks(searches, searches', Len(searches), Resume, ans, s, g)
         /\ Chain(searches')
         /\ Hits(searches', IF ans = "match" THEN Len(searches) + 1 ELSE Len(searches))
<1>1. searches \in Seq(Answers) /\ Chain(searches) /\ Hits(searches, Len(searches))
  BY DEF IInv, Typed, RInv, Chained
<1>2. PICK p, q \in Seq(Answers) : p = searches /\ q = searches'
  BY <1>1
<1>3. Asks(p, q, Len(p), Resume, ans, s, g)
  BY <1>1, <1>2, AskedThen
<1>4. PICK from : from = Resume
  OBVIOUS
<1>5. from = IF p = <<>> THEN call.start ELSE NextAfter(p[Len(p)].span)
  BY <1>2, <1>4 DEF Resume
<1>6. Asks(p, q, Len(p), from, ans, s, g) /\ Chain(p) /\ Hits(p, Len(p))
  BY <1>1, <1>2, <1>3, <1>4
<1>7. Chain(q)
  BY <1>5, <1>6, ChainGoesOn
<1>8. Hits(q, IF ans = "match" THEN Len(p) + 1 ELSE Len(p))
  BY <1>6, HitsGoOn
<1> QED BY <1>2, <1>3, <1>7, <1>8

LEMMA FirstResume == ASSUME RInv, pc = "entry" PROVE Resume = call.start
BY DEF RInv, Entering, Resume

(* A call that ends with the string as it was, and nothing found. *)
LEMMA LeavesText ==
  ASSUME IInv, RInv, pc = "entry", call' = call, end' = end, i' = i, Unchanged(0), size = end,
         NEW q \in Seq(Answers), q = searches', Chain(q), Hits(q, 0),
         \/ call.start # 0 /\ call.start >= end
         \/ 0 = call.n
         \/ q[Len(q)].answer = "nomatch"
  PROVE  RInv'
<1>1. /\ searches = <<>> /\ Hits(searches, 0) /\ Chain(searches) /\ searches \in Seq(Answers)
      /\ Rewritten[0] = <<>> /\ Changed = 0
  BY Begins
<1>2. CallOK /\ end = Len(call.text) /\ CallFits /\ Intact(0) /\ data[end] = NUL
  BY DEF IInv, RInv, Kept, AtEntry
<1>3. data' = data /\ size' = size /\ pc' = "done" /\ ret' = 0
  BY DEF Unchanged, Done, string
<1>4. Rewritten'[0] = <<>>
  <2>1. Same(q, searches, 0)
    BY DEF Same
  <2> QED BY <1>1, <1>2, <2>1, RewrittenSame
<1>5. /\ call.text = <<>> \o SubSeq(call.text, 0 + 1, end) /\ call.text \in Seq(Char)
      /\ Holds(data, 0, call.text)
  BY <1>2, Whole
<1>6. PICK w \in Seq(Char) : w = call.text
  BY <1>5
<1>7. w = Rewritten'[0] \o SubSeq(call.text, EndOf(q, 0) + 1, end)
  BY <1>4, <1>5, <1>6 DEF EndOf
<1>8. Holds(data', 0, w) /\ data'[Len(w)] = NUL /\ size' = Len(w)
  BY <1>2, <1>3, <1>5, <1>6
<1>9. call.n # All => 0 <= call.n
  BY <1>2, CountType
<1> QED BY <1>2, <1>3, <1>7, <1>8, <1>9, Finish

LEMMA NothingRewrites == ASSUME IInv, RInv, Nothing PROVE RInv'
<1>1. /\ pc = "entry" /\ (TooFar \/ n = 0) /\ Unchanged(0)
      /\ call' = call /\ end' = end /\ i' = i /\ searches' = searches
  BY DEF Nothing, loop
<1>2. PICK q : q = searches'
  OBVIOUS
<1>3. q \in Seq(Answers) /\ Chain(q) /\ Hits(q, 0)
  BY <1>1, <1>2, Begins
<1>4. size = end
  BY <1>1 DEF IInv, Kept
<1>5. TooFar => call.start # 0 /\ call.start >= end
  BY <1>4, Basics DEF TooFar
<1>6. n = 0 => 0 = call.n
  <2>1. n = IF end = 0 /\ call.n # 0 THEN 1 ELSE call.n
    BY <1>1 DEF RInv, Entering
  <2> QED BY <2>1
<1> QED BY <1>1, <1>2, <1>3, <1>4, <1>5, <1>6, LeavesText

(* A call for one match that finds none. *)
LEMMA OneMissing ==
  ASSUME IInv, RInv, Called, UNCHANGED <<call, loop>>, searches' \in Seq(Answers),
         NotFound(call.start), Unchanged(0)
  PROVE  RInv'
<1>1. pc = "entry" /\ call' = call /\ end' = end /\ i' = i /\ size = end
  BY DEF Called, loop, IInv, Kept
<1>2. Asked(Resume, "nomatch", <<>>, <<>>)
  BY <1>1, FirstResume DEF NotFound
<1>3. PICK q \in Seq(Answers) : q = searches'
  OBVIOUS
<1>4. /\ Asks(searches, searches', Len(searches), Resume, "nomatch", <<>>, <<>>)
      /\ Chain(searches') /\ Hits(searches', Len(searches))
  BY <1>1, <1>2, AsksOn
<1>5. Len(searches) = 0
  BY <1>1, Begins
<1>6. Hits(q, 0) /\ Chain(q) /\ Len(q) = 1 /\ q[1].answer = "nomatch"
  BY <1>3, <1>4, <1>5 DEF Asks
<1> QED BY <1>1, <1>3, <1>6, LeavesText

(* A call in which a search fails. *)
LEMMA SearchFails ==
  ASSUME IInv, RInv, pc # "done", call' = call, end' = end, searches' \in Seq(Answers),
         ExecFails(Resume), Unchanged(ExecError)
  PROVE  RInv'
<1>1. Chain(searches')
  BY AsksOn DEF ExecFails
<1>2. pc' = "done" /\ ~(ret' >= 0) /\ CallFits
  BY DEF Unchanged, Done, ExecError, RInv
<1> QED BY <1>1, <1>2, GivesUp

(***************************************************************************)
(* One match.                                                               *)
(***************************************************************************)

(* The text up to y, as Rewritten has it. *)
Front(y) == <<>> \o SubSeq(call.text, 0 + 1, y)

LEMMA FrontHeld ==
  ASSUME CallOK, NEW y \in Nat, y <= Len(call.text), NEW m, Source(m, 0, y)
  PROVE  Holds(m, 0, Front(y)) /\ Front(y) \in Seq(Char) /\ Len(Front(y)) = y
<1>1. PICK z \in Nat : z = 0
  OBVIOUS
<1>2. PICK t : t = SubSeq(call.text, z + 1, y)
  OBVIOUS
<1>3. t \in Seq(Char) /\ Len(t) = y
  <2>1. SubSeq(call.text, z + 1, y) \in Seq(Char) /\ Len(SubSeq(call.text, z + 1, y)) = IF z <= y THEN y - z ELSE 0
    BY TextCut
  <2>2. (IF z <= y THEN y - z ELSE 0) = y
    BY <1>1
  <2> QED BY <1>2, <2>1, <2>2
<1>4. Front(y) = t
  <2>1. <<>> \o t = t
    BY <1>3, ConcatEmptySeq
  <2> QED BY <1>1, <1>2, <2>1 DEF Front
<1>5. Holds(m, z, t)
  <2>1. \A k \in 0..(y - z - 1) : m[z + k] = call.text[z + k + 1]
    <3> TAKE k \in 0..(y - z - 1)
    <3>1. k \in 0..(y - 1) /\ z + k = k
      BY <1>1
    <3> QED BY <3>1 DEF Source
  <2>2. z <= y
    BY <1>1
  <2> QED BY <1>2, <2>1, <2>2, TextHeld
<1> QED BY <1>1, <1>3, <1>4, <1>5

(* w is the string u of n characters. *)
Terminated(w, u, len) == Holds(w, 0, u) /\ u \in Seq(Char) /\ Len(u) = len /\ w[len] = NUL

(* r is written between the parts of the text before x and after y. *)
LEMMA Spliced ==
  ASSUME CallOK, NEW c \in Nat, NEW v \in Block(c), NEW x \in Nat, NEW y \in Nat, y <= Len(call.text),
         x <= y, NEW r \in Seq(Char), Source(v, 0, x), NEW z \in Nat, y + z = Len(call.text),
         x + Len(r) + z < c,
         \A k \in 0..(z - 1) : v[x + Len(r) + k] = call.text[y + k + 1],
         v[x + Len(r) + z] = NUL
  PROVE  Terminated(Copy(v, x, r), (Front(x) \o r) \o SubSeq(call.text, y + 1, Len(call.text)),
                    x + Len(r) + z)
<1> DEFINE w == Copy(v, x, r)
           t == SubSeq(call.text, y + 1, Len(call.text))
           s == Front(x)
<1>1. Len(call.text) \in Nat /\ x <= Len(call.text)
  BY Lengths
<1>0. /\ x + Len(r) \in Nat /\ x + Len(r) <= c
      /\ x + Len(r) + z \in 0..(c - 1) /\ x + Len(r) <= x + Len(r) + z
      /\ \A k \in 0..(z - 1) : x + Len(r) + k \in 0..(c - 1) /\ x + Len(r) <= x + Len(r) + k
  <2>1. \A a, b, g, f \in Nat : a + b + g < f =>
          /\ a + b \in Nat /\ a + b <= f
          /\ a + b + g \in 0..(f - 1) /\ a + b <= a + b + g
          /\ \A k \in 0..(g - 1) : a + b + k \in 0..(f - 1) /\ a + b <= a + b + k
    OBVIOUS
  <2>2. Len(r) \in Nat
    OBVIOUS
  <2> QED BY <2>1, <2>2, Zenon
<1>2. Holds(v, 0, s) /\ s \in Seq(Char) /\ Len(s) = x
  BY <1>1, FrontHeld
<1>3. t \in Seq(Char) /\ Len(t) = z
  <2>1. Len(call.text) \in Nat /\ Len(call.text) <= Len(call.text)
    BY <1>1
  <2>2. t \in Seq(Char) /\ Len(t) = IF y <= Len(call.text) THEN Len(call.text) - y ELSE 0
    BY <2>1, TextCut
  <2>3. Len(call.text) - y = z
    BY <2>1
  <2> QED BY <2>2, <2>3
<1> HIDE DEF s, t
<1>4. /\ Behind(w, v, c, 0, s \o r, x, Len(r))
      /\ s \o r \in Seq(Char) /\ Len(s \o r) = Len(s) + Len(r)
  <2>1. PICK b \in Nat : b = 0 /\ Holds(v, b, s) /\ x = b + Len(s)
    BY <1>2
  <2>2. x + Len(r) <= c
    BY <1>0
  <2>3. Behind(w, v, c, b, s \o r, x, Len(r))
    BY <1>2, <2>1, <2>2, CopiedBehind
  <2>4. s \o r \in Seq(Char) /\ Len(s \o r) = Len(s) + Len(r)
    BY <1>2, <2>1, <2>2, CopiedBehind, SMTT(30)
  <2> QED BY <2>1, <2>3, <2>4
<1> HIDE DEF w
<1>5. PICK d \in Nat : d = x + Len(r)
  BY <1>0
<1>6. \A k \in 0..(c - 1) : d <= k => w[k] = v[k]
  BY <1>4, <1>5 DEF Behind
<1>7. Holds(w, d, t)
  <2>1. \A k \in 0..(z - 1) : w[d + k] = call.text[y + k + 1]
    <3> TAKE k \in 0..(z - 1)
    <3>1. d + k \in 0..(c - 1) /\ d <= d + k
      BY <1>0, <1>5
    <3> QED BY <1>5, <1>6, <3>1
  <2>2. z = Len(call.text) - y /\ Len(call.text) <= Len(call.text)
    BY <1>1
  <2>3. \A k \in 0..(Len(call.text) - y - 1) : w[d + k] = call.text[y + k + 1]
    BY <2>1, <2>2
  <2>4. Holds(w, d, SubSeq(call.text, y + 1, Len(call.text)))
    BY <1>1, <2>2, <2>3, TextHeld
  <2> QED BY <2>4 DEF t
<1>8. w[d + z] = NUL
  <2>1. d + z \in 0..(c - 1) /\ d <= d + z
    BY <1>0, <1>5
  <2> QED BY <1>5, <1>6, <2>1
<1>9. PICK a \in Seq(Char) : a = s \o r
  BY <1>4
<1>10. Len(a) = d /\ Holds(w, 0, a)
  BY <1>2, <1>4, <1>5, <1>9 DEF Behind
<1>11. /\ Holds(w, 0, a \o t) /\ a \o t \in Seq(Char) /\ Len(a \o t) = Len(a) + Len(t)
  <2>1. PICK b \in Nat : b = 0 /\ Holds(w, b, a) /\ Holds(w, b + Len(a), t)
    <3>1. 0 + d = d
      OBVIOUS
    <3> QED BY <1>7, <1>10, <3>1
  <2>2. KeptOn(w, w, b, Len(a))
    BY DEF KeptOn
  <2>3. PICK e \in Seq(Char) : e = t
    BY <1>3
  <2>4. Holds(w, b, a \o e)
    BY <2>1, <2>2, <2>3, Extend
  <2>5. a \o e \in Seq(Char) /\ Len(a \o e) = Len(a) + Len(e)
    BY ConcatProperties
  <2> QED BY <2>1, <2>3, <2>4, <2>5
<1> QED BY <1>3, <1>5, <1>8, <1>9, <1>10, <1>11 DEF Terminated, w, t, s

(* A call in which one match of s was replaced with r. *)
LEMMA OneMatch ==
  ASSUME IInv, RInv, Called, call' = call, end' = end, i' = i, searches' \in Seq(Answers),
         NEW s \in Spans(call.start, end), Found(call.start, s, <<>>), Done(1),
         n = 1 \/ call.n = 1,
         NEW r, \A a : Fitting(a) => Expanded(a) = r,
         NEW w \in Seq(Char), w = (Front(s[1]) \o r) \o SubSeq(call.text, s[2] + 1, end),
         Holds(data', 0, w), data'[Len(w)] = NUL, size' = Len(w)
  PROVE  RInv'
<1>1. pc = "entry" /\ n # 0 /\ CallOK /\ CallFits /\ end = Len(call.text) /\ pc' = "done" /\ ret' = 1
  BY Basics DEF Called, Done, RInv
<1>2. call.start <= end /\ i.src_e = call.start /\ call.start \in Nat /\ end \in Nat
  BY <1>1, AtStart, Basics DEF Called
<1>3. Part(s) /\ Part(<<>>) /\ s # <<>>
  <2>1. Part(s)
    BY <1>2, NoGroup, MatchIsPart
  <2>2. s = <<s[1], s[2]>>
    BY <1>2, SpanBounds
  <2>3. PICK x, y : s = <<x, y>>
    BY <2>2
  <2>4. <<x, y>> # <<>>
    OBVIOUS
  <2> QED BY <2>1, <2>3, <2>4 DEF Part
<1>4. Asked(Resume, "match", s, <<>>)
  BY <1>1, FirstResume DEF Found
<1>5. PICK q \in Seq(Answers) : q = searches'
  OBVIOUS
<1>6. Len(searches) = 0 /\ Hits(searches, 0) /\ Rewritten[0] = <<>> /\ searches \in Seq(Answers)
  BY <1>1, Begins
<1>7. /\ Asks(searches, searches', Len(searches), Resume, "match", s, <<>>)
      /\ Chain(searches') /\ Hits(searches', Len(searches) + 1)
  BY <1>1, <1>3, <1>4, AsksOn
<1>8. /\ Chain(q) /\ Hits(q, 0 + 1) /\ Same(q, searches, 0)
      /\ q[0 + 1].span = s /\ q[0 + 1].group = <<>>
  BY <1>5, <1>6, <1>7 DEF Asks
<1>9. Rewritten'[0 + 1] = Rewritten[0] \o SubSeq(call.text, EndOf(searches, 0) + 1, q[0 + 1].span[1])
                                       \o Expanded(q[0 + 1])
  <2>1. PICK m : m = 0
    OBVIOUS
  <2>2. Hits(searches, m) /\ Hits(q, m + 1) /\ Same(q, searches, m)
    BY <1>6, <1>8, <2>1
  <2>3. Rewritten'[m + 1] = Rewritten[m] \o SubSeq(call.text, EndOf(searches, m) + 1, q[m + 1].span[1])
                                         \o Expanded(q[m + 1])
    BY <1>1, <1>5, <1>6, <2>2, RewrittenNext
  <2> QED BY <2>1, <2>3
<1>10. Fitting(q[0 + 1])
  BY <1>1, <1>3, <1>8 DEF Fitting
<1>11. Rewritten'[1] = Front(s[1]) \o r
  <2>1. Expanded(q[0 + 1]) = r
    BY <1>10
  <2>2. Rewritten'[0 + 1] = (<<>> \o SubSeq(call.text, 0 + 1, s[1])) \o r
    BY <1>6, <1>8, <1>9, <2>1 DEF EndOf
  <2>3. 0 + 1 = 1
    OBVIOUS
  <2> QED BY <2>2, <2>3 DEF Front
<1>12. Hits(q, 1) /\ q[1].span = s
  <2>1. 0 + 1 = 1
    OBVIOUS
  <2> QED BY <1>8, <2>1
<1>13. w = Rewritten'[1] \o SubSeq(call.text, EndOf(q, 1) + 1, end)
  BY <1>11, <1>12 DEF EndOf
<1>14. n = IF end = 0 /\ call.n # 0 THEN 1 ELSE call.n
  BY <1>1 DEF RInv, Entering
<1>15. call.n # All => 1 <= call.n
  <2>1. call.n \in Nat /\ call.n # 0
    BY <1>1, <1>14, CountType
  <2> QED BY <2>1
<1>16. 1 = call.n \/ i'.src_e = end
  <2>1. CASE end = 0
    BY <1>2, <2>1
  <2>2. CASE end # 0
    BY <1>14, <2>2
  <2> QED BY <2>1, <2>2
<1> QED BY <1>1, <1>5, <1>8, <1>12, <1>13, <1>15, <1>16, Finish

(* A removal replaces with nothing. *)
LEMMA RemovesAll ==
  ASSUME IInv, RInv, Removing PROVE \A a : Fitting(a) => Expanded(a) = <<>>
<1>1. call.rplc = <<>>
  <2>1. CASE call.op \in {"rm", "rmn"}
    BY <2>1 DEF RInv, CallFits
  <2>2. CASE rplc_len = 0
    BY <2>2, Basics, EmptySeq
  <2> QED BY <2>1, <2>2 DEF Removing
<1>2. call.backref => RefFirst = 0
  <2>1. rplc_len = 0
    BY <1>1, Basics
  <2> QED BY <2>1 DEF RefFirst
<1> QED BY <1>1, <1>2, ExpandedPlain

LEMMA RmOneRewrites == ASSUME IInv, RInv, RmOne, searches' \in Seq(Answers) PROVE RInv'
<1>1. Called /\ pc = "entry" /\ ~TooFar /\ n = 1 /\ Removing /\ UNCHANGED <<call, loop>>
  BY DEF RmOne, Called
<1>2. call' = call /\ end' = end /\ i' = i
  BY <1>1 DEF loop
<1>3. /\ call.start \in Nat /\ end \in Nat /\ size = end /\ Intact(0) /\ end = Len(call.text)
      /\ alloc \in Nat /\ end < alloc /\ data \in Block(alloc) /\ CallOK /\ data[end] = NUL
  BY <1>1, AtStart, Basics
<1>4. ASSUME NEW s \in Spans(call.start, end), Found(call.start, s, <<>>),
             Works(Buffer, StrMove(data, s[1], s[2], size - s[2]), s[1] + (size - s[2])), Done(1)
      PROVE  RInv'
  <2>1. PICK x, y \in Nat : x = s[1] /\ y = s[2] /\ x <= y /\ y <= end
    BY <1>3, SpanBounds
  <2> DEFINE w == StrMove(data, x, y, end - y)
             t == SubSeq(call.text, y + 1, end)
  <2>2. data' = w /\ size' = x + (end - y)
    BY <1>3, <1>4, <2>1 DEF Works
  <2>3. Holds(data, 0, Front(x)) /\ Front(x) \in Seq(Char) /\ Len(Front(x)) = x
    <3>1. Source(data, 0, x)
      <4>1. \A k \in 0..(x - 1) : k \in 0..(end - 1)
        BY <1>3, <2>1
      <4> QED BY <1>3, <4>1 DEF Source, Intact
    <3>2. x <= Len(call.text)
      BY <1>3, <2>1
    <3> QED BY <1>3, <3>1, <3>2, FrontHeld
  <2>4. PICK f \in Seq(Char) : f = Front(x)
    BY <2>3
  <2>5. /\ Holds(w, 0, f \o t) /\ w[x + (end - y)] = NUL
        /\ f \o t \in Seq(Char) /\ Len(f \o t) = Len(f) + (end - y)
    <3>1. PICK b \in Nat : b = 0
      OBVIOUS
    <3>2. x = b + Len(f) /\ Holds(data, b, f)
      BY <2>3, <2>4, <3>1
    <3>3. y <= end /\ end <= Len(call.text) /\ end <= alloc /\ x + (end - y) < alloc
      BY <1>3, <2>1
    <3>4. Source(data, y, end)
      <4>1. \A k \in y..(end - 1) : k \in 0..(end - 1)
        BY <1>3, <2>1
      <4> QED BY <1>3, <4>1 DEF Source, Intact
    <3>5. PICK e \in Nat : e = end
      BY <1>3
    <3>6. y <= e /\ e <= Len(call.text) /\ e <= alloc /\ x + (e - y) < alloc /\ Source(data, y, e)
      BY <3>3, <3>4, <3>5
    <3>7. LET u == SubSeq(call.text, y + 1, e)
              v == StrMove(data, x, y, e - y)
          IN  /\ Holds(v, b, f \o u) /\ v[x + (e - y)] = NUL
              /\ f \o u \in Seq(Char) /\ Len(f \o u) = Len(f) + (e - y)
      BY <1>3, <3>2, <3>6, ClosedBehind, SMTT(30)
    <3> QED BY <3>1, <3>5, <3>7
  <2> HIDE DEF w, t
  <2>6. PICK u \in Seq(Char) : u = f \o t
    BY <2>5
  <2>7. Len(u) = x + (end - y)
    BY <2>3, <2>4, <2>5, <2>6
  <2>8. \A a : Fitting(a) => Expanded(a) = <<>>
    BY <1>1, RemovesAll
  <2>9. u = (Front(s[1]) \o <<>>) \o SubSeq(call.text, s[2] + 1, end)
    <3>1. f \o <<>> = f
      BY ConcatEmptySeq
    <3> QED BY <2>1, <2>4, <2>6, <3>1 DEF t
  <2>10. Holds(data', 0, u) /\ data'[Len(u)] = NUL /\ size' = Len(u)
    BY <2>2, <2>5, <2>6, <2>7
  <2> QED BY <1>1, <1>2, <1>4, <2>8, <2>9, <2>10, OneMatch
<1>5. ASSUME NotFound(call.start), Unchanged(0) PROVE RInv'
  BY <1>1, <1>5, OneMissing
<1>6. ASSUME ExecFails(call.start), Unchanged(ExecError) PROVE RInv'
  BY <1>1, <1>2, <1>6, FirstResume, SearchFails
<1> QED BY <1>4, <1>5, <1>6 DEF RmOne

(* l characters have room in v between the text before x and after y. *)
HasRoom(v, c, x, y, z, l) ==
  /\ c \in Nat /\ v \in Block(c) /\ x + l + z < c
  /\ Source(v, 0, x)
  /\ \A k \in 0..(z - 1) : v[x + l + k] = call.text[y + k + 1]
  /\ v[x + l + z] = NUL

(* What jstr_rplcat_len makes of the block, before the replacement is copied. *)
LEMMA MadeRoom ==
  ASSUME IInv, Intact(0), size = end, data[end] = NUL,
         NEW x \in Nat, NEW y \in Nat, x <= y, y <= end,
         NEW z \in Nat, y + z = end, NEW l \in Nat,
         NEW b \in Reserved(Buffer, x + l + z + 1),
         NEW v, v = IF l = y - x THEN b.data ELSE StrMove(b.data, x + l, y, z)
  PROVE  HasRoom(v, b.alloc, x, y, z, l)
<1>1. end \in Nat /\ alloc \in Nat /\ end < alloc
  BY Basics
<1>2. /\ b.alloc \in Nat /\ b.data \in Block(b.alloc)
      /\ b.alloc >= x + l + z + 1 /\ b.alloc >= alloc
      /\ \A j \in 0..end : b.data[j] = data[j]
  <2>1. x + l + z + 1 \in Nat
    OBVIOUS
  <2> QED BY <2>1, GrownKeeps
<1>3. PICK c \in Nat : c = b.alloc
  BY <1>2
<1>4. PICK m : m = b.data
  OBVIOUS
<1>5. x + l + z < c /\ end < c /\ m \in Block(c)
  BY <1>1, <1>2, <1>3, <1>4
<1>6. \A k \in 0..(end - 1) : m[k] = call.text[k + 1]
  <2> TAKE k \in 0..(end - 1)
  <2>1. k \in 0..end
    BY <1>1
  <2> QED BY <1>2, <1>4, <2>1 DEF Intact
<1>7. m[end] = NUL
  <2>1. end \in 0..end
    BY <1>1
  <2> QED BY <1>2, <1>4, <2>1
<1>8. z = end - y
  BY <1>1
<1>9. CASE l = y - x
  <2>1. v = m /\ x + l = y
    BY <1>4, <1>9
  <2>2. Source(v, 0, x)
    <3>1. \A k \in 0..(x - 1) : k \in 0..(end - 1)
      BY <1>1
    <3> QED BY <1>6, <2>1, <3>1 DEF Source
  <2>3. \A k \in 0..(z - 1) : v[x + l + k] = call.text[y + k + 1]
    <3> TAKE k \in 0..(z - 1)
    <3>1. x + l + k = y + k /\ y + k \in 0..(end - 1)
      BY <1>1, <2>1
    <3> QED BY <1>6, <2>1, <3>1
  <2>4. x + l + z = end
    BY <1>8, <2>1
  <2> QED BY <1>3, <1>5, <1>7, <2>1, <2>2, <2>3, <2>4 DEF HasRoom
<1>10. CASE l # y - x
  <2>1. PICK d \in Nat : d = x + l
    OBVIOUS
  <2>2. v = StrMove(m, d, y, z) /\ d + z < c /\ y + z <= c
    BY <1>4, <1>5, <1>8, <1>10, <2>1
  <2>3. v \in Block(c)
    BY <1>5, <2>2, StrMoveType
  <2>4. ASSUME NEW k \in 0..(c - 1)
        PROVE  v[k] = IF k = d + z THEN NUL
                      ELSE IF d <= k /\ k < d + z THEN m[k - d + y] ELSE m[k]
    <3>1. StrMove(m, d, y, z)[k] = IF k = d + z THEN NUL
                                   ELSE IF d <= k /\ k < d + z THEN m[k - d + y] ELSE m[k]
      BY <1>5, <2>2, StrMoveByte
    <3> QED BY <2>2, <3>1
  <2>5. Source(v, 0, x)
    <3>1. ASSUME NEW k \in 0..(x - 1) PROVE v[k] = call.text[k + 1]
      <4>1. k \in 0..(c - 1) /\ k # d + z /\ ~(d <= k) /\ k \in 0..(end - 1)
        BY <1>1, <1>5, <2>1
      <4> QED BY <1>6, <2>4, <4>1
    <3> QED BY <3>1 DEF Source
  <2>6. ASSUME NEW k \in 0..(z - 1) PROVE v[x + l + k] = call.text[y + k + 1]
    <3>1. /\ d + k \in 0..(c - 1) /\ d + k # d + z /\ d <= d + k /\ d + k < d + z
          /\ (d + k) - d + y = y + k /\ y + k \in 0..(end - 1)
      BY <1>1, <2>2
    <3>2. v[d + k] = m[y + k]
      BY <2>4, <3>1
    <3> QED BY <1>6, <2>1, <3>1, <3>2
  <2>7. v[x + l + z] = NUL
    <3>1. d + z \in 0..(c - 1)
      BY <2>2
    <3> QED BY <2>1, <2>4, <3>1
  <2> QED BY <1>3, <1>5, <2>3, <2>5, <2>6, <2>7 DEF HasRoom
<1> QED BY <1>9, <1>10

(* What is done with the match s, when it is done. *)
LEMMA RplcAtIs ==
  ASSUME NEW s, RplcAt(s), ~Unchanged(ESpace)
  PROVE  \E b \in Reserved(Buffer, size + rplc_len - (s[2] - s[1]) + 1) :
           /\ Works(b, Copy(IF rplc_len = s[2] - s[1] THEN b.data
                            ELSE StrMove(b.data, s[1] + rplc_len, s[2], size - s[2]),
                            s[1], call.rplc),
                    (size + rplc_len - (s[2] - s[1]) + 1) - 1)
           /\ Done(1)
<1> DEFINE need == size + rplc_len - (s[2] - s[1]) + 1
           rest == size - s[2]
           same == rplc_len = s[2] - s[1]
           Moved(b) == IF same THEN b.data ELSE StrMove(b.data, s[1] + rplc_len, s[2], rest)
           extent == IF same THEN s[1] + rplc_len ELSE need
<1>1. \E b \in Reserved(Buffer, need) :
        /\ Works(b, Copy(Moved(b), s[1], call.rplc), need - 1)
        /\ Touch(b, extent)
        /\ Done(1)
  BY DEF RplcAt
<1> QED BY <1>1

LEMMA RplcOneRewrites == ASSUME IInv, RInv, RplcOne, searches' \in Seq(Answers) PROVE RInv'
<1>1. /\ Called /\ pc = "entry" /\ ~TooFar /\ UNCHANGED <<call, loop>>
      /\ call.op = "rplc" \/ (call.op = "rplcn" /\ n = 1 /\ rplc_len # 0 /\ ~HasRefs)
  BY DEF RplcOne, Called
<1>2. call' = call /\ end' = end /\ i' = i
  BY <1>1 DEF loop
<1>3. /\ call.start \in Nat /\ end \in Nat /\ size = end /\ Intact(0) /\ end = Len(call.text)
      /\ CallOK /\ data[end] = NUL /\ call.rplc \in Seq(Char) /\ rplc_len = Len(call.rplc)
      /\ rplc_len \in Nat
  BY <1>1, AtStart, Basics
<1>4. n = 1 \/ call.n = 1
  BY <1>1 DEF RInv, CallFits
<1>5. \A a : Fitting(a) => Expanded(a) = call.rplc
  <2>1. call.backref => RefFirst = 0
    BY <1>1 DEF RInv, CallFits, HasRefs
  <2> QED BY <2>1, ExpandedPlain
<1>6. ASSUME NEW s \in Spans(call.start, end), Found(call.start, s, <<>>),
             NEW b \in Reserved(Buffer, size + rplc_len - (s[2] - s[1]) + 1),
             Works(b, Copy(IF rplc_len = s[2] - s[1] THEN b.data
                           ELSE StrMove(b.data, s[1] + rplc_len, s[2], size - s[2]),
                           s[1], call.rplc),
                   (size + rplc_len - (s[2] - s[1]) + 1) - 1),
             Done(1)
      PROVE  RInv'
  <2>1. PICK x, y \in Nat : x = s[1] /\ y = s[2] /\ x <= y /\ y <= end
    BY <1>3, SpanBounds
  <2>2. PICK l \in Nat : l = rplc_len
    BY <1>3
  <2>3. PICK z \in Nat : y + z = end
    <3>1. PICK e \in Nat : e = end /\ y <= e
      BY <1>3, <2>1
    <3>2. e - y \in Nat /\ y + (e - y) = e
      BY <3>1
    <3> QED BY <3>1, <3>2
  <2>4. /\ end + l - (y - x) + 1 = x + l + z + 1
        /\ (end + l - (y - x) + 1) - 1 = x + l + z
    <3>1. PICK e \in Nat : e = end /\ y + z = e
      BY <1>3, <2>3
    <3>2. /\ e + l - (y - x) + 1 = x + l + z + 1
          /\ (e + l - (y - x) + 1) - 1 = x + l + z
      BY <3>1
    <3> QED BY <3>1, <3>2
  <2>5. PICK v : v = IF l = y - x THEN b.data ELSE StrMove(b.data, x + l, y, z)
    OBVIOUS
  <2>6. b \in Reserved(Buffer, x + l + z + 1)
    BY <1>3, <2>1, <2>2, <2>4
  <2>7. Works(b, Copy(v, x, call.rplc), x + l + z)
    <3>1. size - s[2] = z
      BY <1>3, <2>1, <2>3
    <3> QED BY <1>3, <1>6, <2>1, <2>2, <2>4, <2>5, <3>1
  <2>8. data' = Copy(v, x, call.rplc) /\ size' = x + l + z
    BY <2>7 DEF Works
  <2>9. /\ b.alloc \in Nat /\ v \in Block(b.alloc) /\ x + l + z < b.alloc
        /\ Source(v, 0, x)
        /\ \A k \in 0..(z - 1) : v[x + l + k] = call.text[y + k + 1]
        /\ v[x + l + z] = NUL
    <3>1. HasRoom(v, b.alloc, x, y, z, l)
      BY <1>3, <2>1, <2>3, <2>5, <2>6, MadeRoom
    <3> QED BY <3>1 DEF HasRoom
  <2>10. PICK r \in Seq(Char) : r = call.rplc /\ l = Len(r)
    BY <1>3, <2>2
  <2>11. PICK c \in Nat : c = b.alloc
    BY <2>9
  <2> DEFINE w == Copy(v, x, r)
             u == (Front(x) \o r) \o SubSeq(call.text, y + 1, Len(call.text))
  <2>12. Holds(w, 0, u) /\ u \in Seq(Char) /\ Len(u) = x + Len(r) + z /\ w[Len(u)] = NUL
    <3>1. /\ v \in Block(c) /\ y <= Len(call.text) /\ y + z = Len(call.text)
          /\ x + Len(r) + z < c /\ v[x + Len(r) + z] = NUL
          /\ \A k \in 0..(z - 1) : v[x + Len(r) + k] = call.text[y + k + 1]
      BY <1>3, <2>1, <2>3, <2>9, <2>10, <2>11
    <3>2. Terminated(w, u, x + Len(r) + z)
      BY <1>3, <2>1, <2>9, <3>1, Spliced, ZenonT(30)
    <3> QED BY <3>2 DEF Terminated
  <2> HIDE DEF w, u
  <2>13. data' = w
    BY <2>8, <2>10 DEF w
  <2>14. u = (Front(s[1]) \o r) \o SubSeq(call.text, s[2] + 1, end)
    BY <1>3, <2>1 DEF u
  <2>15. \A a : Fitting(a) => Expanded(a) = r
    BY <1>5, <2>10
  <2>16. size' = Len(u)
    BY <2>8, <2>10, <2>12
  <2> QED BY <1>1, <1>2, <1>4, <1>6, <2>12, <2>13, <2>14, <2>15, <2>16, OneMatch
<1>7. ASSUME Unchanged(ESpace), NEW s \in Spans(call.start, end), Found(call.start, s, <<>>)
      PROVE  RInv'
  <2>1. Asked(Resume, "match", s, <<>>)
    BY <1>1, <1>7, FirstResume DEF Found
  <2>2. s # <<>> /\ Part(s) /\ Part(<<>>)
    <3>1. Part(s)
      BY <1>3, <1>7, NoGroup, MatchIsPart
    <3>2. PICK x, y : s = <<x, y>>
      BY <1>3, <1>7, SpanBounds
    <3>3. <<x, y>> # <<>>
      OBVIOUS
    <3> QED BY <3>1, <3>2, <3>3 DEF Part
  <2>3. Chain(searches')
    BY <1>1, <2>1, <2>2, AsksOn
  <2>4. pc' = "done" /\ ~(ret' >= 0) /\ CallFits
    BY <1>7 DEF Unchanged, Done, ESpace, RInv
  <2> QED BY <1>2, <2>3, <2>4, GivesUp
<1>8. ASSUME NEW s \in Spans(call.start, end), Found(call.start, s, <<>>), RplcAt(s) PROVE RInv'
  <2>1. CASE Unchanged(ESpace)
    BY <1>7, <1>8, <2>1
  <2>2. CASE ~Unchanged(ESpace)
    <3>1. PICK b \in Reserved(Buffer, size + rplc_len - (s[2] - s[1]) + 1) :
             /\ Works(b, Copy(IF rplc_len = s[2] - s[1] THEN b.data
                              ELSE StrMove(b.data, s[1] + rplc_len, s[2], size - s[2]),
                              s[1], call.rplc),
                      (size + rplc_len - (s[2] - s[1]) + 1) - 1)
             /\ Done(1)
      BY <1>8, <2>2, RplcAtIs
    <3> QED BY <1>6, <1>8, <3>1
  <2> QED BY <2>1, <2>2
<1>9. ASSUME NotFound(call.start), Unchanged(0) PROVE RInv'
  BY <1>1, <1>9, OneMissing
<1>10. ASSUME ExecFails(call.start), Unchanged(ExecError) PROVE RInv'
  BY <1>1, <1>2, <1>10, FirstResume, SearchFails
<1> QED BY <1>8, <1>9, <1>10 DEF RplcOne

(***************************************************************************)
(* The loops begin.                                                         *)
(***************************************************************************)

LEMMA Starts ==
  ASSUME IInv, RInv, pc = "entry", call' = call, end' = end, n' = n, searches' = searches,
         pc' \in {"rmn", "rplcn"}, NEW y \in Nat, i'.src = y, i'.src_e = call.start,
         i'.dst = dst_s' + Len(Front(y)), Holds(data', dst_s', Front(y)),
         pc' = "rmn" => dst_s' = 0, pc' = "rplcn" => (refs' # <<>> <=> HasRefs)
  PROVE  RInv'
<1>1. /\ searches = <<>> /\ Hits(searches, 0) /\ Chain(searches) /\ searches \in Seq(Answers)
      /\ Rewritten[0] = <<>> /\ Len(searches) = 0
  BY Begins
<1>2. CallOK /\ end = Len(call.text) /\ end \in Nat /\ CallFits
  BY Basics DEF RInv
<1>3. Rewritten'[0] = <<>>
  <2>1. PICK q : q = searches'
    OBVIOUS
  <2>2. Same(q, searches, 0) /\ Hits(q, 0) /\ searches' \in Seq(Answers)
    BY <1>1, <2>1 DEF Same
  <2> QED BY <1>1, <1>2, <2>1, <2>2, RewrittenSame
<1>4. Len(searches') = 0 /\ EndOf(searches', Len(searches')) = 0
  BY <1>1 DEF EndOf
<1>5. Written' = Front(y)
  BY <1>3, <1>4 DEF Written, EndOf, Front
<1>6. Standing'
  BY <1>5 DEF Standing, Holds
<1>7. Resuming'
  <2>1. Resume' = call.start
    BY <1>1 DEF Resume
  <2>2. HasRefs' <=> HasRefs
    BY SameReferences DEF HasRefs
  <2>3. EndOf(searches, Len(searches))' = 0 /\ 0 <= i'.src
    BY <1>1 DEF EndOf
  <2> QED BY <2>1, <2>2, <2>3 DEF Resuming, InLoop
<1>8. Counted'
  <2>1. n = IF end = 0 /\ call.n # 0 THEN 1 ELSE call.n
    BY DEF RInv, Entering
  <2>2. call.n \in Nat /\ All \in Nat
    BY <1>2, CountType
  <2>3. n \in Nat /\ (IF call.n = All THEN n = All \/ end = 0
                      ELSE n + 0 <= call.n /\ (end # 0 => n + 0 = call.n))
    BY <2>1, <2>2
  <2>4. Len(searches)' = 0
    BY <1>4
  <2> QED BY <2>3, <2>4 DEF Counted
<1>9. CallFits' /\ Chained'
  BY <1>1, <1>2 DEF CallFits, Chained, Chain, NextAfter, Hits, Part
<1>10. Entering' /\ Rewrites'
  BY DEF Entering, Rewrites
<1> QED BY <1>6, <1>7, <1>8, <1>9, <1>10 DEF RInv

LEMMA RmnStartRewrites == ASSUME IInv, RInv, RmnStart PROVE RInv'
<1>1. /\ pc = "entry" /\ ~TooFar /\ pc' = "rmn" /\ call' = call /\ data' = data
      /\ i' = i /\ dst_s' = dst_s /\ end' = end /\ n' = n /\ searches' = searches
  BY DEF RmnStart, Called, string, loop
<1>2. /\ call.start \in Nat /\ call.start <= end /\ Intact(0)
      /\ i.dst = call.start /\ i.src = call.start /\ i.src_e = call.start
  BY <1>1, AtStart
<1>3. CallOK /\ end = Len(call.text) /\ end \in Nat /\ dst_s = 0
  BY <1>1, Basics DEF RInv, Entering
<1>4. PICK y \in Nat : y = call.start
  BY <1>2
<1>5. Source(data, 0, y)
  <2>1. \A k \in 0..(y - 1) : k \in 0..(end - 1)
    BY <1>2, <1>3, <1>4
  <2> QED BY <1>2, <2>1 DEF Source, Intact
<1>6. Holds(data, 0, Front(y)) /\ Len(Front(y)) = y
  <2>1. y <= Len(call.text)
    BY <1>2, <1>3, <1>4
  <2> QED BY <1>3, <1>5, <2>1, FrontHeld
<1>7. i'.dst = dst_s' + Len(Front(y)) /\ Holds(data', dst_s', Front(y))
  BY <1>1, <1>2, <1>3, <1>4, <1>6
<1> QED BY <1>1, <1>2, <1>3, <1>4, <1>7, Starts

LEMMA ScansPastRewrites == ASSUME IInv, RInv, RplcnScansPast PROVE RInv'
<1>1. /\ pc' = "done" /\ ret' = Undefined /\ call' = call /\ end' = end /\ searches' = searches
  BY DEF RplcnScansPast, Done, loop
<1>2. ~(ret' >= 0) /\ CallFits /\ Chain(searches')
  BY <1>1 DEF Undefined, RInv, Chained
<1> QED BY <1>1, <1>2, GivesUp

LEMMA RplcnStartRewrites == ASSUME IInv, RInv, RplcnStart PROVE RInv'
<1>1. pc = "entry" /\ call' = call /\ end' = end /\ n' = n /\ searches' = searches
  BY DEF RplcnStart, RplcnCalled, Called
<1>2. ASSUME Unchanged(ESpace) PROVE RInv'
  <2>1. pc' = "done" /\ ~(ret' >= 0) /\ CallFits /\ Chain(searches')
    BY <1>1, <1>2 DEF Unchanged, Done, ESpace, RInv, Chained
  <2> QED BY <1>1, <2>1, GivesUp
<1>3. ASSUME i' = [dst |-> Build, src |-> 0, src_e |-> call.start],
             refs' = IF HasRefs THEN <<RefFirst, RefLast(RefFirst)>> ELSE <<>>,
             dst_s' = Build, pc' = "rplcn"
      PROVE  RInv'
  <2>1. size \in Nat /\ Build \in Nat
    BY Basics DEF Build
  <2>2. PICK y \in Nat : y = 0
    OBVIOUS
  <2>3. Front(y) = <<>>
    <3>1. SubSeq(call.text, 0 + 1, 0) = <<>>
      <4>1. call.text \in Seq(Char)
        BY Basics
      <4> QED BY <4>1, SubSeqProperties
    <3> QED BY <2>2, <3>1 DEF Front
  <2>4. Len(Front(y)) = 0 /\ Holds(data', dst_s', Front(y))
    BY <2>3 DEF Holds
  <2>5. i'.src = y /\ i'.src_e = call.start /\ i'.dst = Build
    BY <1>3, <2>2
  <2>6. i'.dst = dst_s' + Len(Front(y))
    BY <1>3, <2>1, <2>4, <2>5
  <2>7. refs' # <<>> <=> HasRefs
    <3>1. PICK x, z : x = RefFirst /\ z = RefLast(RefFirst)
      OBVIOUS
    <3>2. <<x, z>> # <<>>
      OBVIOUS
    <3> QED BY <1>3, <3>1, <3>2
  <2> QED BY <1>1, <1>3, <2>4, <2>5, <2>6, <2>7, Starts
<1> QED BY <1>2, <1>3 DEF RplcnStart

(***************************************************************************)
(* The loops go on.                                                         *)
(***************************************************************************)

(* Where a loop stands: m matches are behind it, the last ended at e, and   *)
(* w has been written.                                                      *)
Stands(m, e, w) ==
  /\ m = Len(searches) /\ Hits(searches, m) /\ e = EndOf(searches, m)
  /\ e <= i.src /\ i.src <= i.src_e /\ i.src_e <= end
  /\ Rewritten[m] \in Seq(Char)
  /\ w = Written /\ i.dst = dst_s + Len(w) /\ Holds(data, dst_s, w)
  /\ \A y \in Nat : i.src <= y /\ y <= end =>
       Rewritten[m] \o SubSeq(call.text, e + 1, y) = w \o SubSeq(call.text, i.src + 1, y)

LEMMA Onward ==
  ASSUME IInv, RInv, InLoop
  PROVE  \E m, e \in Nat : \E w \in Seq(Char) : Stands(m, e, w)
<1>1. /\ CallOK /\ end = Len(call.text) /\ end \in Nat /\ searches \in Seq(Answers)
      /\ i.src \in Nat /\ i.src_e \in Nat
  BY Basics DEF IInv, Typed
<1>2. PICK m \in Nat : m = Len(searches)
  BY <1>1
<1>3. Hits(searches, m) /\ Rewritten[m] \in Seq(Char)
  <2>1. Hits(searches, m)
    BY <1>2 DEF RInv, Chained, InLoop
  <2> QED BY <1>1, <2>1, RewrittenNow
<1>4. EndOf(searches, m) \in Nat
  <2>1. CASE m = 0
    BY <2>1 DEF EndOf
  <2>2. CASE m # 0
    <3>1. m \in 1..m
      BY <2>2
    <3>2. searches[m].span # <<>> /\ Part(searches[m].span)
      BY <1>3, <3>1 DEF Hits
    <3>3. PICK a, b \in Nat : searches[m].span = <<a, b>>
      BY <3>2 DEF Part
    <3> QED BY <2>2, <3>3 DEF EndOf
  <2> QED BY <2>1, <2>2
<1>5. PICK e \in Nat : e = EndOf(searches, m)
  BY <1>4
<1>6. e <= i.src /\ i.src <= i.src_e /\ i.src_e <= end
  <2>1. CASE pc = "rmn"
    <3>1. i.src_e = i.src /\ i.src <= end
      BY <2>1, InRmn
    <3> QED BY <1>1, <1>2, <1>5, <3>1 DEF RInv, Resuming
  <2>2. CASE pc = "rplcn"
    BY <1>2, <1>5, <2>2, InRplcn DEF RInv, Resuming
  <2> QED BY <2>1, <2>2 DEF InLoop
<1>7. PICK r \in Seq(Char) : r = Rewritten[m]
  BY <1>3
<1>8. PICK x \in Nat : x = i.src
  BY <1>1
<1>9. /\ r \o SubSeq(call.text, e + 1, x) \in Seq(Char)
      /\ \A y \in Nat : x <= y /\ y <= end =>
           r \o SubSeq(call.text, e + 1, y)
             = (r \o SubSeq(call.text, e + 1, x)) \o SubSeq(call.text, x + 1, y)
  <2>1. ASSUME NEW y \in Nat, x <= y, y <= end
        PROVE  /\ r \o SubSeq(call.text, e + 1, y)
                    = (r \o SubSeq(call.text, e + 1, x)) \o SubSeq(call.text, x + 1, y)
               /\ r \o SubSeq(call.text, e + 1, x) \in Seq(Char)
    <3>1. e <= x /\ y <= Len(call.text)
      BY <1>1, <1>6, <1>8, <2>1
    <3> QED BY <1>1, <2>1, <3>1, TextJoined
  <2>2. x <= x /\ x <= end
    BY <1>1, <1>6, <1>8
  <2> QED BY <2>1, <2>2
<1>10. PICK w \in Seq(Char) : w = r \o SubSeq(call.text, e + 1, x)
  BY <1>9
<1>11. w = Written
  BY <1>2, <1>5, <1>7, <1>8, <1>10 DEF Written
<1>12. i.dst = dst_s + Len(w) /\ Holds(data, dst_s, w)
  BY <1>11 DEF RInv, Standing
<1>13. ASSUME NEW y \in Nat, i.src <= y, y <= end
       PROVE  Rewritten[m] \o SubSeq(call.text, e + 1, y) = w \o SubSeq(call.text, i.src + 1, y)
  BY <1>7, <1>8, <1>9, <1>10, <1>13
<1>14. Stands(m, e, w)
  BY <1>2, <1>3, <1>5, <1>6, <1>11, <1>12, <1>13 DEF Stands
<1> QED BY <1>14

LEMMA CountGoesOn ==
  ASSUME IInv, RInv, InLoop, n # 0, n' = Less(n), call' = call, end' = end,
         Len(searches') = Len(searches) + 1
  PROVE  Counted'
<1>1. /\ n \in Nat
      /\ IF call.n = All THEN n = All \/ end = 0
         ELSE n + Len(searches) <= call.n /\ (end # 0 => n + Len(searches) = call.n)
  BY DEF RInv, Counted
<1>2. call.n \in Nat /\ All \in Nat /\ (call.n # All => call.n < All)
  BY CountType DEF RInv
<1>3. Len(searches) \in Nat
  BY DEF IInv, Typed
<1>4. PICK l, z, c \in Nat : l = Len(searches) /\ z = n /\ c = call.n
  BY <1>1, <1>2, <1>3
<1>5. n' = IF z = All THEN All ELSE z - 1
  BY <1>4 DEF Less
<1>6. z # 0 /\ Len(searches)' = l + 1
  BY <1>4
<1>7. n' \in Nat
  BY <1>2, <1>5, <1>6
<1>8. CASE call.n = All
  <2>1. n' = All \/ end = 0
    BY <1>1, <1>4, <1>5, <1>8
  <2> QED BY <1>7, <1>8, <2>1 DEF Counted
<1>9. CASE call.n # All
  <2>1. z + l <= c /\ (end # 0 => z + l = c) /\ c < All
    BY <1>1, <1>2, <1>4, <1>9
  <2>2. n' = z - 1
    BY <1>2, <1>5, <2>1
  <2>3. n' + (l + 1) = z + l
    BY <1>6, <2>2
  <2>4. n' + Len(searches)' <= call.n /\ (end # 0 => n' + Len(searches)' = call.n)
    BY <1>4, <1>6, <2>1, <2>3
  <2> QED BY <1>7, <1>9, <2>4 DEF Counted
<1> QED BY <1>8, <1>9

(* A match is ahead of the text that has been treated. *)
LEMMA MatchAhead ==
  ASSUME IInv, RInv, InLoop, NEW s \in Spans(i.src_e, end)
  PROVE  /\ s[1] \in Nat /\ s[2] \in Nat /\ i.src <= s[1] /\ s[1] <= s[2] /\ s[2] <= end
         /\ s[1] <= end
<1>1. end \in Nat /\ i.src_e \in Nat /\ i.src \in Nat
  BY Basics
<1>2. s[1] \in Nat /\ s[2] \in Nat /\ i.src_e <= s[1] /\ s[1] <= s[2] /\ s[2] <= end
  BY <1>1, SpanBounds
<1>3. i.src <= i.src_e
  BY Onward DEF Stands
<1>4. PICK a, b, c, d, f \in Nat : a = i.src /\ b = i.src_e /\ c = s[1] /\ d = s[2] /\ f = end
  BY <1>1, <1>2
<1>5. a <= b /\ b <= c /\ c <= d /\ d <= f
  BY <1>2, <1>3, <1>4
<1>6. a <= c /\ c <= f
  BY <1>5
<1> QED BY <1>2, <1>4, <1>6

(* One match of a loop, which has replaced it with r. *)
LEMMA LoopMatched ==
  ASSUME IInv, RInv, InLoop, pc' = pc, call' = call, end' = end, dst_s' = dst_s, refs' = refs,
         n # 0, n' = Less(n), searches' \in Seq(Answers),
         NEW s \in Spans(i.src_e, end), NEW g \in Groups(s), Found(i.src_e, s, g),
         NEW k \in {0, 1}, k = 1 <=> s[1] = s[2] /\ s[2] < end,
         i'.src = s[2] + k, i'.src_e = s[2] + k,
         NEW r, \A a : Fitting(a) /\ a.span = s /\ a.group = g => Expanded(a) = r,
         NEW u, u = ((Written \o SubSeq(call.text, i.src + 1, s[1])) \o r)
                      \o SubSeq(call.text, s[2] + 1, s[2] + k),
         i'.dst = dst_s + Len(u), Holds(data', dst_s, u)
  PROVE  RInv'
<1>1. /\ CallOK /\ CallFits /\ end = Len(call.text) /\ end \in Nat /\ searches \in Seq(Answers)
      /\ i.src_e \in Nat /\ i.src \in Nat /\ pc # "done"
  BY Basics DEF IInv, Typed, RInv, InLoop
<1>2. PICK m, e \in Nat, w \in Seq(Char) : Stands(m, e, w)
  BY Onward
<1>3. /\ m = Len(searches) /\ Hits(searches, m) /\ e = EndOf(searches, m) /\ w = Written
      /\ i.src <= i.src_e
  BY <1>2 DEF Stands
<1>4. Part(s) /\ Part(g) /\ s # <<>>
  <2>1. Part(s) /\ Part(g)
    BY <1>1, MatchIsPart
  <2>2. PICK x, y : s = <<x, y>>
    BY <1>1, SpanBounds
  <2>3. <<x, y>> # <<>>
    OBVIOUS
  <2> QED BY <2>1, <2>2, <2>3
<1>5. s[1] \in Nat /\ s[2] \in Nat /\ i.src_e <= s[1] /\ s[1] <= s[2] /\ s[2] <= end
  BY <1>1, SpanBounds
<1>6. Asked(Resume, "match", s, g)
  BY DEF Found, RInv, Resuming
<1>7. /\ Asks(searches, searches', Len(searches), Resume, "match", s, g)
      /\ Chain(searches') /\ Hits(searches', Len(searches) + 1)
  BY <1>1, <1>4, <1>6, AsksOn
<1>8. PICK q \in Seq(Answers) : q = searches'
  OBVIOUS
<1>9. /\ Len(q) = m + 1 /\ Chain(q) /\ Hits(q, m + 1) /\ Same(q, searches, m)
      /\ q[m + 1].span = s /\ q[m + 1].group = g
  BY <1>3, <1>7, <1>8 DEF Asks
<1>10. Fitting(q[m + 1])
  BY <1>1, <1>4, <1>9 DEF Fitting
<1>11. Rewritten'[m + 1] = (w \o SubSeq(call.text, i.src + 1, s[1])) \o r
  <2>1. Rewritten'[m + 1] = Rewritten[m] \o SubSeq(call.text, EndOf(searches, m) + 1, q[m + 1].span[1])
                                         \o Expanded(q[m + 1])
    BY <1>1, <1>3, <1>8, <1>9, RewrittenNext
  <2>2. Expanded(q[m + 1]) = r
    BY <1>9, <1>10
  <2>3. i.src <= s[1] /\ s[1] <= end
    BY MatchAhead
  <2>4. Rewritten[m] \o SubSeq(call.text, e + 1, s[1]) = w \o SubSeq(call.text, i.src + 1, s[1])
    BY <1>2, <1>5, <2>3 DEF Stands
  <2> QED BY <1>3, <1>9, <2>1, <2>2, <2>4
<1>12. m + 1 # 0 /\ m + 1 \in Nat
  OBVIOUS
<1>13. EndOf(q, m + 1) = s[2]
  BY <1>9, <1>12 DEF EndOf
<1>14. Written' = u
  <2>1. Written' = Rewritten'[m + 1] \o SubSeq(call.text, EndOf(q, m + 1) + 1, i'.src)
    BY <1>8, <1>9 DEF Written, EndOf
  <2> QED BY <1>3, <1>11, <1>13, <2>1
<1>15. Standing'
  BY <1>14 DEF Standing, Holds
<1>16. Resume' = s[2] + k
  <2>1. q # <<>>
    BY <1>9, <1>12
  <2>2. Resume' = IF s[1] = s[2] /\ s[2] < end THEN s[2] + 1 ELSE s[2]
    BY <1>8, <1>9, <2>1 DEF Resume, NextAfter
  <2>3. CASE s[1] = s[2] /\ s[2] < end
    BY <2>2, <2>3
  <2>4. CASE ~(s[1] = s[2] /\ s[2] < end)
    <3>1. k = 0
      BY <2>4
    <3> QED BY <1>5, <2>2, <2>4, <3>1
  <2> QED BY <2>3, <2>4
<1>17. Resuming'
  <2>1. HasRefs' <=> HasRefs
    BY SameReferences DEF HasRefs
  <2>2. EndOf(searches, Len(searches))' = s[2]
    BY <1>8, <1>9, <1>13 DEF EndOf
  <2>3. s[2] <= s[2] + k
    BY <1>5
  <2> QED BY <1>16, <2>1, <2>2, <2>3 DEF RInv, Resuming, InLoop
<1>18. Counted'
  <2>1. Len(searches') = Len(searches) + 1
    BY <1>3, <1>8, <1>9
  <2> QED BY <2>1, CountGoesOn
<1>19. CallFits' /\ Chained'
  <2>1. Len(searches') = Len(searches) + 1
    BY <1>3, <1>8, <1>9
  <2>2. Hits(searches', Len(searches'))
    BY <1>7, <2>1
  <2>3. Chain(searches)' /\ Hits(searches, Len(searches))'
    BY <1>7, <2>2 DEF Chain, NextAfter, Hits, Part
  <2> QED BY <1>1, <2>3 DEF CallFits, Chained
<1>20. Entering' /\ Rewrites'
  BY DEF Entering, Rewrites, InLoop
<1> QED BY <1>15, <1>17, <1>18, <1>19, <1>20 DEF RInv

(* A loop goes on behind a match: what AfterMatch makes of d. *)
Stepped(d, p, y, k) == IF k = 1 THEN Move(d, p, y, 1) ELSE d

LEMMA AfterMatchIs ==
  ASSUME NEW b, NEW d, NEW p, NEW s, AfterMatch(b, d, p, s)
  PROVE  \E k \in {0, 1} :
           /\ k = 1 <=> s[1] = s[2] /\ s[2] < end
           /\ i' = [dst |-> p + k, src |-> s[2] + k, src_e |-> s[2] + k]
           /\ n' = Less(n)
           /\ Works(b, Stepped(d, p, s[2], k), size)
<1> DEFINE step == s[1] = s[2] /\ s[2] < end
<1>1. CASE step
  <2>1. /\ i' = [dst |-> p + 1, src |-> s[2] + 1, src_e |-> s[2] + 1]
        /\ n' = Less(n) /\ Works(b, Move(d, p, s[2], 1), size)
    BY <1>1 DEF AfterMatch
  <2> QED BY <1>1, <2>1 DEF Stepped
<1>2. CASE ~step
  <2>1. /\ i' = [dst |-> p + 0, src |-> s[2] + 0, src_e |-> s[2] + 0]
        /\ n' = Less(n) /\ Works(b, d, size)
    BY <1>2 DEF AfterMatch
  <2> QED BY <1>2, <2>1 DEF Stepped
<1> QED BY <1>1, <1>2

(* w holds the string u of len characters at b. *)
Carries(w, b, u, len) == Holds(w, b, u) /\ u \in Seq(Char) /\ Len(u) = len

(* One character of the text, or none, is moved behind the string s. *)
LEMMA SteppedBehind ==
  ASSUME CallOK, NEW c \in Nat, NEW m \in Block(c), NEW b \in Nat, NEW s \in Seq(Char),
         Holds(m, b, s), NEW p \in Nat, JustBehind(p, b, s), NEW y \in Nat, NEW k \in {0, 1},
         y + k <= Len(call.text), y + k <= c, p + k <= c, Source(m, y, y + k)
  PROVE  Carries(Stepped(m, p, y, k), b, s \o SubSeq(call.text, y + 1, y + k), Len(s) + k)
<1>1. CASE k = 0
  <2>1. PICK t : t = call.text
    OBVIOUS
  <2>2. t \in Seq(Char) /\ y + 0 = y /\ y + 1 > y
    BY <2>1 DEF CallOK
  <2>3. SubSeq(t, y + 1, y) = <<>>
    BY <2>2, SubSeqProperties
  <2>4. s \o <<>> = s
    BY ConcatEmptySeq
  <2>5. Len(s) + k = Len(s)
    BY <1>1
  <2>6. s \o SubSeq(call.text, y + 1, y + k) = s
    BY <1>1, <2>1, <2>2, <2>3, <2>4
  <2>7. Stepped(m, p, y, k) = m
    BY <1>1 DEF Stepped
  <2> QED BY <2>5, <2>6, <2>7 DEF Carries
<1>2. CASE k = 1
  <2>1. PICK z \in Nat : z = y + 1
    OBVIOUS
  <2>2. y <= z /\ z - y = 1 /\ z <= Len(call.text) /\ z <= c /\ p + (z - y) <= c /\ Source(m, y, z)
    BY <1>2, <2>1
  <2>3. Behind(Move(m, p, y, z - y), m, c, b, s \o SubSeq(call.text, y + 1, z), p, z - y)
    BY <2>2, MovedBehind
  <2>4. /\ s \o SubSeq(call.text, y + 1, z) \in Seq(Char)
        /\ Len(s \o SubSeq(call.text, y + 1, z)) = Len(s) + (z - y)
    BY <2>2, MovedBehind
  <2>5. Holds(Move(m, p, y, 1), b, s \o SubSeq(call.text, y + 1, z))
    BY <2>2, <2>3 DEF Behind
  <2> QED BY <1>2, <2>1, <2>2, <2>4, <2>5 DEF Stepped, Carries
<1> QED BY <1>1, <1>2

LEMMA RmnStepRewrites == ASSUME IInv, RInv, RmnStep, searches' \in Seq(Answers) PROVE RInv'
<1>1. /\ pc = "rmn" /\ pc' = pc /\ call' = call /\ dst_s' = dst_s /\ end' = end /\ refs' = refs
      /\ n # 0 /\ InLoop
  BY DEF RmnStep, Searching, InLoop
<1>2. /\ Removing /\ i.dst <= i.src /\ i.src_e = i.src /\ Intact(i.dst) /\ dst_s = 0
  BY <1>1, InRmn DEF RInv, Resuming
<1>3. /\ i.dst \in Nat /\ i.src \in Nat /\ end \in Nat /\ alloc \in Nat /\ end < alloc
      /\ data \in Block(alloc) /\ CallOK /\ end = Len(call.text)
  BY Basics
<1>4. PICK s \in Spans(i.src_e, end) :
        /\ Found(i.src_e, s, <<>>)
        /\ AfterMatch(Buffer, Move(data, i.dst, i.src, s[1] - i.src), i.dst + (s[1] - i.src), s)
  BY DEF RmnStep
<1>5. /\ s[1] \in Nat /\ s[2] \in Nat /\ i.src <= s[1] /\ s[1] <= s[2] /\ s[2] <= end
  BY <1>1, MatchAhead
<1>6. PICK dst, src, x, y, e, c \in Nat :
        dst = i.dst /\ src = i.src /\ x = s[1] /\ y = s[2] /\ e = end /\ c = alloc
  BY <1>3, <1>5
<1>7. PICK d, p : d = Move(data, dst, src, x - src) /\ p = dst + (x - src)
  OBVIOUS
<1>8. PICK k \in {0, 1} :
        /\ k = 1 <=> s[1] = s[2] /\ s[2] < end
        /\ i' = [dst |-> p + k, src |-> s[2] + k, src_e |-> s[2] + k]
        /\ n' = Less(n)
        /\ Works(Buffer, Stepped(d, p, s[2], k), size)
  <2>1. AfterMatch(Buffer, d, p, s)
    BY <1>4, <1>6, <1>7
  <2> QED BY <2>1, AfterMatchIs
<1>9. /\ dst <= src /\ src <= x /\ x <= y /\ y + k <= e /\ e < c /\ (k = 1 => y < e)
  <2>1. dst <= src /\ src <= x /\ x <= y /\ y <= e /\ e < c /\ (k = 1 => y < e)
    BY <1>2, <1>3, <1>5, <1>6, <1>8
  <2> QED BY <2>1
<1>10. /\ p \in Nat /\ p <= x /\ x <= e /\ y <= e /\ x <= c /\ p <= c /\ y + k <= c /\ p + k <= c
       /\ dst <= p
  BY <1>7, <1>9
<1>11. PICK m, f \in Nat, w \in Seq(Char) : Stands(m, f, w)
  BY <1>1, Onward
<1>12. PICK b \in Nat : b = 0
  OBVIOUS
<1>13. w = Written /\ JustBehind(dst, b, w) /\ Holds(data, b, w)
  BY <1>2, <1>6, <1>11, <1>12 DEF Stands, JustBehind
<1>14. \A j \in dst..(e - 1) : data[j] = call.text[j + 1]
  BY <1>2, <1>6 DEF Intact
<1>15. PICK v \in Seq(Char) : v = w \o SubSeq(call.text, src + 1, x)
  <2>1. x <= x /\ x <= Len(call.text)
    BY <1>3, <1>6, <1>10
  <2>2. w \o SubSeq(call.text, src + 1, x) \in Seq(Char)
    BY <1>3, <1>9, <2>1, TextJoined
  <2> QED BY <2>2
<1>16. Behind(d, data, c, b, v, dst, x - src) /\ Len(v) = Len(w) + (x - src)
  <2>1. /\ src <= x /\ x <= Len(call.text) /\ x <= c /\ dst + (x - src) <= c /\ data \in Block(c)
    BY <1>3, <1>6, <1>7, <1>9, <1>10
  <2>2. Source(data, src, x)
    <3>1. \A j \in src..(x - 1) : j \in dst..(e - 1)
      BY <1>9, <1>10
    <3> QED BY <1>14, <3>1 DEF Source
  <2>3. /\ Behind(Move(data, dst, src, x - src), data, c, b, w \o SubSeq(call.text, src + 1, x),
                  dst, x - src)
        /\ Len(w \o SubSeq(call.text, src + 1, x)) = Len(w) + (x - src)
    BY <1>3, <1>13, <2>1, <2>2, MovedBehind
  <2> QED BY <1>7, <1>15, <2>3
<1>17. JustBehind(p, b, v)
  <2>1. dst = b + Len(w) /\ Len(v) = Len(w) + (x - src)
    BY <1>13, <1>16 DEF JustBehind
  <2>2. PICK l \in Nat : l = Len(w)
    OBVIOUS
  <2>3. p = b + (l + (x - src))
    BY <1>7, <1>9, <2>1, <2>2
  <2> QED BY <2>1, <2>2, <2>3 DEF JustBehind
<1>18. Source(d, y, y + k)
  <2>1. ASSUME NEW j \in y..(y + k - 1) PROVE d[j] = call.text[j + 1]
    <3>1. j \in 0..(c - 1) /\ dst + (x - src) <= j /\ j \in dst..(e - 1)
      BY <1>7, <1>9, <1>10
    <3>2. d[j] = data[j]
      BY <1>16, <3>1 DEF Behind
    <3> QED BY <1>14, <3>1, <3>2
  <2> QED BY <2>1 DEF Source
<1>19. PICK u : u = v \o SubSeq(call.text, y + 1, y + k)
  OBVIOUS
<1>20. Holds(Stepped(d, p, y, k), b, u) /\ Len(u) = Len(v) + k
  <2>1. y + k <= Len(call.text) /\ d \in Block(c) /\ Holds(d, b, v)
    BY <1>3, <1>6, <1>9, <1>16 DEF Behind
  <2>2. Carries(Stepped(d, p, y, k), b, v \o SubSeq(call.text, y + 1, y + k), Len(v) + k)
    BY <1>3, <1>10, <1>17, <1>18, <2>1, SteppedBehind
  <2> QED BY <1>19, <2>2 DEF Carries
<1>21. u = ((Written \o SubSeq(call.text, i.src + 1, s[1])) \o <<>>)
             \o SubSeq(call.text, s[2] + 1, s[2] + k)
  <2>1. v \o <<>> = v
    BY ConcatEmptySeq
  <2> QED BY <1>6, <1>13, <1>15, <1>19, <2>1
<1>22. i'.dst = dst_s + Len(u)
  <2>1. PICK l \in Nat : l = Len(v)
    OBVIOUS
  <2>2. p = b + l /\ Len(u) = l + k
    BY <1>17, <1>20, <2>1 DEF JustBehind
  <2>3. i'.dst = p + k
    BY <1>8
  <2>4. p + k = 0 + (l + k)
    BY <1>12, <2>2
  <2> QED BY <1>2, <2>2, <2>3, <2>4
<1>23. Holds(data', dst_s, u)
  BY <1>2, <1>6, <1>8, <1>12, <1>20 DEF Works
<1>24. \A a : Fitting(a) /\ a.span = s /\ a.group = <<>> => Expanded(a) = <<>>
  BY <1>2, RemovesAll
<1>25. i'.src = s[2] + k /\ i'.src_e = s[2] + k
  BY <1>8
<1> QED BY <1>1, <1>4, <1>8, <1>21, <1>22, <1>23, <1>24, <1>25, NoGroup, LoopMatched

(***************************************************************************)
(* The loops end.                                                           *)
(***************************************************************************)

(* The first m answers of a history that goes on are the matches it had. *)
LEMMA SearchedOut ==
  ASSUME IInv, RInv, InLoop, searches' \in Seq(Answers),
         Stops \/ (Searching /\ NotFound(i.src_e)),
         NEW m, m = Len(searches), NEW q, q = searches'
  PROVE  /\ Chain(q) /\ Hits(q, m) /\ Same(q, searches, m)
         /\ Stops \/ q[Len(q)].answer = "nomatch"
<1>1. Chain(searches) /\ Hits(searches, m) /\ pc # "done" /\ i.src_e = Resume
  BY DEF RInv, Chained, Resuming, InLoop
<1>2. CASE Stops
  <2>1. q = searches
    BY <1>2 DEF Stops
  <2> QED BY <1>1, <1>2, <2>1 DEF Same
<1>3. CASE NotFound(i.src_e)
  <2>1. Asked(Resume, "nomatch", <<>>, <<>>)
    BY <1>1, <1>3 DEF NotFound
  <2>2. /\ Asks(searches, searches', Len(searches), Resume, "nomatch", <<>>, <<>>)
        /\ Chain(searches') /\ Hits(searches', Len(searches))
    BY <1>1, <2>1, AsksOn
  <2> QED BY <2>2 DEF Asks
<1> QED BY <1>2, <1>3

(* A loop stops when it has treated all it was to, or at the end. *)
LEMMA WhyStops ==
  ASSUME IInv, RInv, InLoop, ~Searching, i.src_e <= end
  PROVE  Len(searches) = call.n \/ i.src_e = end
<1>1. /\ n \in Nat
      /\ IF call.n = All THEN n = All \/ end = 0
         ELSE n + Len(searches) <= call.n /\ (end # 0 => n + Len(searches) = call.n)
  BY DEF RInv, Counted
<1>2. Len(searches) \in Nat /\ i.src_e \in Nat /\ end \in Nat /\ All \in Nat /\ 1 < All
  BY Basics, CountType DEF IInv, Typed, RInv
<1>3. CASE n # 0
  <2>1. ~(i.src_e < end)
    BY <1>3 DEF Searching
  <2> QED BY <1>2, <2>1
<1>4. CASE n = 0 /\ end = 0
  BY <1>2, <1>4
<1>5. CASE n = 0 /\ end # 0
  <2>1. call.n # All
    BY <1>1, <1>2, <1>5
  <2>2. n + Len(searches) = call.n
    BY <1>1, <1>5, <2>1
  <2> QED BY <1>2, <1>5, <2>2
<1> QED BY <1>3, <1>4, <1>5

LEMMA NotTooMany ==
  ASSUME IInv, RInv, InLoop
  PROVE  call.n # All => Len(searches) <= call.n
<1>1. /\ n \in Nat /\ (call.n # All => n + Len(searches) <= call.n)
  BY DEF RInv, Counted
<1>2. Len(searches) \in Nat /\ call.n \in Nat
  BY CountType DEF IInv, Typed, RInv
<1> QED BY <1>1, <1>2

(* A loop that ends with the text it has written and the rest. *)
LEMMA LoopEnds ==
  ASSUME IInv, RInv, InLoop, call' = call, end' = end, i' = i, Done(Changed),
         searches' \in Seq(Answers), Stops \/ (Searching /\ NotFound(i.src_e)),
         NEW u \in Seq(Char), u = Written \o SubSeq(call.text, i.src + 1, end),
         Holds(data', 0, u), data'[Len(u)] = NUL, size' = Len(u)
  PROVE  RInv'
<1>1. /\ CallOK /\ CallFits /\ end = Len(call.text) /\ end \in Nat /\ searches \in Seq(Answers)
      /\ i.src \in Nat /\ i.src_e \in Nat
  BY Basics DEF IInv, Typed, RInv
<1>2. PICK m, e \in Nat, w \in Seq(Char) : Stands(m, e, w)
  BY Onward
<1>3. /\ m = Len(searches) /\ Hits(searches, m) /\ e = EndOf(searches, m) /\ w = Written
      /\ i.src <= i.src_e /\ i.src_e <= end
  BY <1>2 DEF Stands
<1>4. PICK q \in Seq(Answers) : q = searches'
  OBVIOUS
<1>5. /\ Chain(q) /\ Hits(q, m) /\ Same(q, searches, m)
      /\ Stops \/ q[Len(q)].answer = "nomatch"
  BY <1>3, <1>4, SearchedOut
<1>6. pc' = "done" /\ ret' = m
  BY <1>1, <1>3, ChangedIs DEF Done
<1>7. u = Rewritten'[m] \o SubSeq(call.text, EndOf(q, m) + 1, end)
  <2>1. Rewritten'[m] = Rewritten[m]
    BY <1>1, <1>3, <1>4, <1>5, RewrittenSame
  <2>2. EndOf(q, m) = e
    <3>1. CASE m = 0
      BY <1>3, <3>1 DEF EndOf
    <3>2. CASE m # 0
      <4>1. m \in 1..m
        BY <3>2
      <4>2. q[m] = searches[m]
        BY <1>5, <4>1 DEF Same
      <4> QED BY <1>3, <3>2, <4>2 DEF EndOf
    <3> QED BY <3>1, <3>2
  <2>3. i.src <= end /\ end <= end
    BY <1>1, <1>3
  <2>4. Rewritten[m] \o SubSeq(call.text, e + 1, end) = w \o SubSeq(call.text, i.src + 1, end)
    BY <1>1, <1>2, <2>3 DEF Stands
  <2> QED BY <1>3, <2>1, <2>2, <2>4
<1>8. call.n # All => m <= call.n
  BY <1>3, NotTooMany
<1>9. m = call.n \/ i'.src_e = end \/ q[Len(q)].answer = "nomatch"
  <2>1. CASE Stops
    BY <1>3, <2>1, WhyStops DEF Stops
  <2> QED BY <1>5, <2>1
<1> QED BY <1>1, <1>4, <1>5, <1>6, <1>7, <1>8, <1>9, Finish

LEMMA RmnEndRewrites == ASSUME IInv, RInv, RmnEnd, searches' \in Seq(Answers) PROVE RInv'
<1>1. /\ pc = "rmn" /\ call' = call /\ end' = end /\ i' = i /\ Done(Changed) /\ InLoop
      /\ Stops \/ (Searching /\ NotFound(i.src_e))
      /\ Works(Buffer, StrMove(data, i.dst, i.src, end - i.src), i.dst + (end - i.src))
  BY DEF RmnEnd, loop, InLoop
<1>2. i.dst <= i.src /\ i.src <= end /\ Intact(i.dst) /\ dst_s = 0
  BY <1>1, InRmn DEF RInv, Resuming
<1>3. /\ i.dst \in Nat /\ i.src \in Nat /\ end \in Nat /\ alloc \in Nat /\ end < alloc
      /\ data \in Block(alloc) /\ CallOK /\ end = Len(call.text)
  BY Basics
<1>4. PICK dst, src, e, c, b \in Nat : dst = i.dst /\ src = i.src /\ e = end /\ c = alloc /\ b = 0
  BY <1>3
<1>5. PICK m, f \in Nat, w \in Seq(Char) : Stands(m, f, w)
  BY <1>1, Onward
<1>6. w = Written /\ dst = b + Len(w) /\ Holds(data, b, w)
  BY <1>2, <1>4, <1>5 DEF Stands
<1>7. /\ dst <= src /\ src <= e /\ e < c /\ e <= c /\ e <= Len(call.text) /\ data \in Block(c)
      /\ dst + (e - src) < c
  <2>1. dst <= src /\ src <= e /\ e < c
    BY <1>2, <1>3, <1>4
  <2>2. e <= c /\ dst + (e - src) < c
    BY <2>1
  <2> QED BY <1>3, <1>4, <2>1, <2>2
<1>8. Source(data, src, e)
  <2>1. \A j \in src..(e - 1) : j \in dst..(e - 1)
    BY <1>7
  <2> QED BY <1>2, <1>4, <2>1 DEF Source, Intact
<1>9. PICK t, v : t = SubSeq(call.text, src + 1, e) /\ v = StrMove(data, dst, src, e - src)
  OBVIOUS
<1>10. /\ Holds(v, b, w \o t) /\ v[dst + (e - src)] = NUL
       /\ w \o t \in Seq(Char) /\ Len(w \o t) = Len(w) + (e - src)
  <2>1. LET o == SubSeq(call.text, src + 1, e)
            z == StrMove(data, dst, src, e - src)
        IN  /\ Holds(z, b, w \o o) /\ z[dst + (e - src)] = NUL
            /\ w \o o \in Seq(Char) /\ Len(w \o o) = Len(w) + (e - src)
    BY <1>3, <1>6, <1>7, <1>8, ClosedBehind, SMTT(30)
  <2> QED BY <1>9, <2>1
<1>11. PICK u \in Seq(Char) : u = w \o t
  BY <1>10
<1>12. Len(u) = dst + (e - src)
  <2>1. PICK l \in Nat : l = Len(w)
    OBVIOUS
  <2>2. dst = 0 + l /\ Len(u) = l + (e - src)
    BY <1>4, <1>6, <1>10, <1>11, <2>1
  <2> QED BY <2>2
<1>13. data' = v /\ size' = dst + (e - src)
  BY <1>1, <1>4, <1>9 DEF Works
<1>14. Holds(data', 0, u) /\ data'[Len(u)] = NUL /\ size' = Len(u)
  BY <1>4, <1>10, <1>11, <1>12, <1>13
<1>15. u = Written \o SubSeq(call.text, i.src + 1, end)
  BY <1>4, <1>6, <1>9, <1>11
<1> QED BY <1>1, <1>14, <1>15, LoopEnds

LEMMA RplcnEndRewrites == ASSUME IInv, RInv, RplcnEnd, searches' \in Seq(Answers) PROVE RInv'
<1>1. /\ pc = "rplcn" /\ call' = call /\ end' = end /\ i' = i /\ Done(Changed) /\ InLoop
      /\ Stops \/ (Searching /\ NotFound(i.src_e))
      /\ Works(Buffer, StrMove(Move(data, i.dst, i.src, end - i.src), 0, dst_s,
                               i.dst + (end - i.src) - dst_s),
               i.dst + (end - i.src) - dst_s)
  BY DEF RplcnEnd, loop, InLoop
<1>2. i.dst + (end - i.src) < alloc /\ Intact(0) /\ dst_s = end + 1
  BY <1>1, InRplcn
<1>3. /\ i.dst \in Nat /\ i.src \in Nat /\ end \in Nat /\ alloc \in Nat /\ end < alloc
      /\ data \in Block(alloc) /\ CallOK /\ end = Len(call.text) /\ dst_s \in Nat
  BY Basics
<1>4. PICK dst, src, e, c, b \in Nat :
        dst = i.dst /\ src = i.src /\ e = end /\ c = alloc /\ b = dst_s
  BY <1>3
<1>5. PICK m, f \in Nat, w \in Seq(Char) : Stands(m, f, w)
  BY <1>1, Onward
<1>6. /\ w = Written /\ dst = b + Len(w) /\ JustBehind(dst, b, w) /\ Holds(data, b, w)
      /\ src <= e
  <2>1. i.src <= i.src_e /\ i.src_e <= end /\ i.src_e \in Nat
    BY <1>5, Basics DEF Stands
  <2>2. i.src <= end
    BY <1>3, <2>1
  <2> QED BY <1>4, <1>5, <2>2 DEF Stands, JustBehind
<1>7. /\ e < c /\ e <= c /\ e <= Len(call.text) /\ data \in Block(c)
      /\ dst + (e - src) < c /\ dst + (e - src) <= c
  <2>1. dst + (e - src) < c /\ e < c
    BY <1>2, <1>3, <1>4
  <2>2. e <= c /\ dst + (e - src) <= c
    BY <1>6, <2>1
  <2> QED BY <1>3, <1>4, <2>1, <2>2
<1>8. Source(data, src, e)
  <2>1. \A j \in src..(e - 1) : j \in 0..(e - 1)
    BY <1>7
  <2> QED BY <1>2, <1>4, <2>1 DEF Source, Intact
<1>9. PICK v : v = Move(data, dst, src, e - src)
  OBVIOUS
<1>10. PICK u \in Seq(Char) :
         /\ u = w \o SubSeq(call.text, src + 1, e)
         /\ Behind(v, data, c, b, u, dst, e - src)
         /\ Len(u) = Len(w) + (e - src)
  <2>1. Behind(Move(data, dst, src, e - src), data, c, b, w \o SubSeq(call.text, src + 1, e),
               dst, e - src)
    BY <1>3, <1>6, <1>7, <1>8, MovedBehind
  <2>2. /\ w \o SubSeq(call.text, src + 1, e) \in Seq(Char)
        /\ Len(w \o SubSeq(call.text, src + 1, e)) = Len(w) + (e - src)
    BY <1>3, <1>6, <1>7, <1>8, MovedBehind
  <2> QED BY <1>9, <2>1, <2>2
<1>11. v \in Block(c) /\ Holds(v, b, u)
  BY <1>10 DEF Behind
<1>12. b + Len(u) <= c /\ Len(u) < c /\ dst + (e - src) - b = Len(u)
  <2>1. PICK l, k \in Nat : l = Len(w) /\ k = Len(u)
    OBVIOUS
  <2>2. dst = b + l /\ k = l + (e - src) /\ b > 0
    BY <1>2, <1>3, <1>4, <1>6, <1>10, <2>1
  <2>3. b + k <= c /\ k < c /\ dst + (e - src) - b = k
    BY <1>7, <2>2
  <2> QED BY <2>1, <2>3
<1>13. data' = StrMove(v, 0, b, Len(u)) /\ size' = Len(u)
  BY <1>1, <1>4, <1>9, <1>12 DEF Works
<1>14. Holds(data', 0, u) /\ data'[Len(u)] = NUL
  <2>1. LET z == StrMove(v, 0, b, Len(u))
        IN  Holds(z, 0, u) /\ z[Len(u)] = NUL
    BY <1>11, <1>12, ClosedAtFront
  <2> QED BY <1>13, <2>1
<1>15. u = Written \o SubSeq(call.text, i.src + 1, end)
  BY <1>4, <1>6, <1>10
<1> QED BY <1>1, <1>13, <1>14, <1>15, LoopEnds

LEMMA LoopFailsRewrites ==
  ASSUME IInv, RInv, NEW p \in {"rmn", "rplcn"}, LoopFails(p), searches' \in Seq(Answers)
  PROVE  RInv'
<1>1. /\ pc # "done" /\ InLoop /\ call' = call /\ end' = end
      /\ ExecFails(i.src_e) /\ Unchanged(ExecError)
  BY DEF LoopFails, loop, InLoop
<1>2. i.src_e = Resume
  BY <1>1 DEF RInv, Resuming
<1> QED BY <1>1, <1>2, SearchFails

(***************************************************************************)
(* A match of the loop that replaces.                                       *)
(***************************************************************************)

LEMMA ReplacedText ==
  ASSUME IInv, RInv, pc = "rplcn", NEW s \in Spans(i.src_e, end), NEW g \in Groups(s),
         NEW text, text = IF refs # <<>> THEN Cpy(s, g) ELSE call.rplc
  PROVE  \A a : Fitting(a) /\ a.span = s /\ a.group = g => Expanded(a) = text
<1>1. (refs # <<>> <=> HasRefs) /\ Intact(0)
  BY InRplcn DEF RInv, Resuming, InLoop
<1>2. ASSUME NEW a, Fitting(a), a.span = s, a.group = g PROVE Expanded(a) = text
  <2>1. CASE refs # <<>>
    <3>1. call.backref
      BY <1>1, <2>1 DEF HasRefs
    <3>2. CallOK /\ end \in Nat /\ end = Len(call.text) /\ call.text \in Seq(Char) /\ i.src_e \in Nat
      BY Basics
    <3>3. \A k \in 0..(end - 1) : data[k] \in Char
      <4> TAKE k \in 0..(end - 1)
      <4>1. k + 1 \in 1..Len(call.text)
        BY <3>2
      <4> QED BY <1>1, <3>2, <4>1 DEF Intact
    <3>4. Matched(s, g)
      BY <3>2, <3>3, MatchIsPart DEF Matched
    <3>5. Cpy(a.span, a.group) = Expanded(a)
      BY <1>1, <1>2, <3>1, <3>4, CpyIsExpanded
    <3> QED BY <1>2, <2>1, <3>5
  <2>2. CASE refs = <<>>
    <3>1. call.backref => RefFirst = 0
      BY <1>1, <2>2 DEF HasRefs
    <3> QED BY <1>2, <2>2, <3>1, ExpandedPlain
  <2> QED BY <2>1, <2>2
<1> QED BY <1>2

(* What has been reserved is room enough, and holds what there was. *)
Grown(b) ==
  /\ b.alloc \in Nat /\ b.data \in Block(b.alloc) /\ b.alloc >= alloc
  /\ \A j \in 0..(alloc - 1) : b.data[j] = data[j]

LEMMA GrownHolds ==
  ASSUME IInv, NEW need \in Nat, NEW b \in Reserved(Buffer, need)
  PROVE  Grown(b) /\ b.alloc >= need
<1>1. Sound(Buffer) /\ Buffer.alloc = alloc
  BY BufferSound
<1>2. /\ b.alloc \in Nat /\ b.data \in Block(b.alloc) /\ b.alloc >= alloc /\ b.alloc >= need
  BY GrownKeeps
<1>3. \A j \in 0..(alloc - 1) : b.data[j] = data[j]
  <2> TAKE j \in 0..(alloc - 1)
  <2>1. j \in 0..(Buffer.alloc - 1)
    BY <1>1
  <2>2. b.data[j] = Buffer.data[j]
    BY <1>1, <2>1, ReservedLeaves
  <2> QED BY <2>2 DEF Buffer
<1> QED BY <1>2, <1>3 DEF Grown

LEMMA RoomReserved ==
  ASSUME IInv, RInv, pc = "rplcn", NEW s \in Spans(i.src_e, end), NEW l \in Nat,
         NEW b \in Reserved(Buffer, new_cap(l, s[2] - s[1])),
         NEW k \in {0, 1}, s[2] + k <= end
  PROVE  Grown(b) /\ Room(i.dst, i.src, end, s[1], s[2], k, l, b.alloc)
<1>1. s[1] \in Nat /\ s[2] \in Nat /\ i.src <= s[1] /\ s[1] <= s[2] /\ s[2] <= end /\ s[1] <= end
  BY MatchAhead DEF InLoop
<1>2. i.dst \in Nat /\ i.src \in Nat /\ end \in Nat
  BY Basics
<1> DEFINE more == IF l > s[2] - s[1] THEN l - (s[2] - s[1]) ELSE 0
<1>3. more \in Nat /\ end - i.src \in Nat
  <2>1. \A x, y \in Nat : (IF x > y THEN x - y ELSE 0) \in Nat
    OBVIOUS
  <2>2. s[2] - s[1] \in Nat
    BY <1>1
  <2>3. i.src <= end
    BY <1>1, <1>2
  <2> QED BY <1>2, <2>1, <2>2, <2>3
<1>4. new_cap(l, s[2] - s[1]) = i.dst + (end - i.src) + 2 + more
  BY DEF new_cap
<1> HIDE DEF more
<1>5. \A x, y, z \in Nat : x + y + 2 + z \in Nat
  OBVIOUS
<1>6. new_cap(l, s[2] - s[1]) \in Nat
  BY <1>2, <1>3, <1>4, <1>5
<1>7. Grown(b) /\ b.alloc >= new_cap(l, s[2] - s[1])
  BY <1>6, GrownHolds
<1> QED BY <1>1, <1>2, <1>4, <1>7 DEF Room, Grown, more

(* The bytes of one match: what is before it, what replaces it, and the     *)
(* character that is stepped over, behind what has been written.            *)
Replacing(v, dst, src, x, y, k, text) ==
  Stepped(Copy(Move(v, dst, src, x - src), dst + (x - src), text),
          dst + (x - src) + Len(text), y, k)

LEMMA ReplacedBehind ==
  ASSUME CallOK, NEW c \in Nat, NEW v \in Block(c), NEW b \in Nat, NEW w \in Seq(Char),
         Holds(v, b, w), NEW dst \in Nat, JustBehind(dst, b, w),
         NEW src \in Nat, NEW x \in Nat, NEW y \in Nat, NEW k \in {0, 1},
         NEW e \in Nat, src <= x, x <= y, y + k <= e, e = Len(call.text), e < dst, e <= c,
         Source(v, 0, e), NEW text \in Seq(Char), dst + (x - src) + Len(text) + k <= c
  PROVE  Carries(Replacing(v, dst, src, x, y, k, text), b,
                 ((w \o SubSeq(call.text, src + 1, x)) \o text) \o SubSeq(call.text, y + 1, y + k),
                 ((Len(w) + (x - src)) + Len(text)) + k)
<1>1. PICK at, p, l \in Nat :
        /\ at = dst + (x - src) /\ p = dst + (x - src) + Len(text) /\ l = Len(text)
        /\ p = at + l /\ p + k <= c /\ at + l <= c /\ dst + (x - src) <= c
        /\ dst <= at /\ dst <= p
  <2>1. PICK l \in Nat : l = Len(text)
    OBVIOUS
  <2>2. dst + (x - src) + l + k <= c
    BY <2>1
  <2>3. /\ dst + (x - src) \in Nat /\ dst + (x - src) + l \in Nat
        /\ dst + (x - src) + l <= c /\ dst + (x - src) <= c
        /\ dst <= dst + (x - src) /\ dst <= dst + (x - src) + l
    BY <2>2
  <2> QED BY <2>1, <2>2, <2>3
<1>2. x <= e /\ y <= e /\ x <= c /\ y + k <= c /\ x <= Len(call.text) /\ y + k <= Len(call.text)
  OBVIOUS
<1>3. PICK m : m = Move(v, dst, src, x - src)
  OBVIOUS
<1>4. PICK w1 \in Seq(Char) :
        /\ w1 = w \o SubSeq(call.text, src + 1, x)
        /\ Behind(m, v, c, b, w1, dst, x - src) /\ Len(w1) = Len(w) + (x - src)
  <2>1. Source(v, src, x)
    <3>1. \A j \in src..(x - 1) : j \in 0..(e - 1)
      BY <1>2
    <3> QED BY <3>1 DEF Source
  <2>2. dst + (x - src) <= c
    BY <1>1
  <2>3. Behind(Move(v, dst, src, x - src), v, c, b, w \o SubSeq(call.text, src + 1, x), dst, x - src)
    BY <1>2, <2>1, <2>2, MovedBehind
  <2>4. /\ w \o SubSeq(call.text, src + 1, x) \in Seq(Char)
        /\ Len(w \o SubSeq(call.text, src + 1, x)) = Len(w) + (x - src)
    BY <1>2, <2>1, <2>2, MovedBehind
  <2> QED BY <1>3, <2>3, <2>4
<1>5. PICK m2 : m2 = Copy(m, at, text)
  OBVIOUS
<1>6. at = b + Len(w1)
  <2>1. PICK a, d \in Nat : a = Len(w) /\ d = Len(w1)
    BY <1>4
  <2>2. dst = b + a /\ d = a + (x - src)
    BY <1>4, <2>1 DEF JustBehind
  <2>3. at = b + d
    BY <1>1, <2>2
  <2> QED BY <2>1, <2>3
<1>7. PICK w2 \in Seq(Char) :
        w2 = w1 \o text /\ Behind(m2, m, c, b, w2, at, l) /\ Len(w2) = Len(w1) + l
  <2>1. m \in Block(c) /\ Holds(m, b, w1) /\ at + Len(text) <= c
    BY <1>1, <1>4 DEF Behind
  <2>2. Behind(Copy(m, at, text), m, c, b, w1 \o text, at, Len(text))
    BY <1>4, <1>6, <2>1, CopiedBehind
  <2>3. w1 \o text \in Seq(Char) /\ Len(w1 \o text) = Len(w1) + Len(text)
    BY <1>4, <1>6, <2>1, CopiedBehind, SMTT(30)
  <2> QED BY <1>1, <1>5, <2>2, <2>3
<1>8. JustBehind(p, b, w2)
  <2>1. PICK a, d \in Nat : a = Len(w1) /\ d = Len(w2)
    BY <1>4, <1>7, SMTT(30)
  <2>2. at = b + a /\ d = a + l /\ p = at + l
    BY <1>1, <1>6, <1>7, <2>1
  <2>3. p = b + d
    BY <2>1, <2>2
  <2> QED BY <2>1, <2>3 DEF JustBehind
<1>9. Source(m2, y, y + k)
  <2>1. ASSUME NEW j \in y..((y + k) - 1) PROVE m2[j] = call.text[j + 1]
    <3>1. j \in 0..(c - 1) /\ j \in 0..(e - 1) /\ j < dst /\ j < at
      <4>1. PICK z \in Nat : z = y + k /\ z <= e
        OBVIOUS
      <4>2. j \in y..(z - 1)
        BY <4>1
      <4>3. j \in Nat /\ j < e
        BY <4>1, <4>2
      <4> QED BY <1>1, <4>3, SMTT(30)
    <3>2. m2[j] = m[j] /\ m[j] = v[j]
      BY <1>4, <1>7, <3>1 DEF Behind
    <3> QED BY <3>1, <3>2 DEF Source
  <2> QED BY <2>1 DEF Source
<1>10. Carries(Stepped(m2, p, y, k), b, w2 \o SubSeq(call.text, y + 1, y + k), Len(w2) + k)
  <2>1. m2 \in Block(c) /\ Holds(m2, b, w2) /\ w2 \in Seq(Char)
    BY <1>7 DEF Behind
  <2> QED BY <1>1, <1>2, <1>8, <1>9, <2>1, SteppedBehind
<1>11. Stepped(m2, p, y, k) = Replacing(v, dst, src, x, y, k, text)
  BY <1>1, <1>3, <1>5 DEF Replacing
<1>12. Len(w2) = (Len(w) + (x - src)) + Len(text)
  BY <1>1, <1>4, <1>7
<1> QED BY <1>4, <1>7, <1>10, <1>11, <1>12

LEMMA RplcnGoesOnRewrites ==
  ASSUME IInv, RInv, pc = "rplcn", pc' = pc, call' = call, dst_s' = dst_s, end' = end, refs' = refs,
         n # 0, NEW s \in Spans(i.src_e, end), NEW g \in Groups(s), Found(i.src_e, s, g),
         searches' \in Seq(Answers), NEW text \in Seq(Char),
         \A a : Fitting(a) /\ a.span = s /\ a.group = g => Expanded(a) = text,
         NEW b \in Reserved(Buffer, new_cap(Len(text), s[2] - s[1])),
         AfterMatch(b, Copy(Move(b.data, i.dst, i.src, s[1] - i.src), i.dst + (s[1] - i.src), text),
                    i.dst + (s[1] - i.src) + Len(text), s)
  PROVE  RInv'
<1>1. /\ InLoop /\ Intact(0) /\ dst_s = end + 1 /\ dst_s <= i.dst
  BY InRplcn DEF InLoop
<1>2. /\ i.dst \in Nat /\ i.src \in Nat /\ end \in Nat /\ alloc \in Nat /\ end < alloc
      /\ CallOK /\ end = Len(call.text) /\ dst_s \in Nat /\ data \in Block(alloc)
  BY Basics
<1>3. s[1] \in Nat /\ s[2] \in Nat /\ i.src <= s[1] /\ s[1] <= s[2] /\ s[2] <= end /\ s[1] <= end
  BY <1>1, MatchAhead
<1>4. PICK k \in {0, 1} :
        /\ k = 1 <=> s[1] = s[2] /\ s[2] < end
        /\ i' = [dst |-> i.dst + (s[1] - i.src) + Len(text) + k,
                 src |-> s[2] + k, src_e |-> s[2] + k]
        /\ n' = Less(n)
        /\ Works(b, Stepped(Copy(Move(b.data, i.dst, i.src, s[1] - i.src),
                                 i.dst + (s[1] - i.src), text),
                            i.dst + (s[1] - i.src) + Len(text), s[2], k), size)
  BY AfterMatchIs
<1>5. s[2] + k <= end
  BY <1>2, <1>3, <1>4
<1>6. Len(text) \in Nat
  OBVIOUS
<1>7. Grown(b) /\ Room(i.dst, i.src, end, s[1], s[2], k, Len(text), b.alloc)
  BY <1>5, <1>6, RoomReserved
<1>8. i.dst + (s[1] - i.src) + Len(text) + k <= b.alloc
  BY <1>7, RoomLeft
<1>9. PICK dst, src, x, y, e, c, o \in Nat :
        /\ dst = i.dst /\ src = i.src /\ x = s[1] /\ y = s[2] /\ e = end /\ c = b.alloc
        /\ o = dst_s
  BY <1>2, <1>3, <1>7 DEF Grown
<1>10. PICK v : v = b.data
  OBVIOUS
<1>11. /\ v \in Block(c) /\ alloc <= c /\ e < alloc
       /\ \A j \in 0..(alloc - 1) : v[j] = data[j]
  BY <1>2, <1>7, <1>9, <1>10 DEF Grown
<1>12. /\ src <= x /\ x <= y /\ y + k <= e /\ e = Len(call.text) /\ e < dst /\ e <= c
       /\ dst + (x - src) + Len(text) + k <= c /\ o = e + 1
  <2>1. o = e + 1 /\ o <= dst /\ src <= x /\ x <= y /\ y + k <= e /\ e = Len(call.text)
    BY <1>1, <1>2, <1>3, <1>5, <1>9
  <2>2. e < dst /\ e <= c
    BY <1>2, <1>11, <2>1
  <2> QED BY <1>8, <1>9, <2>1, <2>2
<1>13. PICK m, f \in Nat, w \in Seq(Char) : Stands(m, f, w)
  BY <1>1, Onward
<1>14. w = Written /\ JustBehind(dst, o, w) /\ Holds(data, o, w) /\ i.src <= i.src_e /\ i.src_e <= end
  BY <1>9, <1>13 DEF Stands, JustBehind
<1>15. dst < alloc
  <2>1. i.dst + (end - i.src) < alloc
    BY InRplcn
  <2>2. dst + (e - src) < alloc /\ src <= e
    BY <1>3, <1>9, <1>12, <2>1, SMTT(30)
  <2> QED BY <1>2, <2>2
<1>16. Holds(v, o, w)
  <2>1. ASSUME NEW j \in 1..Len(w) PROVE v[o + j - 1] = w[j]
    <3>1. PICK l \in Nat : l = Len(w) /\ dst = o + l
      BY <1>14 DEF JustBehind
    <3>2. o + j - 1 \in 0..(alloc - 1)
      BY <1>2, <1>15, <3>1
    <3>3. data[o + j - 1] = w[j]
      BY <1>14 DEF Holds
    <3> QED BY <1>11, <3>2, <3>3
  <2> QED BY <2>1 DEF Holds
<1>17. Source(v, 0, e)
  <2>1. ASSUME NEW j \in 0..(e - 1) PROVE v[j] = call.text[j + 1]
    <3>1. j \in 0..(alloc - 1) /\ j \in 0..(end - 1)
      BY <1>2, <1>9, <1>11
    <3> QED BY <1>1, <1>11, <3>1 DEF Intact
  <2> QED BY <2>1 DEF Source
<1>18. PICK u : u = ((w \o SubSeq(call.text, src + 1, x)) \o text) \o SubSeq(call.text, y + 1, y + k)
  OBVIOUS
<1>19. Carries(Replacing(v, dst, src, x, y, k, text), o, u, ((Len(w) + (x - src)) + Len(text)) + k)
  <2>1. Carries(Replacing(v, dst, src, x, y, k, text), o,
                ((w \o SubSeq(call.text, src + 1, x)) \o text) \o SubSeq(call.text, y + 1, y + k),
                ((Len(w) + (x - src)) + Len(text)) + k)
    <3>1. CallOK /\ JustBehind(dst, o, w)
      BY <1>2, <1>14
    <3>2. /\ src <= x /\ x <= y /\ y + k <= e /\ e = Len(call.text) /\ e < dst /\ e <= c
          /\ dst + (x - src) + Len(text) + k <= c
      BY <1>12
    <3>3. v \in Block(c)
      BY <1>11
    <3> QED BY <1>16, <1>17, <3>1, <3>2, <3>3, ReplacedBehind, ZenonT(30)
  <2> QED BY <1>18, <2>1
<1>20. data' = Replacing(v, dst, src, x, y, k, text)
  BY <1>4, <1>9, <1>10 DEF Works, Replacing
<1>21. Holds(data', dst_s, u)
  BY <1>9, <1>19, <1>20 DEF Carries
<1>22. i'.dst = dst_s + Len(u)
  <2>1. PICK l, h \in Nat : l = Len(w) /\ h = Len(text)
    BY <1>6
  <2>2. dst = o + l /\ Len(u) = ((l + (x - src)) + h) + k
    BY <1>14, <1>19, <2>1 DEF JustBehind, Carries
  <2>3. i'.dst = dst + (x - src) + h + k
    BY <1>4, <1>9, <2>1
  <2>4. dst + (x - src) + h + k = o + (((l + (x - src)) + h) + k)
    <3>1. PICK z \in Nat : z = x - src
      BY <1>12
    <3>2. (o + l) + z + h + k = o + (((l + z) + h) + k)
      OBVIOUS
    <3> QED BY <2>2, <3>1, <3>2
  <2> QED BY <1>9, <2>2, <2>3, <2>4
<1>23. u = ((Written \o SubSeq(call.text, i.src + 1, s[1])) \o text)
             \o SubSeq(call.text, s[2] + 1, s[2] + k)
  BY <1>9, <1>14, <1>18
<1>24. i'.src = s[2] + k /\ i'.src_e = s[2] + k
  BY <1>4
<1> QED BY <1>1, <1>4, <1>21, <1>22, <1>23, <1>24, LoopMatched

LEMMA RplcnStepRewrites == ASSUME IInv, RInv, RplcnStep, searches' \in Seq(Answers) PROVE RInv'
<1>1. /\ pc = "rplcn" /\ call' = call /\ dst_s' = dst_s /\ end' = end /\ refs' = refs
      /\ n # 0 /\ InLoop
  BY DEF RplcnStep, Searching, InLoop
<1>2. PICK s \in Spans(i.src_e, end) : \E g \in Groups(s) :
       LET prev_len == s[1] - i.src
           at == i.dst + prev_len
       IN  /\ Found(i.src_e, s, g)
           /\ \E rlen \in {IF refs # <<>> THEN StrLen(s, g) ELSE rplc_len},
                 text \in {IF refs # <<>> THEN Cpy(s, g) ELSE call.rplc} :
                LET need == new_cap(rlen, s[2] - s[1])
                IN  \/ \E b \in Reserved(Buffer, need) :
                         /\ AfterMatch(b, Copy(Move(b.data, i.dst, i.src, prev_len), at, text),
                                       at + rlen, s)
                         /\ Touch(b, IF rlen < Len(text) THEN at + Len(text) ELSE i'.dst)
                         /\ UNCHANGED <<pc, ret>>
                    \/ /\ ReserveFails(Buffer, need)
                       /\ size' = i.dst
                       /\ Done(ESpace)
                       /\ UNCHANGED <<data, alloc, capacity, i, n, prev_zero, overrun>>
  BY DEF RplcnStep
<1> DEFINE at == i.dst + (s[1] - i.src)
<1>3. PICK g \in Groups(s) :
        /\ Found(i.src_e, s, g)
        /\ \E rlen \in {IF refs # <<>> THEN StrLen(s, g) ELSE rplc_len},
              text \in {IF refs # <<>> THEN Cpy(s, g) ELSE call.rplc} :
             \/ \E b \in Reserved(Buffer, new_cap(rlen, s[2] - s[1])) :
                  /\ AfterMatch(b, Copy(Move(b.data, i.dst, i.src, s[1] - i.src), at, text),
                                at + rlen, s)
                  /\ UNCHANGED <<pc, ret>>
             \/ Done(ESpace)
  BY <1>2
<1>4. PICK rlen \in {IF refs # <<>> THEN StrLen(s, g) ELSE rplc_len},
           text \in {IF refs # <<>> THEN Cpy(s, g) ELSE call.rplc} :
        \/ \E b \in Reserved(Buffer, new_cap(rlen, s[2] - s[1])) :
             /\ AfterMatch(b, Copy(Move(b.data, i.dst, i.src, s[1] - i.src), at, text),
                           at + rlen, s)
             /\ UNCHANGED <<pc, ret>>
        \/ Done(ESpace)
  BY <1>3
<1>5. text \in Seq(Char) /\ rlen = Len(text)
  BY <1>1, ReplacedWith
<1>6. \A a : Fitting(a) /\ a.span = s /\ a.group = g => Expanded(a) = text
  BY <1>1, ReplacedText
<1>7. ASSUME NEW b \in Reserved(Buffer, new_cap(rlen, s[2] - s[1])),
             AfterMatch(b, Copy(Move(b.data, i.dst, i.src, s[1] - i.src), at, text), at + rlen, s),
             UNCHANGED <<pc, ret>>
      PROVE  RInv'
  BY <1>1, <1>3, <1>5, <1>6, <1>7, RplcnGoesOnRewrites
<1>8. ASSUME Done(ESpace) PROVE RInv'
  <2>1. Part(s) /\ Part(g) /\ s # <<>>
    <3>1. end \in Nat /\ i.src_e \in Nat
      BY Basics
    <3>2. PICK x, y : s = <<x, y>>
      BY <3>1, SpanBounds
    <3>3. <<x, y>> # <<>>
      OBVIOUS
    <3> QED BY <3>1, <3>2, <3>3, MatchIsPart
  <2>2. Asked(Resume, "match", s, g) /\ pc # "done"
    BY <1>1, <1>3 DEF Found, RInv, Resuming
  <2>3. Chain(searches')
    BY <2>1, <2>2, AsksOn
  <2>4. pc' = "done" /\ ~(ret' >= 0) /\ CallFits
    BY <1>8 DEF Done, ESpace, RInv
  <2> QED BY <1>1, <2>3, <2>4, GivesUp
<1> QED BY <1>4, <1>7, <1>8

(***************************************************************************)
(* The invariant holds.                                                     *)
(***************************************************************************)

LEMMA SameRewritten ==
  ASSUME call' = call, end' = end, searches' = searches
  PROVE  Rewritten' = Rewritten /\ Changed' = Changed
BY DEF Rewritten, LastEnd, Changed, Expanded, Piece, Refers, Escapes, Referred, Group, IsDigit, rplc_len

LEMMA StutterRewrites == ASSUME RInv, UNCHANGED vars PROVE RInv'
<1>1. /\ data' = data /\ size' = size /\ call' = call /\ pc' = pc /\ i' = i /\ dst_s' = dst_s
      /\ end' = end /\ n' = n /\ refs' = refs /\ searches' = searches /\ ret' = ret
  BY DEF vars, string, loop
<1>2. Rewritten' = Rewritten /\ Changed' = Changed
  BY <1>1, SameRewritten
<1>3. CallFits' /\ Chained' /\ Entering' /\ Counted'
  BY <1>1 DEF RInv, CallFits, Chained, Chain, NextAfter, Hits, Part, Entering, Counted, InLoop
<1>4. Resuming'
  <2>1. HasRefs' <=> HasRefs
    BY <1>1, SameReferences DEF HasRefs
  <2> QED BY <1>1, <2>1 DEF RInv, Resuming, Resume, NextAfter, EndOf, InLoop
<1>5. Standing'
  <2>1. Written' = Written
    BY <1>1, <1>2 DEF Written, EndOf
  <2> QED BY <1>1, <2>1 DEF RInv, Standing, InLoop, Holds
<1>6. Rewrites'
  <2>1. Expected' = Expected
    BY <1>1, <1>2 DEF Expected, LastEnd
  <2> QED BY <1>1, <1>2, <2>1 DEF RInv, Rewrites, NextFrom, Prefix
<1> QED BY <1>3, <1>4, <1>5, <1>6 DEF RInv

LEMMA InitRewrites == ASSUME Init PROVE RInv
<1>1. /\ pc = "entry" /\ searches = <<>> /\ dst_s = 0 /\ end = size
  BY DEF Init
<1>2. PICK text \in Texts :
        \E op \in Ops, start \in 0..(Len(text) + 1), cnt \in Counts \cup {All},
           rplc \in Rplcs, backref \in BOOLEAN, nmatch \in 1..2,
           pattern \in Patterns, cf_newline \in BOOLEAN,
           newlines \in {{}} \cup {{text[k]} : k \in DOMAIN text} :
             Calls(text, op, start, cnt, rplc, backref, nmatch, pattern, cf_newline, newlines)
  BY DEF Init, Calls
<1>3. PICK op \in Ops, start \in 0..(Len(text) + 1), cnt \in Counts \cup {All},
           rplc \in Rplcs, backref \in BOOLEAN, nmatch \in 1..2,
           pattern \in Patterns, cf_newline \in BOOLEAN,
           newlines \in {{}} \cup {{text[k]} : k \in DOMAIN text} :
             Calls(text, op, start, cnt, rplc, backref, nmatch, pattern, cf_newline, newlines)
  BY <1>2
<1>4. CallFits
  BY <1>3 DEF CallFits, Calls
<1>5. Entering
  <2>1. call.n = cnt /\ n = IF size = 0 /\ cnt # 0 THEN 1 ELSE cnt
    BY <1>3 DEF Calls
  <2> QED BY <1>1, <2>1 DEF Entering
<1>6. Chained
  <2>1. DOMAIN searches = {} /\ Len(searches) = 0
    BY <1>1
  <2> QED BY <2>1 DEF Chained, Chain, Hits
<1> QED BY <1>1, <1>4, <1>5, <1>6 DEF RInv, Counted, Resuming, Standing, InLoop, Rewrites

LEMMA NextRewrites == ASSUME IInv, RInv, [Next]_vars PROVE RInv'
<1>1. searches' \in Seq(Answers)
  BY NextKeeps DEF IInv, Typed
<1>2. CASE UNCHANGED vars
  BY <1>2, StutterRewrites
<1>3. CASE Nothing
  BY <1>3, NothingRewrites
<1>4. CASE RmOne
  BY <1>1, <1>4, RmOneRewrites
<1>5. CASE RplcOne
  BY <1>1, <1>5, RplcOneRewrites
<1>6. CASE RmnStart
  BY <1>6, RmnStartRewrites
<1>7. CASE RmnStep
  BY <1>1, <1>7, RmnStepRewrites
<1>8. CASE RmnEnd
  BY <1>1, <1>8, RmnEndRewrites
<1>9. CASE RmnFails \/ RplcnFails
  BY <1>1, <1>9, LoopFailsRewrites DEF RmnFails, RplcnFails
<1>10. CASE RplcnScansPast
  BY <1>10, ScansPastRewrites
<1>11. CASE RplcnStart
  BY <1>11, RplcnStartRewrites
<1>12. CASE RplcnStep
  BY <1>1, <1>12, RplcnStepRewrites
<1>13. CASE RplcnEnd
  BY <1>1, <1>13, RplcnEndRewrites
<1> QED BY <1>2, <1>3, <1>4, <1>5, <1>6, <1>7, <1>8, <1>9, <1>10, <1>11, <1>12, <1>13 DEF Next

(* The two loops keep count and keep place: what they have written is the   *)
(* text up to their cursor with the matches so far replaced, the next       *)
(* search begins where the last match allows, and the matches treated and   *)
(* those left are as many as were asked for.                                *)
THEOREM RewriteInductive == Spec => []RInv
<1>1. Init => RInv
  BY InitRewrites
<1>2. IInv /\ RInv /\ [Next]_vars => RInv'
  BY NextRewrites
<1> QED BY <1>1, <1>2, Inductive, PTL DEF Spec

(* A call of include/regex.h that succeeds leaves the terminated string in  *)
(* which the matches regexec reported are replaced, every reference with    *)
(* its group, and the rest of the text stands; it returns how many, never   *)
(* more than were asked for, and stops early only when there is nothing     *)
(* left to match.                                                           *)
THEOREM RewritesMatches == Spec => []Rewrites
<1>1. RInv => Rewrites
  BY DEF RInv
<1> QED BY <1>1, RewriteInductive, PTL
==============================================================================
