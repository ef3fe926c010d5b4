--------------------------- MODULE JstrSpan_proofs ---------------------------
(***************************************************************************)
(* Theorems about JstrSpan: whatever the string and the set of characters, *)
(* every call replaces or removes exactly what it is to, leaves the right  *)
(* size and never overwrites what it has still to read.  The invariant     *)
(* counts: the bytes before the loop are what is left of the text before   *)
(* it (Removed, Exchanged), those after it are as given (Given), and the   *)
(* number treated is that of the places passed (Behind).                   *)
(***************************************************************************)
EXTENDS JstrSpan, JstrMem_proofs, FiniteSetTheorems

(***************************************************************************)
(* Counting the members of a set of places.                                *)
(***************************************************************************)

Upto(T, p) == {k \in T : k <= p}

HowMany(T, p) == Cardinality(Upto(T, p))

LEMMA UptoFinite ==
  ASSUME NEW lim \in Nat, NEW T \in SUBSET (1..lim), NEW p
  PROVE  IsFiniteSet(Upto(T, p)) /\ HowMany(T, p) \in Nat
<1>1. IsFiniteSet(1..lim)
  BY FS_Interval
<1>2. Upto(T, p) \subseteq 1..lim
  BY DEF Upto
<1> QED BY <1>1, <1>2, FS_Subset, FS_CardinalityType DEF HowMany

LEMMA CountSame ==
  ASSUME NEW lim \in Nat, NEW T \in SUBSET (1..lim), NEW p \in Nat, NEW q \in Nat, p <= q,
         \A k \in (p + 1)..q : k \notin T
  PROVE  HowMany(T, q) = HowMany(T, p)
<1>1. ASSUME NEW k \in T PROVE k <= q <=> k <= p
  <2>1. k \in Nat
    OBVIOUS
  <2>2. k \notin (p + 1)..q
    BY <1>1
  <2> QED BY <2>1, <2>2
<1>2. Upto(T, q) = Upto(T, p)
  BY <1>1 DEF Upto
<1> QED BY <1>2 DEF HowMany

LEMMA CountAll ==
  ASSUME NEW lim \in Nat, NEW T \in SUBSET (1..lim), NEW p \in Nat, NEW q \in Nat, p <= q,
         \A k \in (p + 1)..q : k \in T
  PROVE  HowMany(T, q) = HowMany(T, p) + (q - p)
<1> DEFINE I == (p + 1)..q
<1>1. ASSUME NEW k PROVE k \in Upto(T, q) <=> k \in Upto(T, p) \cup I
  <2>1. k \in T => k \in Nat
    OBVIOUS
  <2>2. k \in I => k \in T /\ k <= q
    OBVIOUS
  <2> QED BY <2>1, <2>2 DEF Upto
<1>2. Upto(T, q) = Upto(T, p) \cup I
  BY <1>1
<1>3. Upto(T, p) \cap I = {}
  BY DEF Upto
<1>4. IsFiniteSet(I) /\ Cardinality(I) = q - p
  <2>1. p + 1 \in Int /\ q \in Int
    OBVIOUS
  <2>2. IsFiniteSet(I) /\ Cardinality(I) = IF p + 1 > q THEN 0 ELSE q - (p + 1) + 1
    BY <2>1, FS_Interval
  <2> QED BY <2>2
<1>5. IsFiniteSet(Upto(T, p)) /\ HowMany(T, p) \in Nat
  BY UptoFinite
<1>6. Cardinality({}) = 0
  BY FS_EmptySet
<1>7. Cardinality(Upto(T, p) \cup I)
        = Cardinality(Upto(T, p)) + Cardinality(I) - Cardinality(Upto(T, p) \cap I)
  BY <1>4, <1>5, FS_Union
<1> HIDE DEF I
<1>8. Cardinality(Upto(T, q)) = Cardinality(Upto(T, p)) + (q - p) - 0
  BY <1>2, <1>3, <1>4, <1>6, <1>7
<1> QED BY <1>5, <1>8 DEF HowMany

LEMMA CountGrows ==
  ASSUME NEW lim \in Nat, NEW T \in SUBSET (1..lim), NEW p \in Nat, NEW q \in Nat, p <= q
  PROVE  HowMany(T, p) <= HowMany(T, q)
<1>1. ASSUME NEW k \in Upto(T, p) PROVE k \in Upto(T, q)
  <2>1. k \in T /\ k <= p /\ k \in Nat
    BY DEF Upto
  <2>2. k <= q
    BY <2>1
  <2> QED BY <2>1, <2>2 DEF Upto
<1>2. IsFiniteSet(Upto(T, q))
  BY UptoFinite
<1> QED BY <1>1, <1>2, FS_Subset DEF HowMany

LEMMA CountOneMore ==
  ASSUME NEW lim \in Nat, NEW T \in SUBSET (1..lim), NEW p \in Nat, NEW k \in T, p < k
  PROVE  HowMany(T, k) >= HowMany(T, p) + 1
<1>1. k - 1 \in Nat /\ k \in Nat /\ p <= k - 1 /\ k - 1 <= k
  OBVIOUS
<1>2. \A j \in ((k - 1) + 1)..k : j \in T
  BY <1>1
<1>3. HowMany(T, k) = HowMany(T, k - 1) + (k - (k - 1))
  BY <1>1, <1>2, CountAll
<1>4. HowMany(T, p) <= HowMany(T, k - 1)
  BY <1>1, CountGrows
<1>5. HowMany(T, p) \in Nat /\ HowMany(T, k - 1) \in Nat
  BY UptoFinite
<1> QED BY <1>1, <1>3, <1>4, <1>5

LEMMA CountWhole ==
  ASSUME NEW lim \in Nat, NEW T \in SUBSET (1..lim)
  PROVE  HowMany(T, lim) = Cardinality(T) /\ HowMany(T, 0) = 0
<1>1. \A k \in T : k \in Nat /\ k <= lim /\ ~(k <= 0)
  OBVIOUS
<1>2. Upto(T, lim) = T /\ Upto(T, 0) = {}
  BY <1>1, Zenon DEF Upto
<1> QED BY <1>2, FS_EmptySet DEF HowMany

(* Of the first k places, those that are not in T. *)
LEMMA CountOthers ==
  ASSUME NEW lim \in Nat, NEW T \in SUBSET (1..lim), NEW k \in 0..lim
  PROVE  HowMany((1..lim) \ T, k) = k - HowMany(T, k)
<1>1. Upto((1..lim) \ T, k) = (1..k) \ Upto(T, k)
  <2>1. ASSUME NEW j PROVE j \in 1..lim /\ j <= k <=> j \in 1..k
    OBVIOUS
  <2>2. \A j \in 1..k : j <= k
    OBVIOUS
  <2> QED BY <2>1, <2>2, Zenon DEF Upto
<1>2. Upto(T, k) \subseteq 1..k
  <2>1. ASSUME NEW j \in Upto(T, k) PROVE j \in 1..k
    <3>1. j \in 1..lim /\ j <= k
      BY DEF Upto
    <3> QED BY <3>1
  <2> QED BY <2>1
<1>3. (1..k) \cap Upto(T, k) = Upto(T, k)
  BY <1>2
<1>4. IsFiniteSet(1..k) /\ Cardinality(1..k) = k
  <2>1. IsFiniteSet(1..k) /\ Cardinality(1..k) = IF 1 > k THEN 0 ELSE k - 1 + 1
    BY FS_Interval
  <2> QED BY <2>1
<1>5. Cardinality((1..k) \ Upto(T, k)) = Cardinality(1..k) - Cardinality((1..k) \cap Upto(T, k))
  BY <1>4, FS_Difference
<1> QED BY <1>1, <1>3, <1>4, <1>5 DEF HowMany


(***************************************************************************)
(* What a call leaves: T is the set of places it treats in the text t.     *)
(***************************************************************************)

(* The byte at m of d is the character of t that comes there when those in  *)
(* T are left out; it stands before p in t.                                 *)
Stands(d, m, t, T, p) ==
  \E k \in 1..p : k \notin T /\ k - HowMany(T, k) = m + 1 /\ d[m] = t[k]

(* The first w bytes of d are the first p characters of t without those in T. *)
Removed(d, w, t, T, p) ==
  /\ w = p - HowMany(T, p)
  /\ w \in Nat
  /\ \A m \in 0..(w - 1) : Stands(d, m, t, T, p)

(* The first p bytes of d are those of t with c for those in T. *)
Exchanged(d, c, t, T, p) ==
  \A k \in 1..p : d[k - 1] = IF k \in T THEN c ELSE t[k]

(* Text and terminator are as given from p on. *)
Given(d, t, p) ==
  /\ p \in 0..Len(t)
  /\ d[Len(t)] = NUL
  /\ \A k \in (p + 1)..Len(t) : d[k - 1] = t[k]

(* From p on, nothing is to be treated up to q, and all from there to e. *)
Stretch(T, p, q, e) ==
  /\ p \in Nat /\ q \in Nat /\ e \in Nat
  /\ p <= q /\ q <= e
  /\ \A k \in (p + 1)..q : k \notin T
  /\ \A k \in (q + 1)..e : k \in T

(* v is d with c from q to e. *)
Overwritten(v, d, c, q, e, lim) ==
  \A m \in 0..lim : v[m] = IF q <= m /\ m < e THEN c ELSE d[m]

LEMMA StretchCounts ==
  ASSUME NEW lim \in Nat, NEW T \in SUBSET (1..lim), NEW p, NEW q, NEW e,
         Stretch(T, p, q, e)
  PROVE  /\ \A k \in p..q : HowMany(T, k) = HowMany(T, p)
         /\ HowMany(T, e) = HowMany(T, p) + (e - q)
         /\ HowMany(T, p) \in Nat
<1>1. p \in Nat /\ q \in Nat /\ e \in Nat /\ p <= q /\ q <= e
  BY DEF Stretch
<1>2. ASSUME NEW k \in p..q PROVE HowMany(T, k) = HowMany(T, p)
  <2>1. k \in Nat /\ p <= k /\ \A j \in (p + 1)..k : j \in (p + 1)..q
    BY <1>1
  <2>2. \A j \in (p + 1)..k : j \notin T
    BY <2>1 DEF Stretch
  <2> QED BY <1>1, <2>1, <2>2, CountSame
<1>3. q \in p..q
  BY <1>1
<1>4. HowMany(T, e) = HowMany(T, q) + (e - q)
  <2>1. \A j \in (q + 1)..e : j \in T
    BY DEF Stretch
  <2> QED BY <1>1, <2>1, CountAll
<1>5. HowMany(T, q) = HowMany(T, p)
  BY <1>2, <1>3
<1>6. HowMany(T, p) \in Nat
  BY UptoFinite
<1> QED BY <1>2, <1>4, <1>5, <1>6

(* A removal moves what stands before a stretch to the end of what it kept. *)
LEMMA KeepsStretch ==
  ASSUME NEW t \in Seq(Char), NEW T \in SUBSET (1..Len(t)), NEW d, NEW w, NEW p,
         NEW q, NEW e, NEW v, Removed(d, w, t, T, p), Given(d, t, p), Stretch(T, p, q, e),
         e <= Len(t),
         \A m \in 0..(w - 1) : v[m] = d[m],
         \A m \in w..(w + (q - p) - 1) : v[m] = d[m - w + p]
  PROVE  Removed(v, w + (q - p), t, T, e) /\ w <= p
<1>0. PICK h \in Nat :
        h = HowMany(T, p) /\ HowMany(T, e) = h + (e - q) /\ \A k \in p..q : HowMany(T, k) = h
  <2>1. Len(t) \in Nat
    OBVIOUS
  <2>2. /\ \A k \in p..q : HowMany(T, k) = HowMany(T, p)
        /\ HowMany(T, e) = HowMany(T, p) + (e - q)
        /\ HowMany(T, p) \in Nat
    BY <2>1, StretchCounts
  <2> QED BY <2>2
<1>1. /\ p \in Nat /\ q \in Nat /\ e \in Nat /\ p <= q /\ q <= e /\ Len(t) \in Nat
      /\ w \in Nat /\ w = p - h
  BY <1>0 DEF Stretch, Removed
<1>2. HowMany(T, e) = h + (e - q)
  BY <1>0
<1>3. w + (q - p) = e - HowMany(T, e) /\ w + (q - p) \in Nat /\ w <= p
  BY <1>1, <1>2
<1>4. ASSUME NEW m \in 0..(w + (q - p) - 1) PROVE Stands(v, m, t, T, e)
  <2>1. CASE m < w
    <3>1. m \in 0..(w - 1)
      BY <1>1, <2>1
    <3>2. PICK k \in 1..p : k \notin T /\ k - HowMany(T, k) = m + 1 /\ d[m] = t[k]
      BY <3>1 DEF Removed, Stands
    <3>3. k \in 1..e
      BY <1>1, <3>2
    <3>4. v[m] = t[k]
      BY <3>1, <3>2
    <3> QED BY <3>2, <3>3, <3>4 DEF Stands
  <2>2. CASE ~(m < w)
    <3>1. PICK k \in (p + 1)..q : k = m - w + p + 1
      <4>1. m - w + p + 1 \in (p + 1)..q
        BY <1>1, <2>2
      <4> QED BY <4>1
    <3>2. k \in p..q /\ k \in 1..e /\ k \in (p + 1)..Len(t) /\ k \notin T
      <4>1. k \in p..q /\ k \in 1..e /\ k \in (p + 1)..Len(t)
        BY <1>1
      <4>2. k \notin T
        BY DEF Stretch
      <4> QED BY <4>1, <4>2
    <3>3. k - HowMany(T, k) = m + 1
      <4>1. HowMany(T, k) = h /\ m \in Nat /\ k \in Nat
        BY <1>0, <1>1, <3>2
      <4>2. k - h = m + 1
        BY <1>1, <3>1, <4>1
      <4> QED BY <4>1, <4>2
    <3>4. v[m] = d[m - w + p]
      <4>1. m \in w..(w + (q - p) - 1)
        BY <1>1, <2>2
      <4> QED BY <4>1
    <3>5. d[k - 1] = t[k] /\ k - 1 = m - w + p
      BY <1>1, <3>1, <3>2 DEF Given
    <3> QED BY <3>2, <3>3, <3>4, <3>5 DEF Stands
  <2> QED BY <2>1, <2>2
<1>5. \A m \in 0..(w + (q - p) - 1) : Stands(v, m, t, T, e)
  BY <1>4
<1> QED BY <1>1, <1>3, <1>5 DEF Removed

(* A replacement sets the bytes of the stretch. *)
LEMMA SetsStretch ==
  ASSUME NEW t \in Seq(Char), NEW T \in SUBSET (1..Len(t)), NEW d, NEW c, NEW p,
         NEW q, NEW e, NEW v, Exchanged(d, c, t, T, p), Given(d, t, p), Stretch(T, p, q, e),
         e <= Len(t), Overwritten(v, d, c, q, e, Len(t))
  PROVE  Exchanged(v, c, t, T, e) /\ Given(v, t, e)
<1>0. \A m \in 0..Len(t) : v[m] = IF q <= m /\ m < e THEN c ELSE d[m]
  BY DEF Overwritten
<1>1. p \in Nat /\ q \in Nat /\ e \in Nat /\ p <= q /\ q <= e /\ Len(t) \in Nat
  BY DEF Stretch
<1>2. ASSUME NEW k \in 1..e PROVE v[k - 1] = IF k \in T THEN c ELSE t[k]
  <2>1. k - 1 \in 0..Len(t) /\ k \in Nat /\ v[k - 1] = IF q <= k - 1 /\ k - 1 < e THEN c ELSE d[k - 1]
    <3>1. k - 1 \in 0..Len(t) /\ k \in Nat
      BY <1>1
    <3> QED BY <1>0, <3>1
  <2>2. CASE k <= p
    <3>1. k \in 1..p /\ ~(q <= k - 1)
      BY <1>1, <2>1, <2>2
    <3>2. v[k - 1] = d[k - 1]
      BY <2>1, <3>1
    <3> QED BY <3>1, <3>2 DEF Exchanged
  <2>3. CASE p < k /\ k <= q
    <3>1. k \in (p + 1)..q /\ k \in (p + 1)..Len(t) /\ ~(q <= k - 1)
      BY <1>1, <2>1, <2>3
    <3>2. v[k - 1] = d[k - 1] /\ d[k - 1] = t[k] /\ k \notin T
      BY <2>1, <3>1 DEF Given, Stretch
    <3> QED BY <3>2
  <2>4. CASE q < k
    <3>1. k \in (q + 1)..e /\ q <= k - 1 /\ k - 1 < e
      BY <1>1, <2>1, <2>4
    <3>2. v[k - 1] = c /\ k \in T
      BY <2>1, <3>1 DEF Stretch
    <3> QED BY <3>2
  <2> QED BY <1>1, <2>1, <2>2, <2>3, <2>4
<1>3. Given(v, t, e)
  <2>1. e \in 0..Len(t)
    BY <1>1
  <2>2. v[Len(t)] = d[Len(t)] /\ d[Len(t)] = NUL
    <3>1. Len(t) \in 0..Len(t) /\ ~(Len(t) < e)
      BY <1>1
    <3> QED BY <1>0, <3>1 DEF Given
  <2>3. ASSUME NEW k \in (e + 1)..Len(t) PROVE v[k - 1] = t[k]
    <3>1. k - 1 \in 0..Len(t) /\ ~(k - 1 < e) /\ k \in (p + 1)..Len(t)
      BY <1>1
    <3>2. v[k - 1] = d[k - 1]
      BY <1>0, <3>1
    <3> QED BY <3>1, <3>2 DEF Given
  <2> QED BY <2>1, <2>2, <2>3 DEF Given
<1> QED BY <1>2, <1>3 DEF Exchanged

(***************************************************************************)
(* The invariant.                                                          *)
(***************************************************************************)

Removing == {"rmspn", "rmallspn", "strip", "rmnchr"}

Replacing == {"rplcspn", "rplcallspn", "rplcnchr"}

Single == {"rplcspn", "rmspn"}

CallOK ==
  /\ call.op \in Ops
  /\ call.text \in Seq(Char)
  /\ call.start \in 0..Len(call.text)
  /\ call.reject \subseteq Char
  /\ call.rplc \in Char
  /\ call.n \in Nat
  /\ call.op \in {"rplcspn", "rplcnchr"} => call.start = 0

(* What has been treated when the first p characters have been dealt with. *)
Behind(p) ==
  /\ changed = HowMany(Treated, p)
  /\ call.op \in Counting => n + changed = call.n /\ HowMany(Hits, p) = changed

Underway ==
  pc \in {"entry", "loop"} =>
    /\ size = Len(call.text)
    /\ call.start <= i.src_e
    /\ Given(data, call.text, i.src_e)
    /\ Behind(i.src_e)
    /\ call.op \in Removing =>
         i.src = i.src_e /\ Removed(data, i.dst, call.text, Treated, i.src)
    /\ call.op \in Replacing =>
         /\ i.dst = call.start /\ i.src = call.start
         /\ Exchanged(data, call.rplc, call.text, Treated, i.src_e)

AtFirst ==
  /\ pc = "entry" => i = At(call.start) /\ changed = 0 /\ Given(data, call.text, 0)
  /\ pc = "loop" => call.op \notin Single

Finished ==
  pc = "done" =>
    /\ ret = Cardinality(Treated)
    /\ data[size] = NUL
    /\ call.op \in Removing => Removed(data, size, call.text, Treated, Len(call.text))
    /\ call.op \in Replacing =>
         /\ size = Len(call.text)
         /\ Exchanged(data, call.rplc, call.text, Treated, size)

IInv == CallOK /\ TypeOK /\ Underway /\ AtFirst /\ Finished

(***************************************************************************)
(* The places the calls treat.                                             *)
(***************************************************************************)

LEMMA HitsType ==
  ASSUME CallOK
  PROVE  Hits \in SUBSET (1..Len(call.text)) /\ \A k \in Hits : call.start < k
<1>1. Len(call.text) \in Nat /\ call.start \in Nat
  BY DEF CallOK
<1>2. ASSUME NEW k \in Hits PROVE k \in 1..Len(call.text) /\ call.start < k
  BY <1>1 DEF Hits
<1> QED BY <1>2

LEMMA TreatedType ==
  ASSUME CallOK
  PROVE  Treated \in SUBSET Hits /\ Treated \in SUBSET (1..Len(call.text))
<1>1. Treated \subseteq Hits
  BY DEF Treated
<1> QED BY <1>1, HitsType

LEMMA TreatsAll ==
  ASSUME call.op \in Ops, call.op \notin Single, call.op \notin Counting
  PROVE  Treated = Hits
BY DEF Treated, Single

LEMMA TreatsSome ==
  ASSUME call.op \in Counting, NEW k
  PROVE  k \in Treated <=> k \in Hits /\ HowMany(Hits, k) <= call.n
<1>1. call.op \notin {"rplcspn", "rmspn"}
  BY DEF Counting
<1>2. Treated = {j \in Hits : Cardinality({q \in Hits : q <= j}) <= call.n}
  BY <1>1 DEF Treated
<1> QED BY <1>2 DEF HowMany, Upto

LEMMA TreatsFirst ==
  ASSUME call.op \in Single
  PROVE  Treated = {k \in Hits : \A p, q \in Hits : p <= q /\ q <= k => p..q \subseteq Hits}
<1>1. call.op \in {"rplcspn", "rmspn"}
  BY DEF Single
<1>2. call.op \notin Counting
  BY <1>1 DEF Counting
<1> QED BY <1>1, <1>2 DEF Treated

(* The sequence of the characters that stay is what a removal has left. *)
LEMMA KeptIs ==
  ASSUME CallOK, NEW d, NEW w, Removed(d, w, call.text, Treated, Len(call.text))
  PROVE  Prefix(d, w) = Kept
<1> DEFINE t == call.text
           lim == Len(t)
           T == Treated
           kept == (1..lim) \ T
           place(m) == CHOOSE k \in kept : Cardinality({q \in kept : q <= k}) = m
<1>1. t \in Seq(Char) /\ lim \in Nat /\ T \in SUBSET (1..lim)
  BY TreatedType DEF CallOK
<1>2. kept \in SUBSET (1..lim)
  OBVIOUS
<1>3. Kept = [m \in 1..Cardinality(kept) |-> t[place(m)]]
  BY DEF Kept
<1> HIDE DEF t, lim, T
<1>4. ASSUME NEW k \in 0..lim PROVE HowMany(kept, k) = k - HowMany(T, k)
  BY <1>1, CountOthers
<1>5. Cardinality(kept) = w
  <2>1. lim \in 0..lim
    BY <1>1
  <2>2. HowMany(kept, lim) = lim - HowMany(T, lim)
    BY <2>1, <1>4
  <2>3. HowMany(kept, lim) = Cardinality(kept)
    BY <1>1, <1>2, CountWhole
  <2>4. w = lim - HowMany(T, lim)
    BY DEF Removed, lim, t, T
  <2> QED BY <2>2, <2>3, <2>4
<1>6. \A k : Cardinality({q \in kept : q <= k}) = HowMany(kept, k)
  BY DEF HowMany, Upto
<1> HIDE DEF kept
<1>7. ASSUME NEW j \in kept, NEW k \in kept, HowMany(kept, j) = HowMany(kept, k)
      PROVE  j = k
  <2>1. j \in Nat /\ k \in Nat
    BY <1>1, <1>2
  <2>2. HowMany(kept, j) \in Nat /\ HowMany(kept, k) \in Nat
    BY <1>1, <1>2, UptoFinite
  <2>3. j < k => HowMany(kept, k) >= HowMany(kept, j) + 1
    BY <1>1, <1>2, <2>1, CountOneMore
  <2>4. k < j => HowMany(kept, j) >= HowMany(kept, k) + 1
    BY <1>1, <1>2, <2>1, CountOneMore
  <2> QED BY <1>7, <2>1, <2>2, <2>3, <2>4
<1>8. w \in Nat
  BY DEF Removed
<1>9. ASSUME NEW m \in 1..w PROVE d[m - 1] = t[place(m)]
  <2>1. m - 1 \in 0..(w - 1) /\ (m - 1) + 1 = m
    BY <1>8
  <2>2. Stands(d, m - 1, t, T, lim)
    BY <2>1 DEF Removed, lim, t, T
  <2>3. PICK k \in 1..lim : k \notin T /\ k - HowMany(T, k) = m /\ d[m - 1] = t[k]
    BY <2>1, <2>2 DEF Stands
  <2>4. k \in kept /\ k \in 0..lim
    BY <1>1, <2>3 DEF kept
  <2>5. HowMany(kept, k) = m
    BY <1>4, <2>3, <2>4
  <2>6. place(m) \in kept /\ HowMany(kept, place(m)) = m
    BY <1>6, <2>4, <2>5, Zenon
  <2>7. place(m) = k
    BY <1>7, <2>4, <2>5, <2>6
  <2> QED BY <2>3, <2>7
<1> HIDE DEF place
<1>10. Prefix(d, w) = [m \in 1..w |-> t[place(m)]]
  BY <1>9 DEF Prefix
<1> QED BY <1>3, <1>5, <1>10

(***************************************************************************)
(* What the searches tell.                                                 *)
(***************************************************************************)

LEMMA Lengths ==
  ASSUME CallOK
  PROVE  /\ call.text \in Seq(Char) /\ Len(call.text) \in Nat
         /\ \A k \in 1..Len(call.text) : call.text[k] \in Char
         /\ Hits \in SUBSET (1..Len(call.text))
         /\ Treated \in SUBSET (1..Len(call.text))
<1>1. call.text \in Seq(Char)
  BY DEF CallOK
<1>2. Len(call.text) \in Nat /\ \A k \in 1..Len(call.text) : call.text[k] \in Char
  BY <1>1
<1> QED BY <1>1, <1>2, HitsType, TreatedType

LEMMA SearchTells ==
  ASSUME CallOK, TypeOK, NEW p, Given(data, call.text, p), NEW from \in p..Len(call.text),
         NEW S, NEW q, FirstOf(q, from, S)
  PROVE  /\ q \in from..Len(call.text)
         /\ \A k \in (from + 1)..q : call.text[k] \notin S
         /\ q < Len(call.text) => call.text[q + 1] \in S
         /\ data[q] = NUL <=> q = Len(call.text)
<1> DEFINE lim == Len(call.text)
           found == {k \in DOMAIN data : k >= from /\ data[k] \in S \cup {NUL}}
<1>1. p \in 0..lim /\ data[lim] = NUL /\ \A k \in (p + 1)..lim : data[k - 1] = call.text[k]
  BY DEF Given
<1>2. lim \in Nat /\ \A k \in 1..lim : call.text[k] \in Char
  BY Lengths
<1>3. DOMAIN data = 0..(lim + 1)
  <2>1. DOMAIN data = 0..((lim + 2) - 1)
    BY DEF TypeOK, Block
  <2> QED BY <1>2, <2>1
<1>4. q \in found /\ \A k \in found : q <= k
  BY DEF FirstOf, Leftmost
<1> HIDE DEF lim
<1>5. lim \in found
  BY <1>1, <1>2, <1>3 DEF lim
<1>6. q \in from..lim /\ from \in Nat /\ p <= from
  <2>1. from \in p..lim
    BY DEF lim
  <2>2. q \in 0..(lim + 1) /\ q >= from /\ q <= lim
    BY <1>3, <1>4, <1>5
  <2> QED BY <1>1, <1>2, <2>1, <2>2
<1>7. ASSUME NEW k \in (from + 1)..q PROVE call.text[k] \notin S
  <2>1. k - 1 \in 0..(lim + 1) /\ k - 1 >= from /\ ~(q <= k - 1) /\ k \in (p + 1)..lim
    BY <1>1, <1>2, <1>6
  <2>2. k - 1 \notin found
    BY <1>4, <2>1
  <2>3. data[k - 1] \notin S
    BY <1>3, <2>1, <2>2
  <2> QED BY <1>1, <2>1, <2>3
<1>8. ASSUME q < lim
      PROVE  data[q] = call.text[q + 1] /\ data[q] \in Char /\ data[q] # NUL
  <2>1. q + 1 \in (p + 1)..lim /\ q + 1 \in 1..lim /\ (q + 1) - 1 = q
    BY <1>1, <1>2, <1>6, <1>8
  <2>2. data[q] = call.text[q + 1]
    BY <1>1, <2>1
  <2> QED BY <1>2, <2>1, <2>2, BytesDistinct
<1>9. q < lim => call.text[q + 1] \in S
  BY <1>4, <1>8
<1>10. data[q] = NUL <=> q = lim
  <2>1. q = lim => data[q] = NUL
    BY <1>1
  <2>2. q # lim => q < lim
    BY <1>2, <1>6
  <2> QED BY <1>8, <2>1, <2>2
<1> QED BY <1>6, <1>7, <1>9, <1>10 DEF lim

LEMMA HitIs ==
  ASSUME CallOK, NEW k \in (call.start + 1)..Len(call.text)
  PROVE  k \in Hits <=> call.text[k] \in call.reject
BY DEF Hits

LEMMA CSpanTells ==
  ASSUME CallOK, TypeOK, NEW p, call.start <= p, Given(data, call.text, p), NEW q, CSpan(q, p)
  PROVE  /\ q \in p..Len(call.text) /\ p \in Nat
         /\ \A k \in (p + 1)..q : k \notin Hits
         /\ q < Len(call.text) => q + 1 \in Hits
         /\ data[q] = NUL <=> q = Len(call.text)
<1>1. Len(call.text) \in Nat /\ call.start \in Nat /\ p \in 0..Len(call.text)
  BY Lengths DEF CallOK, Given
<1>2. p \in p..Len(call.text)
  BY <1>1
<1>3. /\ q \in p..Len(call.text)
      /\ \A k \in (p + 1)..q : call.text[k] \notin call.reject
      /\ q < Len(call.text) => call.text[q + 1] \in call.reject
      /\ data[q] = NUL <=> q = Len(call.text)
  BY <1>2, SearchTells DEF CSpan
<1>4. ASSUME NEW k \in (p + 1)..q PROVE k \notin Hits
  <2>1. k \in (call.start + 1)..Len(call.text)
    BY <1>1, <1>3
  <2> QED BY <1>3, <2>1, HitIs
<1>5. ASSUME q < Len(call.text) PROVE q + 1 \in Hits
  <2>1. q + 1 \in (call.start + 1)..Len(call.text)
    BY <1>1, <1>3, <1>5
  <2> QED BY <1>3, <1>5, <2>1, HitIs
<1> QED BY <1>1, <1>3, <1>4, <1>5

LEMMA NoneTells ==
  ASSUME CallOK, TypeOK, NEW p, call.start <= p, Given(data, call.text, p),
         NEW q, NoneBefore(q, p)
  PROVE  q = Len(call.text) /\ \A k \in (p + 1)..Len(call.text) : k \notin Hits
<1>1. CSpan(q, p) /\ data[q] = NUL
  BY DEF NoneBefore
<1> QED BY <1>1, CSpanTells

LEMMA GroupTells ==
  ASSUME CallOK, TypeOK, NEW p, call.start <= p, Given(data, call.text, p),
         NEW q, NEW e, Group(q, e, p)
  PROVE  /\ p \in Nat /\ q \in Nat /\ e \in Nat
         /\ p <= q /\ q < e /\ e <= Len(call.text)
         /\ \A k \in (p + 1)..q : k \notin Hits
         /\ \A k \in (q + 1)..e : k \in Hits
         /\ e + 1 \notin Hits
<1> DEFINE kind == (Byte \ {NUL}) \ call.reject
<1>1. CSpan(q, p) /\ data[q] # NUL /\ FirstOf(e, q, kind)
  BY DEF Group, Span
<1>2. Len(call.text) \in Nat /\ \A k \in 1..Len(call.text) : call.text[k] \in Char
  BY Lengths
<1>3. /\ q \in p..Len(call.text) /\ p \in Nat /\ q < Len(call.text)
      /\ \A k \in (p + 1)..q : k \notin Hits
      /\ q + 1 \in Hits
  <2>1. /\ q \in p..Len(call.text) /\ p \in Nat
        /\ \A k \in (p + 1)..q : k \notin Hits
        /\ q < Len(call.text) => q + 1 \in Hits
        /\ q # Len(call.text)
    BY <1>1, CSpanTells
  <2> QED BY <1>2, <2>1
<1>4. /\ e \in q..Len(call.text)
      /\ \A k \in (q + 1)..e : call.text[k] \notin kind
      /\ e < Len(call.text) => call.text[e + 1] \in kind
  BY <1>1, <1>3, SearchTells
<1>5. call.start \in Nat
  BY DEF CallOK
<1>6. ASSUME NEW k \in (q + 1)..e PROVE k \in Hits
  <2>1. k \in 1..Len(call.text) /\ k \in (call.start + 1)..Len(call.text)
    BY <1>2, <1>3, <1>4, <1>5
  <2>2. call.text[k] \in Byte \ {NUL}
    BY <1>2, <2>1, BytesDistinct DEF Byte
  <2> QED BY <1>4, <2>1, <2>2, HitIs
<1>7. ASSUME e + 1 \in Hits PROVE FALSE
  <2>1. e + 1 \in 1..Len(call.text) /\ e \in Nat
    BY <1>3, <1>4, <1>7, Lengths
  <2>2. e < Len(call.text) /\ e + 1 \in (call.start + 1)..Len(call.text)
    BY <1>2, <1>3, <1>4, <1>5, <2>1
  <2> QED BY <1>4, <1>7, <2>2, HitIs
<1>8. q # e
  BY <1>3, <1>7
<1> QED BY <1>2, <1>3, <1>4, <1>6, <1>7, <1>8

(***************************************************************************)
(* What a step treats, from where the loop is.                             *)
(***************************************************************************)

Here == IInv /\ pc \in {"entry", "loop"}

LEMMA HereIs ==
  ASSUME Here
  PROVE  /\ CallOK /\ TypeOK /\ size = Len(call.text)
         /\ call.start <= i.src_e /\ i.src_e \in 0..Len(call.text)
         /\ Given(data, call.text, i.src_e) /\ Behind(i.src_e)
         /\ data \in Block(Len(call.text) + 2)
BY DEF Here, IInv, Underway, Given, TypeOK

(* A call that treats one group does so at once. *)
LEMMA SingleStarts ==
  ASSUME Here, call.op \in Single
  PROVE  pc = "entry" /\ i = At(call.start) /\ i.src_e = call.start /\ i.dst = call.start
         /\ i.src = call.start
<1>1. pc = "entry" /\ i = At(call.start)
  BY DEF Here, IInv, AtFirst
<1> QED BY <1>1 DEF At

LEMMA GroupTreats ==
  ASSUME Here, call.op \notin Counting, NEW q, NEW e, Group(q, e, i.src_e)
  PROVE  /\ Stretch(Treated, i.src_e, q, e)
         /\ q < e /\ e <= Len(call.text)
         /\ call.op \in Single => \A k \in (e + 1)..Len(call.text) : k \notin Treated
<1> DEFINE p == i.src_e
<1>1. CallOK /\ TypeOK /\ call.start <= p /\ Given(data, call.text, p) /\ call.op \in Ops
  BY HereIs DEF CallOK
<1>2. /\ p \in Nat /\ q \in Nat /\ e \in Nat
      /\ p <= q /\ q < e /\ e <= Len(call.text)
      /\ \A k \in (p + 1)..q : k \notin Hits
      /\ \A k \in (q + 1)..e : k \in Hits
      /\ e + 1 \notin Hits
  BY <1>1, GroupTells
<1>3. Len(call.text) \in Nat /\ Hits \in SUBSET (1..Len(call.text))
  BY <1>1, Lengths
<1>4. CASE call.op \notin Single
  <2>1. Treated = Hits
    BY <1>1, <1>4, TreatsAll
  <2> QED BY <1>2, <1>4, <2>1 DEF Stretch
<1>5. CASE call.op \in Single
  <2>1. p = call.start
    BY <1>5, SingleStarts
  <2>2. \A k \in Hits : k \in Nat /\ q + 1 <= k
    <3>1. ASSUME NEW k \in Hits PROVE k \in Nat /\ q + 1 <= k
      <4>1. k \in Nat /\ p < k
        BY <1>1, <1>3, <2>1, HitsType
      <4>2. k \notin (p + 1)..q
        BY <1>2
      <4> QED BY <1>2, <4>1, <4>2
    <3> QED BY <3>1
  <2>3. Treated = {k \in Hits : \A a, b \in Hits : a <= b /\ b <= k => a..b \subseteq Hits}
    BY <1>5, TreatsFirst
  <2>4. ASSUME NEW k \in (q + 1)..e PROVE k \in Treated
    <3>1. ASSUME NEW a \in Hits, NEW b \in Hits, a <= b, b <= k PROVE a..b \subseteq Hits
      <4>1. a..b \subseteq (q + 1)..e
        BY <1>2, <2>2, <3>1
      <4> QED BY <1>2, <4>1
    <3> QED BY <1>2, <2>3, <3>1
  <2>5. ASSUME NEW k \in Treated, k > e PROVE FALSE
    <3>1. k \in Hits /\ k \in Nat
      BY <2>2, <2>3
    <3>2. q + 1 \in Hits /\ q + 1 <= k /\ k <= k
      BY <1>2, <2>2, <3>1
    <3>3. (q + 1)..k \subseteq Hits
      BY <2>3, <3>1, <3>2
    <3>4. e + 1 \in (q + 1)..k
      BY <1>2, <2>5, <3>1
    <3> QED BY <1>2, <3>3, <3>4
  <2>6. \A k \in (p + 1)..q : k \notin Treated
    BY <1>2, <2>3
  <2>7. \A k \in (e + 1)..Len(call.text) : k \notin Treated
    <3>1. \A k \in (e + 1)..Len(call.text) : k > e
      BY <1>2
    <3> QED BY <2>5, <3>1
  <2> QED BY <1>2, <2>4, <2>6, <2>7 DEF Stretch
<1> QED BY <1>4, <1>5

LEMMA NoneTreats ==
  ASSUME Here, call.op \notin Counting, NEW q, NoneBefore(q, i.src_e)
  PROVE  /\ q = Len(call.text)
         /\ Stretch(Treated, i.src_e, Len(call.text), Len(call.text))
<1>1. CallOK /\ TypeOK /\ call.start <= i.src_e /\ Given(data, call.text, i.src_e)
      /\ i.src_e \in 0..Len(call.text)
  BY HereIs
<1>2. q = Len(call.text) /\ \A k \in (i.src_e + 1)..Len(call.text) : k \notin Hits
  BY <1>1, NoneTells
<1>3. Treated \subseteq Hits /\ Len(call.text) \in Nat
  BY <1>1, TreatedType, Lengths
<1> QED BY <1>1, <1>2, <1>3 DEF Stretch

(* One character found by strip, or by a call that may still treat one. *)
LEMMA OneTreats ==
  ASSUME Here, call.op \in Counting \cup {"strip"}, call.op \in Counting => n # 0,
         NEW q, CSpan(q, i.src_e), data[q] # NUL
  PROVE  /\ Stretch(Treated, i.src_e, q, q + 1)
         /\ q < Len(call.text)
         /\ call.op \in Counting => HowMany(Hits, q + 1) = HowMany(Hits, i.src_e) + 1
<1> DEFINE p == i.src_e
<1>1. CallOK /\ TypeOK /\ call.start <= p /\ Given(data, call.text, p) /\ p \in 0..Len(call.text)
      /\ Behind(p) /\ call.op \in Ops
  BY HereIs DEF CallOK
<1>2. Len(call.text) \in Nat /\ Hits \in SUBSET (1..Len(call.text))
  BY <1>1, Lengths
<1>3. /\ q \in p..Len(call.text)
      /\ \A k \in (p + 1)..q : k \notin Hits
      /\ q < Len(call.text) => q + 1 \in Hits
      /\ q # Len(call.text)
  BY <1>1, CSpanTells
<1>4. p \in Nat /\ q \in Nat /\ p <= q /\ q < Len(call.text) /\ q + 1 \in Hits
  BY <1>1, <1>2, <1>3
<1>5. \A k \in (q + 1)..(q + 1) : k = q + 1
  BY <1>4
<1>6. Stretch(Hits, p, q, q + 1)
  BY <1>3, <1>4, <1>5 DEF Stretch
<1>7. Treated \subseteq Hits
  BY <1>1, TreatedType
<1>8. CASE call.op \in Counting
  <2>1. PICK h \in Nat : h = HowMany(Hits, p) /\ HowMany(Hits, q + 1) = h + ((q + 1) - q)
    <3>1. /\ \A k \in p..q : HowMany(Hits, k) = HowMany(Hits, p)
          /\ HowMany(Hits, q + 1) = HowMany(Hits, p) + ((q + 1) - q)
          /\ HowMany(Hits, p) \in Nat
      BY <1>2, <1>6, StretchCounts, Zenon
    <3> QED BY <3>1
  <2>2. h = changed /\ n + changed = call.n /\ n \in Nat
    BY <1>1, <1>8, <2>1 DEF Behind, TypeOK
  <2>3. HowMany(Hits, q + 1) = h + 1 /\ h + 1 <= call.n
    BY <1>4, <1>8, <2>1, <2>2
  <2>4. q + 1 \in Treated
    BY <1>4, <1>8, <2>3, TreatsSome
  <2>5. Stretch(Treated, p, q, q + 1)
    BY <1>3, <1>4, <1>5, <1>7, <2>4 DEF Stretch
  <2> QED BY <1>4, <2>1, <2>3, <2>5
<1>9. CASE call.op = "strip"
  <2>1. call.op \notin Counting /\ call.op \notin Single
    BY <1>9 DEF Counting, Single
  <2>2. Treated = Hits
    BY <1>1, <2>1, TreatsAll
  <2> QED BY <1>4, <1>6, <2>1, <2>2
<1> QED BY <1>8, <1>9

(* A call that has treated as many as it may treats nothing more. *)
LEMMA NoMoreTreats ==
  ASSUME Here, call.op \in Counting, n = 0 \/ \E q \in DOMAIN data : NoneBefore(q, i.src_e)
  PROVE  Stretch(Treated, i.src_e, Len(call.text), Len(call.text))
<1> DEFINE p == i.src_e
<1>1. CallOK /\ TypeOK /\ call.start <= p /\ Given(data, call.text, p) /\ p \in 0..Len(call.text)
      /\ Behind(p)
  BY HereIs
<1>2. Len(call.text) \in Nat /\ Hits \in SUBSET (1..Len(call.text)) /\ Treated \subseteq Hits
  BY <1>1, Lengths, TreatedType
<1>3. ASSUME NEW k \in (p + 1)..Len(call.text), k \in Treated PROVE FALSE
  <2>1. k \in Hits /\ HowMany(Hits, k) <= call.n
    BY <1>3, TreatsSome
  <2>2. CASE n = 0
    <3>1. p \in Nat /\ p < k
      BY <1>1, <1>2, <1>3
    <3>2. HowMany(Hits, k) >= HowMany(Hits, p) + 1
      BY <1>2, <2>1, <3>1, CountOneMore
    <3>3. HowMany(Hits, p) = changed /\ n + changed = call.n /\ changed \in Nat
      BY <1>1 DEF Behind, TypeOK
    <3>4. HowMany(Hits, k) \in Nat
      BY <1>2, UptoFinite
    <3> QED BY <2>1, <2>2, <3>2, <3>3, <3>4
  <2>3. CASE \E q \in DOMAIN data : NoneBefore(q, p)
    BY <1>1, <1>3, <2>1, <2>3, NoneTells
  <2> QED BY <2>2, <2>3
<1> QED BY <1>1, <1>2, <1>3 DEF Stretch

(* The count goes on. *)
LEMMA GoesOn ==
  ASSUME Here, NEW q, NEW e, Stretch(Treated, i.src_e, q, e), e <= Len(call.text)
  PROVE  HowMany(Treated, e) = changed + (e - q) /\ e \in Nat /\ i.src_e <= q /\ q <= e
         /\ q \in Nat /\ i.src_e \in Nat /\ changed \in Nat
<1>1. CallOK /\ Behind(i.src_e) /\ TypeOK
  BY HereIs
<1>2. Len(call.text) \in Nat /\ Treated \in SUBSET (1..Len(call.text))
  BY <1>1, Lengths
<1>3. /\ \A k \in (i.src_e)..q : HowMany(Treated, k) = HowMany(Treated, i.src_e)
      /\ HowMany(Treated, e) = HowMany(Treated, i.src_e) + (e - q)
      /\ HowMany(Treated, i.src_e) \in Nat
  BY <1>2, StretchCounts, Zenon
<1> QED BY <1>1, <1>3 DEF Behind, Stretch, TypeOK

LEMMA AllTreated ==
  ASSUME Here, Stretch(Treated, i.src_e, Len(call.text), Len(call.text))
  PROVE  Cardinality(Treated) = changed
<1>1. CallOK
  BY HereIs
<1>2. Len(call.text) \in Nat /\ Treated \in SUBSET (1..Len(call.text))
  BY <1>1, Lengths
<1>3. HowMany(Treated, Len(call.text)) = changed + (Len(call.text) - Len(call.text))
      /\ changed \in Nat
  BY <1>2, GoesOn
<1> QED BY <1>2, <1>3, CountWhole

(***************************************************************************)
(* How a step leaves the string.                                           *)
(***************************************************************************)

LEMMA SameCall ==
  ASSUME UNCHANGED call
  PROVE  CallOK' = CallOK /\ Treated' = Treated /\ Hits' = Hits
BY DEF CallOK, Treated, Hits

LEMMA GivenFurther ==
  ASSUME NEW t \in Seq(Char), NEW d, NEW p, Given(d, t, p), NEW e \in Nat, p <= e, e <= Len(t),
         NEW v, \A m \in e..Len(t) : v[m] = d[m]
  PROVE  Given(v, t, e)
<1>1. Len(t) \in Nat /\ p \in Nat
  BY DEF Given
<1>2. v[Len(t)] = NUL
  <2>1. Len(t) \in e..Len(t)
    BY <1>1
  <2> QED BY <2>1 DEF Given
<1>3. ASSUME NEW k \in (e + 1)..Len(t) PROVE v[k - 1] = t[k]
  <2>1. k - 1 \in e..Len(t) /\ k \in (p + 1)..Len(t)
    BY <1>1
  <2> QED BY <2>1 DEF Given
<1>4. e \in 0..Len(t)
  BY <1>1
<1> QED BY <1>2, <1>3, <1>4 DEF Given

LEMMA DoneKeeps ==
  ASSUME Here, UNCHANGED <<call, i, n, changed>>, pc' = "done",
         data' \in Block(Len(call.text) + 2), size' \in Nat,
         ret' = Cardinality(Treated), ret' \in Nat, data'[size'] = NUL,
         call.op \in Removing => Removed(data', size', call.text, Treated, Len(call.text)),
         call.op \in Replacing =>
           /\ size' = Len(call.text)
           /\ Exchanged(data', call.rplc, call.text, Treated, size')
  PROVE  IInv'
<1>1. CallOK' /\ Treated' = Treated
  BY HereIs, SameCall
<1>2. TypeOK'
  BY HereIs DEF TypeOK
<1>3. Underway' /\ AtFirst'
  BY DEF Underway, AtFirst
<1>4. Finished'
  BY <1>1 DEF Finished
<1> QED BY <1>1, <1>2, <1>3, <1>4 DEF IInv

(* What is counted off a total is counted elsewhere. *)
LEMMA SumStays ==
  ASSUME NEW left \in Nat, NEW total \in Nat, NEW count \in Nat, NEW q \in Nat, NEW e \in Nat,
         NEW left2, NEW count2, left2 \in Nat, count2 = count + (e - q), left2 + (e - q) = left,
         left + count = total
  PROVE  left2 + count2 = total
  OBVIOUS

LEMMA LoopKeeps ==
  ASSUME Here, UNCHANGED <<call, size, ret>>, pc' = "loop", call.op \notin Single,
         data' \in Block(Len(call.text) + 2),
         NEW q, NEW e, Stretch(Treated, i.src_e, q, e), e <= Len(call.text),
         i' \in [dst : Nat, src : Nat, src_e : Nat], i'.src_e = e,
         changed' = changed + (e - q), n' \in Nat,
         Given(data', call.text, e),
         call.op \in Counting =>
           n' + (e - q) = n /\ HowMany(Hits, e) = HowMany(Hits, i.src_e) + (e - q),
         call.op \in Removing =>
           i'.src = e /\ Removed(data', i'.dst, call.text, Treated, e),
         call.op \in Replacing =>
           /\ i'.dst = i.dst /\ i'.src = i.src
           /\ Exchanged(data', call.rplc, call.text, Treated, e)
  PROVE  IInv'
<1>1. CallOK /\ TypeOK /\ Behind(i.src_e) /\ size = Len(call.text) /\ call.start <= i.src_e
  BY HereIs
<1>2. CallOK' /\ Treated' = Treated /\ Hits' = Hits
  BY <1>1, SameCall
<1>3. /\ HowMany(Treated, e) = changed + (e - q) /\ e \in Nat /\ i.src_e <= q /\ q <= e
      /\ q \in Nat /\ i.src_e \in Nat /\ changed \in Nat
  BY GoesOn
<1>4. TypeOK'
  BY <1>1, <1>3 DEF TypeOK
<1>5. Behind(e)'
  <2>1. changed' = HowMany(Treated, e)
    BY <1>3
  <2>2. ASSUME call.op \in Counting PROVE n' + changed' = call.n /\ HowMany(Hits, e) = changed'
    <3>1. n + changed = call.n /\ HowMany(Hits, i.src_e) = changed
      BY <1>1, <2>2 DEF Behind
    <3>2. n' + (e - q) = n /\ HowMany(Hits, e) = HowMany(Hits, i.src_e) + (e - q)
      BY <2>2
    <3>3. n \in Nat /\ call.n \in Nat
      BY <1>1 DEF TypeOK, CallOK
    <3>4. HowMany(Hits, e) = changed'
      BY <3>1, <3>2
    <3>5. n' + changed' = call.n
      <4>1. PICK n2 \in Nat : n2 = n'
        OBVIOUS
      <4>2. PICK c2 \in Nat, k \in Nat : c2 = changed + k /\ k = e - q /\ changed' = c2
        BY <1>3
      <4>3. n2 + k = n
        BY <3>2, <4>1, <4>2
      <4>4. n2 + c2 = call.n
        BY <1>3, <3>1, <3>3, <4>2, <4>3
      <4> QED BY <4>1, <4>2, <4>4
    <3> QED BY <3>4, <3>5
  <2> QED BY <1>2, <2>1, <2>2 DEF Behind
<1>6. call.start <= e
  BY <1>1, <1>3 DEF CallOK
<1>7. call.op \in Replacing => i.dst = call.start /\ i.src = call.start
  BY DEF Here, IInv, Underway
<1>8. Underway'
  BY <1>1, <1>2, <1>5, <1>6, <1>7 DEF Underway
<1>9. AtFirst' /\ Finished'
  BY DEF AtFirst, Finished
<1> QED BY <1>2, <1>4, <1>8, <1>9 DEF IInv

(* A call that ends without writing. *)
LEMMA EndsKeeps ==
  ASSUME Here, UNCHANGED <<data, size, call, i, n, changed>>, pc' = "done", ret' = changed,
         Stretch(Treated, i.src_e, Len(call.text), Len(call.text)),
         call.op \in Replacing \/ pc = "entry"
  PROVE  IInv'
<1> DEFINE lim == Len(call.text)
           p == i.src_e
<1>1. /\ CallOK /\ TypeOK /\ size = lim /\ p \in 0..lim /\ Given(data, call.text, p)
      /\ data \in Block(lim + 2)
  BY HereIs
<1>2. lim \in Nat /\ call.text \in Seq(Char) /\ Treated \in SUBSET (1..lim)
  BY <1>1, Lengths
<1>3. ret' = Cardinality(Treated) /\ ret' \in Nat
  BY <1>1, AllTreated DEF TypeOK
<1>4. data'[size'] = NUL
  BY <1>1 DEF Given
<1>5. ASSUME call.op \in Removing PROVE Removed(data', size', call.text, Treated, lim)
  <2>1. pc = "entry" /\ i = At(call.start)
    BY <1>5 DEF Removing, Replacing, Here, IInv, AtFirst
  <2>2. i.dst = p /\ i.src = p /\ p \in Nat
    BY <1>1, <2>1 DEF At
  <2>3. Removed(data, p, call.text, Treated, p)
    BY <1>5, <2>2 DEF Here, IInv, Underway
  <2>4. \A m \in p..(p + (lim - p) - 1) : data[m] = data[m - p + p]
    <3>1. ASSUME NEW m \in p..(p + (lim - p) - 1) PROVE m = m - p + p
      BY <1>2, <2>2
    <3> QED BY <3>1
  <2>5. Removed(data, p + (lim - p), call.text, Treated, lim)
    <3> HIDE DEF p
    <3>1. \A m \in 0..(p - 1) : data[m] = data[m]
      OBVIOUS
    <3>2. lim <= Len(call.text) /\ Stretch(Treated, p, lim, lim)
      BY <1>2 DEF p
    <3> QED BY <1>1, <1>2, <2>3, <2>4, <3>1, <3>2, KeepsStretch
  <2> QED BY <1>1, <1>2, <2>2, <2>5
<1>6. ASSUME call.op \in Replacing
      PROVE  size' = lim /\ Exchanged(data', call.rplc, call.text, Treated, size')
  <2>1. Exchanged(data, call.rplc, call.text, Treated, p)
    BY <1>6 DEF Here, IInv, Underway
  <2>2. Overwritten(data, data, call.rplc, lim, lim, lim)
    BY <1>2 DEF Overwritten
  <2>3. Exchanged(data, call.rplc, call.text, Treated, lim)
    BY <1>1, <1>2, <2>1, <2>2, SetsStretch
  <2> QED BY <1>1, <2>3
<1> QED BY <1>1, <1>2, <1>3, <1>4, <1>5, <1>6, DoneKeeps

(* One iteration of a removal: the text between two stretches moves back. *)
LEMMA MovesStretch ==
  ASSUME Here, call.op \in Removing, NEW q, NEW e, Stretch(Treated, i.src_e, q, e),
         e <= Len(call.text), NEW v,
         v = IF pc = "entry" THEN data ELSE Move(data, i.dst, i.src, q - i.src)
  PROVE  /\ v \in Block(Len(call.text) + 2)
         /\ i.src = i.src_e
         /\ Removed(v, i.dst + (q - i.src), call.text, Treated, e)
         /\ Given(v, call.text, e)
<1> DEFINE lim == Len(call.text)
           w == i.dst
           p == i.src
<1>1. /\ CallOK /\ TypeOK /\ Given(data, call.text, i.src_e) /\ data \in Block(lim + 2)
      /\ i.src_e \in 0..lim
  BY HereIs
<1>2. lim \in Nat /\ call.text \in Seq(Char) /\ Treated \in SUBSET (1..lim)
  BY <1>1, Lengths
<1>3. p = i.src_e /\ Removed(data, w, call.text, Treated, p)
  BY DEF Here, IInv, Underway
<1>4. p \in Nat /\ q \in Nat /\ e \in Nat /\ p <= q /\ q <= e /\ w \in Nat
  BY <1>3 DEF Stretch, Removed
<1>5. w <= p
  <2>1. HowMany(Treated, p) \in Nat
    BY <1>2, UptoFinite
  <2> QED BY <1>3, <1>4, <2>1 DEF Removed
<1>6. v \in Block(lim + 2)
  BY <1>1, <1>2, <1>4, MoveType
<1>7. ASSUME NEW m \in 0..lim
      PROVE  v[m] = IF w <= m /\ m < w + (q - p) THEN data[m - w + p] ELSE data[m]
  <2>1. CASE pc = "entry"
    <3>1. w = p
      BY <2>1 DEF Here, IInv, AtFirst, At
    <3>2. m - w + p = m
      BY <1>4, <3>1
    <3> QED BY <2>1, <3>2
  <2>2. CASE pc # "entry"
    <3>1. m \in 0..((lim + 2) - 1) /\ lim + 2 \in Nat /\ q - p \in Nat /\ p + (q - p) <= lim + 2
      BY <1>2, <1>4
    <3>2. v = Move(data, w, p, q - p)
      BY <2>2
    <3> HIDE DEF w, p, lim
    <3>3. Move(data, w, p, q - p)[m]
            = IF w <= m /\ m < w + (q - p) THEN data[m - w + p] ELSE data[m]
      BY <1>1, <1>4, <3>1, MoveByte
    <3> QED BY <3>2, <3>3
  <2> QED BY <2>1, <2>2
<1>8. Removed(v, w + (q - p), call.text, Treated, e)
  <2>1. \A m \in 0..(w - 1) : v[m] = data[m]
    <3>1. ASSUME NEW m \in 0..(w - 1) PROVE m \in 0..lim /\ ~(w <= m)
      BY <1>2, <1>4, <1>5
    <3> QED BY <1>7, <3>1
  <2>2. \A m \in w..(w + (q - p) - 1) : v[m] = data[m - w + p]
    <3>1. ASSUME NEW m \in w..(w + (q - p) - 1) PROVE m \in 0..lim /\ w <= m /\ m < w + (q - p)
      BY <1>2, <1>4, <1>5
    <3> QED BY <1>7, <3>1
  <2> HIDE DEF w, p, lim
  <2>3. Given(data, call.text, p) /\ Stretch(Treated, p, q, e) /\ e <= Len(call.text)
    BY <1>1, <1>3
  <2>4. Treated \in SUBSET (1..Len(call.text))
    BY <1>2 DEF lim
  <2> QED BY <1>2, <1>3, <2>1, <2>2, <2>3, <2>4, KeepsStretch
<1>9. Given(v, call.text, e)
  <2>1. ASSUME NEW m \in e..lim PROVE v[m] = data[m]
    <3>1. m \in 0..lim /\ ~(m < w + (q - p))
      BY <1>2, <1>4, <1>5
    <3> QED BY <1>7, <3>1
  <2> QED BY <1>1, <1>2, <1>3, <1>4, <2>1, GivenFurther
<1> QED BY <1>3, <1>6, <1>8, <1>9

(* jstr_strmove_len to the left: what is before it stays. *)
LEMMA StrMoveBack ==
  ASSUME NEW b \in Nat, NEW m \in Block(b), NEW dst \in Nat, NEW from \in Nat, NEW len \in Nat,
         dst <= from, from + len < b
  PROVE  /\ StrMove(m, dst, from, len) \in Block(b)
         /\ StrMove(m, dst, from, len)[dst + len] = NUL
         /\ \A k \in 0..(dst - 1) : StrMove(m, dst, from, len)[k] = m[k]
         /\ \A k \in dst..(dst + len - 1) : StrMove(m, dst, from, len)[k] = m[k - dst + from]
<1>1. StrMove(m, dst, from, len) \in Block(b) /\ StrMove(m, dst, from, len)[dst + len] = NUL
  <2>1. dst + len < b
    OBVIOUS
  <2> QED BY <2>1, StrMoveType, StrMoveEnds
<1>2. from + len <= b
  OBVIOUS
<1>3. ASSUME NEW k \in 0..(b - 1)
      PROVE  StrMove(m, dst, from, len)[k]
               = IF k = dst + len THEN NUL
                 ELSE IF dst <= k /\ k < dst + len THEN m[k - dst + from] ELSE m[k]
  BY <1>2, StrMoveByte
<1>4. ASSUME NEW k \in 0..(dst - 1) PROVE StrMove(m, dst, from, len)[k] = m[k]
  <2>1. k \in 0..(b - 1) /\ k # dst + len /\ ~(dst <= k)
    OBVIOUS
  <2> QED BY <1>3, <2>1
<1>5. ASSUME NEW k \in dst..(dst + len - 1)
      PROVE  StrMove(m, dst, from, len)[k] = m[k - dst + from]
  <2>1. k \in 0..(b - 1) /\ k # dst + len /\ dst <= k /\ k < dst + len
    OBVIOUS
  <2> QED BY <1>3, <2>1
<1> QED BY <1>1, <1>4, <1>5

(* The rest of the text goes to the end of what was kept. *)
LEMMA MovesRest ==
  ASSUME CallOK, TypeOK, NEW w, NEW p, Removed(data, w, call.text, Treated, p),
         Given(data, call.text, p), Stretch(Treated, p, Len(call.text), Len(call.text)), NEW v,
         v = StrMove(data, w, p, Len(call.text) - p)
  PROVE  /\ v \in Block(Len(call.text) + 2)
         /\ w + (Len(call.text) - p) \in Nat
         /\ v[w + (Len(call.text) - p)] = NUL
         /\ Removed(v, w + (Len(call.text) - p), call.text, Treated, Len(call.text))
<1> DEFINE lim == Len(call.text)
<1>1. data \in Block(lim + 2)
  BY DEF TypeOK
<1>2. lim \in Nat /\ call.text \in Seq(Char) /\ Treated \in SUBSET (1..lim)
  BY Lengths
<1>3. p \in Nat /\ p <= lim /\ w \in Nat
  BY DEF Stretch, Removed
<1>4. w <= p
  <2>1. HowMany(Treated, p) \in Nat
    BY <1>2, UptoFinite
  <2> QED BY <1>3, <2>1 DEF Removed
<1> HIDE DEF lim
<1>5. lim + 2 \in Nat /\ lim - p \in Nat /\ p + (lim - p) < lim + 2 /\ w + (lim - p) \in Nat
  BY <1>2, <1>3, <1>4
<1>6. v = StrMove(data, w, p, lim - p)
  BY DEF lim
<1>7. /\ v \in Block(lim + 2) /\ v[w + (lim - p)] = NUL
      /\ \A m \in 0..(w - 1) : v[m] = data[m]
      /\ \A m \in w..(w + (lim - p) - 1) : v[m] = data[m - w + p]
  <2>1. /\ StrMove(data, w, p, lim - p) \in Block(lim + 2)
        /\ StrMove(data, w, p, lim - p)[w + (lim - p)] = NUL
        /\ \A m \in 0..(w - 1) : StrMove(data, w, p, lim - p)[m] = data[m]
        /\ \A m \in w..(w + (lim - p) - 1) : StrMove(data, w, p, lim - p)[m] = data[m - w + p]
    <3>1. PICK b \in Nat, len \in Nat : b = lim + 2 /\ len = lim - p
      BY <1>5
    <3>2. data \in Block(b) /\ p + len < b
      BY <1>1, <1>5, <3>1
    <3>3. /\ StrMove(data, w, p, len) \in Block(b)
          /\ StrMove(data, w, p, len)[w + len] = NUL
          /\ \A m \in 0..(w - 1) : StrMove(data, w, p, len)[m] = data[m]
          /\ \A m \in w..(w + len - 1) : StrMove(data, w, p, len)[m] = data[m - w + p]
      BY <1>3, <1>4, <3>2, StrMoveBack
    <3> QED BY <3>1, <3>3, Zenon
  <2> QED BY <1>6, <2>1, Zenon
<1>8. Removed(v, w + (lim - p), call.text, Treated, lim)
  <2>1. lim <= lim /\ Stretch(Treated, p, lim, lim) /\ lim = Len(call.text)
    BY <1>2 DEF lim
  <2> QED BY <1>2, <1>7, <2>1, KeepsStretch
<1> QED BY <1>5, <1>7, <1>8 DEF lim

(***************************************************************************)
(* The first state.                                                        *)
(***************************************************************************)

LEMMA StrCpyFirst ==
  ASSUME NEW b \in Nat, NEW m \in Block(b), NEW text \in Seq(Char), NEW k \in 0..(b - 1)
  PROVE  StrCpy(m, 0, text)[k] = IF k = Len(text) THEN NUL
                                 ELSE IF k < Len(text) THEN text[k + 1] ELSE m[k]
<1>1. PICK dst \in Nat : dst = 0
  OBVIOUS
<1>2. StrCpy(m, dst, text)[k]
        = IF k = dst + Len(text) THEN NUL
          ELSE IF dst <= k /\ k < dst + Len(text) THEN text[k - dst + 1] ELSE m[k]
  BY StrCpyByte
<1>3. Len(text) \in Nat /\ k \in Nat
  OBVIOUS
<1>4. dst + Len(text) = Len(text) /\ dst <= k /\ k - dst + 1 = k + 1
  BY <1>1, <1>3
<1>5. StrCpy(m, dst, text)[k] = IF k = Len(text) THEN NUL
                                ELSE IF k < Len(text) THEN text[k + 1] ELSE m[k]
  BY <1>2, <1>4
<1> QED BY <1>1, <1>5

LEMMA InitData ==
  ASSUME Init
  PROVE  /\ CallOK /\ TypeOK /\ size = Len(call.text)
         /\ pc = "entry" /\ i = At(call.start) /\ n = call.n /\ changed = 0
         /\ Given(data, call.text, 0)
<1>1. PICK text \in Texts :
        /\ size = Len(text)
        /\ data = StrCpy([k \in 0..(Len(text) + 1) |-> Junk], 0, text)
        /\ \E op \in Ops, start \in 0..Len(text), reject \in SUBSET Char,
              rplc \in Char, cnt \in Counts :
             /\ op \in {"rplcspn", "rplcnchr"} => start = 0
             /\ op \notin {"rplcspn", "rplcallspn", "rplcnchr"} => rplc = CHOOSE x \in Char : TRUE
             /\ op \in Counting => \E c \in Char : reject = {c}
             /\ op \notin Counting => cnt = 0
             /\ call = [op |-> op, start |-> start, reject |-> reject, rplc |-> rplc,
                        n |-> cnt, text |-> text]
             /\ n = cnt
             /\ i = At(start)
  BY Zenon DEF Init
<1>2. PICK op \in Ops, start \in 0..Len(text), reject \in SUBSET Char, rplc \in Char,
           cnt \in Counts :
             /\ op \in {"rplcspn", "rplcnchr"} => start = 0
             /\ call = [op |-> op, start |-> start, reject |-> reject, rplc |-> rplc,
                        n |-> cnt, text |-> text]
             /\ n = cnt
             /\ i = At(start)
  BY <1>1, Zenon
<1>3. pc = "entry" /\ changed = 0 /\ ret = 0
  BY DEF Init
<1>4. /\ call.op = op /\ call.start = start /\ call.reject = reject /\ call.rplc = rplc
      /\ call.n = cnt /\ call.text = text
  BY <1>2
<1>5. text \in Seq(Char) /\ cnt \in Nat
  BY TextsAssumption, CountsAssumption
<1>6. CallOK
  BY <1>2, <1>4, <1>5 DEF CallOK
<1>7. PICK lim \in Nat : lim = Len(text)
  BY <1>5
<1>8. PICK b \in Nat : b = lim + 2 /\ b - 1 = lim + 1
  BY <1>7
<1> DEFINE fresh == [k \in 0..(b - 1) |-> Junk]
<1>9. data = StrCpy(fresh, 0, text)
  BY <1>1, <1>7, <1>8
<1>10. fresh \in Block(b)
  BY DEF Block, Byte
<1> HIDE DEF fresh
<1>11. data \in Block(b)
  BY <1>5, <1>9, <1>10, StrCpyType
<1>12. ASSUME NEW k \in 0..(b - 1)
       PROVE  data[k] = IF k = Len(text) THEN NUL
                        ELSE IF k < Len(text) THEN text[k + 1] ELSE fresh[k]
  BY <1>5, <1>9, <1>10, StrCpyFirst
<1>13. data[lim] = NUL
  <2>1. lim \in 0..(b - 1) /\ lim = Len(text)
    BY <1>7, <1>8
  <2> QED BY <1>12, <2>1
<1>14. ASSUME NEW k \in 1..lim PROVE data[k - 1] = text[k]
  <2>1. k - 1 \in 0..(b - 1) /\ k - 1 # Len(text) /\ k - 1 < Len(text) /\ (k - 1) + 1 = k
    BY <1>7, <1>8
  <2>2. data[k - 1] = text[(k - 1) + 1]
    BY <1>12, <2>1
  <2> QED BY <2>1, <2>2
<1>15. Given(data, call.text, 0)
  <2>1. 0 \in 0..lim /\ 0 + 1 = 1
    BY <1>7
  <2> QED BY <1>4, <1>7, <1>13, <1>14, <2>1 DEF Given
<1>16. TypeOK
  <2>1. start \in Nat
    BY <1>7
  <2>2. i \in [dst : Nat, src : Nat, src_e : Nat]
    BY <1>2, <2>1 DEF At
  <2> QED BY <1>1, <1>2, <1>3, <1>4, <1>5, <1>7, <1>8, <1>11, <2>2 DEF TypeOK
<1> QED BY <1>1, <1>2, <1>3, <1>4, <1>6, <1>15, <1>16

(* Nothing is treated before the call starts. *)
LEMMA NoneBeforeStart ==
  ASSUME CallOK
  PROVE  /\ HowMany(Treated, call.start) = 0 /\ HowMany(Hits, call.start) = 0
         /\ \A k \in 0..(call.start) : HowMany(Treated, k) = 0 /\ k \notin Treated
<1>1. Hits \in SUBSET (1..Len(call.text)) /\ (\A k \in Hits : call.start < k)
  BY HitsType
<1>2. Treated \subseteq Hits /\ call.start \in Nat
  BY TreatedType DEF CallOK
<1>3. ASSUME NEW k \in 0..(call.start) PROVE Upto(Hits, k) = {} /\ Upto(Treated, k) = {}
  <2>1. ASSUME NEW j \in Hits PROVE ~(j <= k)
    <3>1. j \in Nat /\ call.start < j
      BY <1>1
    <3> QED BY <1>2, <3>1
  <2> QED BY <1>2, <2>1 DEF Upto
<1>4. ASSUME NEW k \in 0..(call.start) PROVE HowMany(Hits, k) = 0 /\ HowMany(Treated, k) = 0
  BY <1>3, FS_EmptySet DEF HowMany
<1>5. ASSUME NEW k \in 0..(call.start) PROVE k \notin Treated
  <2>1. \A j \in Hits : j \in Nat /\ call.start < j
    BY <1>1
  <2> QED BY <1>2, <2>1
<1>6. call.start \in 0..(call.start)
  BY <1>2
<1> QED BY <1>4, <1>5, <1>6

LEMMA InitInv ==
  ASSUME Init
  PROVE  IInv
<1> DEFINE start == call.start
           lim == Len(call.text)
<1>1. /\ CallOK /\ TypeOK /\ size = lim
      /\ pc = "entry" /\ i = At(start) /\ n = call.n /\ changed = 0
      /\ Given(data, call.text, 0)
  BY InitData
<1>2. start \in 0..lim /\ lim \in Nat /\ call.text \in Seq(Char)
      /\ Treated \in SUBSET (1..lim)
  BY <1>1, Lengths DEF CallOK
<1>3. i.dst = start /\ i.src = start /\ i.src_e = start
  BY <1>1 DEF At
<1>4. /\ HowMany(Treated, start) = 0 /\ HowMany(Hits, start) = 0
      /\ \A k \in 0..start : HowMany(Treated, k) = 0 /\ k \notin Treated
  BY <1>1, NoneBeforeStart
<1>5. Given(data, call.text, start)
  <2>1. start \in Nat /\ 0 <= start /\ start <= lim
    BY <1>2
  <2> QED BY <1>1, <1>2, <2>1, GivenFurther
<1>6. Behind(start)
  BY <1>1, <1>4 DEF Behind, TypeOK
<1> HIDE DEF start, lim
<1>7. \A k \in 1..start : data[k - 1] = call.text[k]
  <2>1. \A k \in 1..lim : data[k - 1] = call.text[k]
    BY <1>1 DEF Given, lim
  <2>2. \A k \in 1..start : k \in 1..lim
    BY <1>2
  <2> QED BY <2>1, <2>2
<1>8. Removed(data, start, call.text, Treated, start)
  <2>1. start \in Nat /\ start - HowMany(Treated, start) = start
    BY <1>2, <1>4
  <2>2. ASSUME NEW m \in 0..(start - 1) PROVE Stands(data, m, call.text, Treated, start)
    <3>1. m + 1 \in 1..start /\ m + 1 \in 0..start /\ (m + 1) - 1 = m /\ (m + 1) - 0 = m + 1
      BY <2>1
    <3>2. data[m] = call.text[m + 1] /\ m + 1 \notin Treated
          /\ (m + 1) - HowMany(Treated, m + 1) = m + 1
      BY <1>4, <1>7, <3>1
    <3> QED BY <3>1, <3>2 DEF Stands
  <2> QED BY <2>1, <2>2 DEF Removed
<1>9. Exchanged(data, call.rplc, call.text, Treated, start)
  <2>1. \A k \in 1..start : k \in 0..start
    BY <1>2
  <2> QED BY <1>4, <1>7, <2>1 DEF Exchanged
<1>10. Underway
  <2>1. call.start <= start
    BY <1>2 DEF start
  <2> QED BY <1>1, <1>3, <1>5, <1>6, <1>8, <1>9, <2>1 DEF Underway, start, lim
<1>11. AtFirst /\ Finished
  BY <1>1 DEF AtFirst, Finished, start
<1> QED BY <1>1, <1>10, <1>11 DEF IInv

(***************************************************************************)
(* The steps.                                                              *)
(***************************************************************************)

LEMMA AtEndKeeps ==
  ASSUME IInv, AtEnd
  PROVE  IInv'
<1>1. /\ call.op \in {"rplcallspn", "rmspn", "rmallspn", "rmnchr"} /\ pc = "entry"
      /\ call.start >= size /\ pc' = "done" /\ ret' = 0
      /\ UNCHANGED <<data, size, call, i, n, changed>>
  BY DEF AtEnd, Entry, Nothing, Done
<1>2. Here /\ pc = "entry" /\ i = At(call.start) /\ changed = 0
  BY <1>1 DEF Here, IInv, AtFirst
<1>3. CallOK /\ size = Len(call.text) /\ i.src_e = call.start
  BY <1>2, HereIs DEF At
<1>4. Len(call.text) \in Nat /\ call.start = Len(call.text)
  BY <1>1, <1>3, Lengths DEF CallOK
<1>5. Stretch(Treated, i.src_e, Len(call.text), Len(call.text))
  BY <1>3, <1>4 DEF Stretch
<1> QED BY <1>1, <1>2, <1>5, EndsKeeps

(* What a call that replaces writes. *)
LEMMA FillSets ==
  ASSUME Here, call.op \in Replacing, NEW q, NEW e, Stretch(Treated, i.src_e, q, e),
         e <= Len(call.text), NEW v, v = Fill(data, q, call.rplc, e - q)
  PROVE  /\ v \in Block(Len(call.text) + 2)
         /\ Exchanged(v, call.rplc, call.text, Treated, e)
         /\ Given(v, call.text, e)
<1> DEFINE lim == Len(call.text)
           c == call.rplc
<1>1. CallOK /\ Given(data, call.text, i.src_e) /\ data \in Block(lim + 2) /\ c \in Byte
  BY HereIs DEF CallOK, Byte
<1>2. lim \in Nat /\ call.text \in Seq(Char) /\ Treated \in SUBSET (1..lim)
  BY <1>1, Lengths
<1>3. PICK b \in Nat : b = lim + 2 /\ b - 1 = lim + 1
  BY <1>2
<1>4. q \in Nat /\ e \in Nat /\ q <= e
  BY DEF Stretch
<1>5. v \in Block(b) /\ data \in Block(b)
  BY <1>1, <1>3, FillType
<1>6. ASSUME NEW m \in 0..lim PROVE v[m] = IF q <= m /\ m < e THEN c ELSE data[m]
  <2>1. m \in 0..(b - 1)
    BY <1>2, <1>3
  <2>2. PICK len \in Nat : len = e - q /\ q + len = e
    BY <1>4
  <2> HIDE DEF c, lim
  <2>3. Fill(data, q, c, len)[m] = IF q <= m /\ m < q + len THEN c ELSE data[m]
    BY <1>5, <2>1, FillByte
  <2>4. v = Fill(data, q, c, len)
    BY <2>2 DEF c
  <2> QED BY <2>2, <2>3, <2>4
<1>7. Exchanged(data, c, call.text, Treated, i.src_e)
  BY DEF Here, IInv, Underway
<1>8. Exchanged(v, c, call.text, Treated, e) /\ Given(v, call.text, e)
  <2>1. Overwritten(v, data, c, q, e, Len(call.text))
    BY <1>6 DEF Overwritten
  <2>2. Given(data, call.text, i.src_e) /\ call.text \in Seq(Char)
        /\ Treated \in SUBSET (1..Len(call.text))
    BY <1>1, <1>2
  <2> HIDE DEF c, lim
  <2> QED BY <1>7, <2>1, <2>2, SetsStretch
<1> QED BY <1>3, <1>5, <1>8

(* The whole count, when a single group is treated. *)
LEMMA SingleTreats ==
  ASSUME Here, call.op \in Single, NEW q, NEW e, Group(q, e, i.src_e)
  PROVE  /\ Stretch(Treated, i.src_e, q, e)
         /\ Stretch(Treated, e, Len(call.text), Len(call.text))
         /\ q \in Nat /\ e \in Nat /\ q < e /\ e <= Len(call.text)
         /\ e - q = Cardinality(Treated) /\ e - q \in Nat
<1>1. call.op \notin Counting
  BY DEF Single, Counting
<1>2. Stretch(Treated, i.src_e, q, e) /\ q < e /\ e <= Len(call.text)
      /\ \A k \in (e + 1)..Len(call.text) : k \notin Treated
  BY <1>1, GroupTreats
<1>3. CallOK
  BY HereIs
<1>4. Len(call.text) \in Nat /\ Treated \in SUBSET (1..Len(call.text))
  BY <1>3, Lengths
<1>5. q \in Nat /\ e \in Nat
  BY <1>2 DEF Stretch
<1>6. Stretch(Treated, e, Len(call.text), Len(call.text))
  BY <1>2, <1>4, <1>5 DEF Stretch
<1>7. HowMany(Treated, e) = changed + (e - q)
  BY <1>2, GoesOn
<1>8. changed = 0
  BY SingleStarts DEF Here, IInv, AtFirst
<1>9. /\ \A k \in e..Len(call.text) : HowMany(Treated, k) = HowMany(Treated, e)
      /\ HowMany(Treated, Len(call.text))
           = HowMany(Treated, e) + (Len(call.text) - Len(call.text))
      /\ HowMany(Treated, e) \in Nat
  BY <1>4, <1>6, StretchCounts, Zenon
<1>10. HowMany(Treated, Len(call.text)) = Cardinality(Treated)
  BY <1>4, CountWhole
<1>11. e - q = Cardinality(Treated)
  BY <1>4, <1>5, <1>7, <1>8, <1>9, <1>10
<1> QED BY <1>2, <1>5, <1>6, <1>11

LEMMA RplcSpnKeeps ==
  ASSUME IInv, RplcSpn
  PROVE  IInv'
<1>1. call.op = "rplcspn" /\ pc = "entry"
  BY DEF RplcSpn, Entry
<1>2. Here /\ call.op \in Single /\ call.op \in Replacing /\ call.op \notin Removing
      /\ call.op \notin Counting
  BY <1>1 DEF Here, Single, Replacing, Removing, Counting
<1>3. CallOK /\ size = Len(call.text) /\ i.src_e = 0 /\ changed = 0
  <2>1. CallOK /\ size = Len(call.text) /\ i.src_e = call.start /\ changed = 0
    BY <1>1, <1>2, HereIs, SingleStarts DEF IInv, AtFirst
  <2> QED BY <1>1, <2>1 DEF CallOK
<1>4. CASE \E q \in DOMAIN data : NoneBefore(q, 0) /\ Nothing
  <2>1. PICK q \in DOMAIN data : NoneBefore(q, 0) /\ Nothing
    BY <1>4
  <2>2. Stretch(Treated, i.src_e, Len(call.text), Len(call.text))
    BY <1>2, <1>3, <2>1, NoneTreats
  <2>3. UNCHANGED <<data, size, call, i, n, changed>> /\ pc' = "done" /\ ret' = changed
    BY <1>3, <2>1 DEF Nothing, Done
  <2> QED BY <1>2, <2>2, <2>3, EndsKeeps
<1>5. CASE \E q, e \in DOMAIN data :
             /\ Group(q, e, 0)
             /\ data' = Fill(data, q, call.rplc, e - q)
             /\ Done(e - q)
             /\ UNCHANGED <<size, call, i, n, changed>>
  <2>1. PICK q \in DOMAIN data, e \in DOMAIN data :
             /\ Group(q, e, 0)
             /\ data' = Fill(data, q, call.rplc, e - q)
             /\ Done(e - q)
             /\ UNCHANGED <<size, call, i, n, changed>>
    BY <1>5
  <2>2. /\ Stretch(Treated, i.src_e, q, e)
        /\ Stretch(Treated, e, Len(call.text), Len(call.text))
        /\ q \in Nat /\ e \in Nat /\ q < e /\ e <= Len(call.text)
        /\ e - q = Cardinality(Treated) /\ e - q \in Nat
    BY <1>2, <1>3, <2>1, SingleTreats
  <2>3. /\ data' \in Block(Len(call.text) + 2)
        /\ Exchanged(data', call.rplc, call.text, Treated, e)
        /\ Given(data', call.text, e)
    BY <1>2, <2>1, <2>2, FillSets
  <2>4. Len(call.text) \in Nat /\ call.text \in Seq(Char)
        /\ Treated \in SUBSET (1..Len(call.text))
    BY <1>3, Lengths
  <2>5. Exchanged(data', call.rplc, call.text, Treated, Len(call.text))
    <3>1. Overwritten(data', data', call.rplc, Len(call.text), Len(call.text), Len(call.text))
      BY DEF Overwritten
    <3>2. Len(call.text) <= Len(call.text)
      BY <2>4
    <3> QED BY <2>2, <2>3, <2>4, <3>1, <3>2, SetsStretch
  <2>6. size' = Len(call.text) /\ size' \in Nat /\ data'[size'] = NUL
    BY <1>3, <2>1, <2>3, <2>4 DEF Given
  <2>7. pc' = "done" /\ ret' = Cardinality(Treated) /\ ret' \in Nat
        /\ UNCHANGED <<call, i, n, changed>>
    BY <2>1, <2>2 DEF Done
  <2>8. Exchanged(data', call.rplc, call.text, Treated, size')
    BY <2>5, <2>6
  <2> QED BY <1>2, <2>3, <2>6, <2>7, <2>8, DoneKeeps
<1> QED BY <1>4, <1>5 DEF RplcSpn

LEMMA RplcAllSpnKeeps ==
  ASSUME IInv, RplcAllSpn
  PROVE  IInv'
<1>1. call.op = "rplcallspn" /\ pc \in {"entry", "loop"} /\ UNCHANGED <<call, n>>
  BY DEF RplcAllSpn, Running
<1>2. Here /\ call.op \notin Single /\ call.op \in Replacing /\ call.op \notin Removing
      /\ call.op \notin Counting
  BY <1>1 DEF Here, Single, Replacing, Removing, Counting
<1>3. /\ size = Len(call.text) /\ i \in [dst : Nat, src : Nat, src_e : Nat] /\ n \in Nat
  BY <1>2, HereIs DEF TypeOK
<1>4. CASE \E q, e \in DOMAIN data :
             /\ Group(q, e, i.src_e)
             /\ data' = Fill(data, q, call.rplc, e - q)
             /\ i' = [i EXCEPT !.src_e = e]
             /\ changed' = changed + (e - q)
             /\ pc' = "loop"
             /\ UNCHANGED <<size, ret>>
  <2>1. PICK q \in DOMAIN data, e \in DOMAIN data :
             /\ Group(q, e, i.src_e)
             /\ data' = Fill(data, q, call.rplc, e - q)
             /\ i' = [i EXCEPT !.src_e = e]
             /\ changed' = changed + (e - q)
             /\ pc' = "loop"
             /\ UNCHANGED <<size, ret>>
    BY <1>4
  <2>2. Stretch(Treated, i.src_e, q, e) /\ e <= Len(call.text) /\ e \in Nat
    BY <1>2, <2>1, GroupTreats DEF Stretch
  <2>3. /\ data' \in Block(Len(call.text) + 2)
        /\ Exchanged(data', call.rplc, call.text, Treated, e)
        /\ Given(data', call.text, e)
    BY <1>2, <2>1, <2>2, FillSets
  <2>4. i' \in [dst : Nat, src : Nat, src_e : Nat] /\ i'.src_e = e /\ i'.dst = i.dst
        /\ i'.src = i.src /\ n' \in Nat
    BY <1>1, <1>3, <2>1, <2>2
  <2>5. UNCHANGED <<call, size, ret>>
    BY <1>1, <2>1
  <2> QED BY <1>2, <2>1, <2>2, <2>3, <2>4, <2>5, LoopKeeps
<1>5. CASE \E q \in DOMAIN data :
             /\ NoneBefore(q, i.src_e)
             /\ size' = q
             /\ Done(changed)
             /\ UNCHANGED <<data, i, changed>>
  <2>1. PICK q \in DOMAIN data :
             /\ NoneBefore(q, i.src_e)
             /\ size' = q
             /\ Done(changed)
             /\ UNCHANGED <<data, i, changed>>
    BY <1>5
  <2>2. q = Len(call.text) /\ Stretch(Treated, i.src_e, Len(call.text), Len(call.text))
    BY <1>2, <2>1, NoneTreats
  <2>3. UNCHANGED <<data, size, call, i, n, changed>> /\ pc' = "done" /\ ret' = changed
    BY <1>1, <1>3, <2>1, <2>2 DEF Done
  <2> QED BY <1>2, <2>2, <2>3, EndsKeeps
<1> QED BY <1>4, <1>5 DEF RplcAllSpn

(* The end of a removal: what is left is moved to where the kept text ends. *)
LEMMA RestKeeps ==
  ASSUME Here, call.op \in Removing, NEW w, NEW p, NEW total,
         Removed(data, w, call.text, Treated, p), Given(data, call.text, p),
         Stretch(Treated, p, Len(call.text), Len(call.text)),
         data' = StrMove(data, w, p, Len(call.text) - p),
         size' = w + (Len(call.text) - p), pc' = "done", ret' = total,
         total = Cardinality(Treated), total \in Nat, UNCHANGED <<call, i, n, changed>>
  PROVE  IInv'
<1>1. CallOK /\ TypeOK
  BY HereIs
<1>2. /\ data' \in Block(Len(call.text) + 2)
      /\ w + (Len(call.text) - p) \in Nat
      /\ data'[w + (Len(call.text) - p)] = NUL
      /\ Removed(data', w + (Len(call.text) - p), call.text, Treated, Len(call.text))
  BY <1>1, MovesRest
<1>3. size' \in Nat /\ data'[size'] = NUL
      /\ Removed(data', size', call.text, Treated, Len(call.text))
  BY <1>2
<1>4. ret' = Cardinality(Treated) /\ ret' \in Nat
  OBVIOUS
<1>5. call.op \notin Replacing
  BY DEF Removing, Replacing
<1> QED BY <1>2, <1>3, <1>4, <1>5, DoneKeeps

LEMMA RmSpnKeeps ==
  ASSUME IInv, RmSpn
  PROVE  IInv'
<1>1. call.op = "rmspn" /\ pc = "entry" /\ UNCHANGED <<call, i, n, changed>>
  BY DEF RmSpn, Entry
<1>2. Here /\ call.op \in Single /\ call.op \in Removing /\ call.op \notin Replacing
      /\ call.op \notin Counting
  BY <1>1 DEF Here, Single, Replacing, Removing, Counting
<1>3. /\ CallOK /\ size = Len(call.text) /\ changed = 0 /\ i.src = i.src_e
      /\ i.dst = i.src_e /\ i.src_e \in 0..Len(call.text)
  BY <1>1, <1>2, HereIs, SingleStarts DEF IInv, AtFirst
<1>4. Len(call.text) \in Nat
  BY <1>3, Lengths
<1>5. CASE \E q \in DOMAIN data :
             NoneBefore(q, i.src_e) /\ size' = q /\ Done(0) /\ UNCHANGED data
  <2>1. PICK q \in DOMAIN data :
             NoneBefore(q, i.src_e) /\ size' = q /\ Done(0) /\ UNCHANGED data
    BY <1>5
  <2>2. q = Len(call.text) /\ Stretch(Treated, i.src_e, Len(call.text), Len(call.text))
    BY <1>2, <2>1, NoneTreats
  <2>3. UNCHANGED <<data, size, call, i, n, changed>> /\ pc' = "done" /\ ret' = changed
    BY <1>1, <1>3, <2>1, <2>2 DEF Done
  <2> QED BY <1>1, <1>2, <2>2, <2>3, EndsKeeps
<1>6. CASE \E q, e \in DOMAIN data :
             /\ Group(q, e, i.src_e)
             /\ data' = StrMove(data, q, e, size - e)
             /\ size' = size - (e - q)
             /\ Done(e - q)
  <2>1. PICK q \in DOMAIN data, e \in DOMAIN data :
             /\ Group(q, e, i.src_e)
             /\ data' = StrMove(data, q, e, size - e)
             /\ size' = size - (e - q)
             /\ Done(e - q)
    BY <1>6
  <2>2. /\ Stretch(Treated, i.src_e, q, e)
        /\ Stretch(Treated, e, Len(call.text), Len(call.text))
        /\ q \in Nat /\ e \in Nat /\ q < e /\ e <= Len(call.text)
        /\ e - q = Cardinality(Treated) /\ e - q \in Nat
    BY <1>2, <2>1, SingleTreats
  <2>3. data = IF pc = "entry" THEN data ELSE Move(data, i.dst, i.src, q - i.src)
    BY <1>1
  <2>4. /\ data \in Block(Len(call.text) + 2)
        /\ i.src = i.src_e
        /\ Removed(data, i.dst + (q - i.src), call.text, Treated, e)
        /\ Given(data, call.text, e)
    BY <1>2, <2>2, <2>3, MovesStretch
  <2>5. i.dst + (q - i.src) = q /\ size' = q + (Len(call.text) - e)
    <3>1. PICK p \in Nat : p = i.src_e
      BY <1>3
    <3>2. p + (q - p) = q /\ Len(call.text) - (e - q) = q + (Len(call.text) - e)
      BY <1>4, <2>2
    <3> QED BY <1>3, <2>1, <3>1, <3>2
  <2>6. Removed(data, q, call.text, Treated, e)
    BY <2>4, <2>5
  <2>7. data' = StrMove(data, q, e, Len(call.text) - e) /\ pc' = "done" /\ ret' = e - q
    BY <1>3, <2>1 DEF Done
  <2> QED BY <1>1, <1>2, <2>2, <2>4, <2>5, <2>6, <2>7, RestKeeps
<1> QED BY <1>5, <1>6 DEF RmSpn

(* Nothing to remove: the string is left alone. *)
LEMMA RmAllSpnNothingKeeps ==
  ASSUME IInv, RmAllSpnNothing
  PROVE  IInv'
<1>1. call.op = "rmallspn" /\ pc = "entry" /\ Nothing
      /\ \E q \in DOMAIN data : NoneBefore(q, i.src_e)
  BY DEF RmAllSpnNothing, Entry
<1>2. Here /\ call.op \notin Counting /\ changed = 0
  BY <1>1 DEF Here, Counting, IInv, AtFirst
<1>3. Stretch(Treated, i.src_e, Len(call.text), Len(call.text))
  BY <1>1, <1>2, NoneTreats
<1>4. UNCHANGED <<data, size, call, i, n, changed>> /\ pc' = "done" /\ ret' = changed
  BY <1>1, <1>2 DEF Nothing, Done
<1> QED BY <1>1, <1>2, <1>3, <1>4, EndsKeeps

LEMMA StripNoneTreats ==
  ASSUME Here, call.op \in {"strip", "rmnchr"}, StripNone
  PROVE  Stretch(Treated, i.src_e, Len(call.text), Len(call.text))
<1>1. CASE call.op = "strip"
  <2>1. call.op \notin Counting /\ \E q \in DOMAIN data : NoneBefore(q, i.src_e)
    BY <1>1 DEF Counting, StripNone
  <2> QED BY <2>1, NoneTreats
<1>2. CASE call.op = "rmnchr"
  <2>1. call.op \in Counting /\ (n = 0 \/ \E q \in DOMAIN data : NoneBefore(q, i.src_e))
    BY <1>2 DEF Counting, StripNone
  <2> QED BY <2>1, NoMoreTreats
<1> QED BY <1>1, <1>2

LEMMA StripNothingKeeps ==
  ASSUME IInv, StripNothing
  PROVE  IInv'
<1>1. call.op \in {"strip", "rmnchr"} /\ pc = "entry" /\ Nothing /\ StripNone
  BY DEF StripNothing, Entry
<1>2. Here /\ changed = 0
  BY <1>1 DEF Here, IInv, AtFirst
<1>3. Stretch(Treated, i.src_e, Len(call.text), Len(call.text))
  BY <1>1, <1>2, StripNoneTreats
<1>4. UNCHANGED <<data, size, call, i, n, changed>> /\ pc' = "done" /\ ret' = changed
  BY <1>1, <1>2 DEF Nothing, Done
<1> QED BY <1>1, <1>2, <1>3, <1>4, EndsKeeps

(* One iteration of the loops that remove. *)
LEMMA MoveKeeps ==
  ASSUME Here, call.op \in Removing, call.op \notin Single,
         NEW q, NEW e, Stretch(Treated, i.src_e, q, e), e <= Len(call.text),
         call.op \in Counting =>
           n' + (e - q) = n /\ HowMany(Hits, e) = HowMany(Hits, i.src_e) + (e - q),
         n' \in Nat,
         data' = IF pc = "entry" THEN data ELSE Move(data, i.dst, i.src, q - i.src),
         i' = [dst |-> i.dst + (q - i.src), src |-> e, src_e |-> e],
         changed' = changed + (e - q), pc' = "loop", UNCHANGED <<size, call, ret>>
  PROVE  IInv'
<1>1. /\ data' \in Block(Len(call.text) + 2)
      /\ i.src = i.src_e
      /\ Removed(data', i.dst + (q - i.src), call.text, Treated, e)
      /\ Given(data', call.text, e)
  BY MovesStretch
<1>2. i.dst + (q - i.src) \in Nat /\ e \in Nat
  BY <1>1 DEF Removed, Stretch
<1>3. /\ i' \in [dst : Nat, src : Nat, src_e : Nat] /\ i'.src_e = e /\ i'.src = e
      /\ i'.dst = i.dst + (q - i.src)
  BY <1>2
<1>4. Removed(data', i'.dst, call.text, Treated, e)
  BY <1>1, <1>3
<1>5. call.op \notin Replacing
  BY DEF Removing, Replacing
<1> QED BY <1>1, <1>3, <1>4, <1>5, LoopKeeps

LEMMA RmAllSpnKeeps ==
  ASSUME IInv, RmAllSpn
  PROVE  IInv'
<1>1. call.op = "rmallspn" /\ pc \in {"entry", "loop"}
  BY DEF RmAllSpn, Running
<1>2. Here /\ call.op \in Removing /\ call.op \notin Single /\ call.op \notin Counting
  BY <1>1 DEF Here, Single, Removing, Counting
<1>3. PICK q \in DOMAIN data, e \in DOMAIN data :
        /\ Group(q, e, i.src_e)
        /\ data' = IF pc = "entry" THEN data ELSE Move(data, i.dst, i.src, q - i.src)
        /\ i' = [dst |-> i.dst + (q - i.src), src |-> e, src_e |-> e]
        /\ changed' = changed + (e - q)
  BY DEF RmAllSpn
<1>4. pc' = "loop" /\ UNCHANGED <<size, call, n, ret>>
  BY DEF RmAllSpn
<1>5. Stretch(Treated, i.src_e, q, e) /\ e <= Len(call.text)
  BY <1>2, <1>3, GroupTreats
<1>6. n' \in Nat
  BY <1>2, <1>4, HereIs DEF TypeOK
<1> QED BY <1>2, <1>3, <1>4, <1>5, <1>6, MoveKeeps

LEMMA RmAllSpnEndKeeps ==
  ASSUME IInv, RmAllSpnEnd
  PROVE  IInv'
<1>1. call.op = "rmallspn" /\ pc = "loop"
  BY DEF RmAllSpnEnd, Loop
<1>2. Here /\ call.op \in Removing /\ call.op \notin Counting
  BY <1>1 DEF Here, Removing, Counting
<1>3. PICK q \in DOMAIN data :
        /\ NoneBefore(q, i.src_e)
        /\ data' = StrMove(data, i.dst, i.src, q - i.src)
        /\ size' = i.dst + (q - i.src)
  BY DEF RmAllSpnEnd
<1>4. pc' = "done" /\ ret' = changed /\ UNCHANGED <<call, i, n, changed>>
  BY DEF RmAllSpnEnd, Done
<1>5. q = Len(call.text) /\ Stretch(Treated, i.src_e, Len(call.text), Len(call.text))
  BY <1>2, <1>3, NoneTreats
<1>6. /\ i.src = i.src_e /\ Removed(data, i.dst, call.text, Treated, i.src)
      /\ Given(data, call.text, i.src)
  BY <1>2 DEF Here, IInv, Underway
<1>7. changed = Cardinality(Treated) /\ changed \in Nat
  BY <1>2, <1>5, AllTreated, HereIs DEF TypeOK
<1> QED BY <1>2, <1>3, <1>4, <1>5, <1>6, <1>7, RestKeeps

LEMMA StripKeeps ==
  ASSUME IInv, Strip
  PROVE  IInv'
<1>1. call.op \in {"strip", "rmnchr"} /\ pc \in {"entry", "loop"}
      /\ (call.op = "rmnchr" => n # 0)
  BY DEF Strip, Running
<1>2. /\ Here /\ call.op \in Removing /\ call.op \notin Single
      /\ call.op \in Counting \cup {"strip"}
      /\ call.op \in Counting => call.op = "rmnchr"
  BY <1>1 DEF Here, Single, Removing, Counting
<1>3. PICK q \in DOMAIN data :
        /\ CSpan(q, i.src_e)
        /\ data[q] # NUL
        /\ data' = IF pc = "entry" THEN data ELSE Move(data, i.dst, i.src, q - i.src)
        /\ i' = [dst |-> i.dst + (q - i.src), src |-> q + 1, src_e |-> q + 1]
  BY DEF Strip
<1>4. /\ n' = IF call.op = "rmnchr" THEN n - 1 ELSE n
      /\ changed' = changed + 1 /\ pc' = "loop" /\ UNCHANGED <<size, call, ret>>
  BY DEF Strip
<1>5. /\ Stretch(Treated, i.src_e, q, q + 1)
      /\ q < Len(call.text)
      /\ call.op \in Counting => HowMany(Hits, q + 1) = HowMany(Hits, i.src_e) + 1
  BY <1>1, <1>2, <1>3, OneTreats
<1>6. q \in Nat /\ (q + 1) - q = 1 /\ q + 1 <= Len(call.text)
  <2>1. CallOK
    BY <1>2, HereIs
  <2>2. q \in Nat /\ Len(call.text) \in Nat
    BY <1>5, <2>1, Lengths DEF Stretch
  <2> QED BY <1>5, <2>2
<1>7. n \in Nat
  BY <1>2, HereIs DEF TypeOK
<1>8. n' \in Nat /\ (call.op \in Counting => n' + 1 = n)
  BY <1>1, <1>2, <1>4, <1>7
<1>9. PICK e : e = q + 1 /\ e - q = 1
  BY <1>6
<1>10. /\ Stretch(Treated, i.src_e, q, e) /\ e <= Len(call.text)
       /\ i' = [dst |-> i.dst + (q - i.src), src |-> e, src_e |-> e]
       /\ changed' = changed + (e - q)
       /\ call.op \in Counting =>
            n' + (e - q) = n /\ HowMany(Hits, e) = HowMany(Hits, i.src_e) + (e - q)
  BY <1>3, <1>4, <1>5, <1>6, <1>8, <1>9
<1> QED BY <1>2, <1>3, <1>4, <1>8, <1>10, MoveKeeps

LEMMA StripEndKeeps ==
  ASSUME IInv, StripEnd
  PROVE  IInv'
<1>1. call.op \in {"strip", "rmnchr"} /\ pc = "loop" /\ StripNone
  BY DEF StripEnd, Loop
<1>2. Here /\ call.op \in Removing
  BY <1>1 DEF Here, Removing
<1>3. size = Len(call.text)
  BY <1>2, HereIs
<1>4. /\ data' = StrMove(data, i.dst, i.src, Len(call.text) - i.src)
      /\ size' = i.dst + (Len(call.text) - i.src)
      /\ pc' = "done" /\ ret' = changed /\ UNCHANGED <<call, i, n, changed>>
  BY <1>3 DEF StripEnd, Done
<1>5. Stretch(Treated, i.src_e, Len(call.text), Len(call.text))
  BY <1>1, <1>2, StripNoneTreats
<1>6. /\ i.src = i.src_e /\ Removed(data, i.dst, call.text, Treated, i.src)
      /\ Given(data, call.text, i.src)
  BY <1>2 DEF Here, IInv, Underway
<1>7. changed = Cardinality(Treated) /\ changed \in Nat
  BY <1>2, <1>5, AllTreated, HereIs DEF TypeOK
<1> QED BY <1>2, <1>4, <1>5, <1>6, <1>7, RestKeeps

LEMMA RplcNChrKeeps ==
  ASSUME IInv, RplcNChr
  PROVE  IInv'
<1>1. call.op = "rplcnchr" /\ pc \in {"entry", "loop"} /\ UNCHANGED <<size, call>>
  BY DEF RplcNChr, Running
<1>2. Here /\ call.op \notin Single /\ call.op \in Replacing /\ call.op \notin Removing
      /\ call.op \in Counting /\ call.op \in Counting \cup {"strip"}
  BY <1>1 DEF Here, Single, Replacing, Removing, Counting
<1>3. CallOK /\ i \in [dst : Nat, src : Nat, src_e : Nat] /\ n \in Nat
  BY <1>2, HereIs DEF TypeOK
<1>4. CASE /\ n # 0
           /\ \E q \in DOMAIN data :
                /\ CSpan(q, i.src_e)
                /\ data[q] # NUL
                /\ data' = Fill(data, q, call.rplc, 1)
                /\ i' = [i EXCEPT !.src_e = q + 1]
           /\ n' = n - 1
           /\ changed' = changed + 1
           /\ pc' = "loop"
           /\ UNCHANGED ret
  <2>1. PICK q \in DOMAIN data :
          /\ CSpan(q, i.src_e)
          /\ data[q] # NUL
          /\ data' = Fill(data, q, call.rplc, 1)
          /\ i' = [i EXCEPT !.src_e = q + 1]
    BY <1>4
  <2>2. /\ Stretch(Treated, i.src_e, q, q + 1)
        /\ q < Len(call.text)
        /\ call.op \in Counting => HowMany(Hits, q + 1) = HowMany(Hits, i.src_e) + 1
    BY <1>2, <1>4, <2>1, OneTreats
  <2>3. q \in Nat /\ Len(call.text) \in Nat
    BY <1>3, <2>2, Lengths DEF Stretch
  <2>4. PICK e \in Nat : e = q + 1 /\ e - q = 1 /\ e <= Len(call.text)
    BY <2>2, <2>3
  <2>5. Stretch(Treated, i.src_e, q, e) /\ HowMany(Hits, e) = HowMany(Hits, i.src_e) + (e - q)
        /\ data' = Fill(data, q, call.rplc, e - q)
    BY <1>2, <2>1, <2>2, <2>4
  <2>6. /\ data' \in Block(Len(call.text) + 2)
        /\ Exchanged(data', call.rplc, call.text, Treated, e)
        /\ Given(data', call.text, e)
    BY <1>2, <2>4, <2>5, FillSets
  <2>7. i' = [i EXCEPT !.src_e = e]
    BY <2>1, <2>4
  <2>8. i' \in [dst : Nat, src : Nat, src_e : Nat] /\ i'.src_e = e /\ i'.dst = i.dst
        /\ i'.src = i.src
    BY <1>3, <2>7
  <2>9. n' \in Nat /\ n' + (e - q) = n /\ changed' = changed + (e - q)
    BY <1>3, <1>4, <2>4
  <2>10. UNCHANGED <<call, size, ret>> /\ pc' = "loop"
    BY <1>1, <1>4
  <2> QED BY <1>2, <2>4, <2>5, <2>6, <2>8, <2>9, <2>10, LoopKeeps
<1>5. CASE /\ n = 0 \/ \E q \in DOMAIN data : NoneBefore(q, i.src_e)
           /\ Done(changed)
           /\ UNCHANGED <<data, i, n, changed>>
  <2>1. Stretch(Treated, i.src_e, Len(call.text), Len(call.text))
    BY <1>2, <1>5, NoMoreTreats
  <2>2. UNCHANGED <<data, size, call, i, n, changed>> /\ pc' = "done" /\ ret' = changed
    BY <1>1, <1>5 DEF Done
  <2> QED BY <1>2, <2>1, <2>2, EndsKeeps
<1> QED BY <1>4, <1>5 DEF RplcNChr

LEMMA NextInv ==
  ASSUME IInv, [Next]_vars
  PROVE  IInv'
<1>1. CASE Next
  BY <1>1, AtEndKeeps, RplcSpnKeeps, RplcAllSpnKeeps, RmSpnKeeps, RmAllSpnNothingKeeps,
     RmAllSpnKeeps, RmAllSpnEndKeeps, StripNothingKeeps, StripKeeps, StripEndKeeps,
     RplcNChrKeeps DEF Next
<1>2. CASE UNCHANGED vars
  <2>1. UNCHANGED <<data, size, call, pc, i, n, changed, ret>>
    BY <1>2 DEF vars
  <2>2. CallOK' /\ Treated' = Treated /\ Hits' = Hits
    BY <2>1, SameCall DEF IInv
  <2>3. TypeOK' /\ AtFirst'
    BY <2>1 DEF IInv, TypeOK, AtFirst
  <2>4. (\A p : Behind(p)' <=> Behind(p))
    BY <2>1, <2>2 DEF Behind
  <2>5. Underway'
    BY <2>1, <2>2, <2>4 DEF IInv, Underway
  <2>6. Finished'
    BY <2>1, <2>2 DEF IInv, Finished
  <2> QED BY <2>2, <2>3, <2>5, <2>6 DEF IInv
<1> QED BY <1>1, <1>2

(***************************************************************************)
(* Every call of the character sets keeps to the places it is to treat:    *)
(* the bytes before the loop are what is left of the text before it, those *)
(* after it are as given, and the counts are those of the places passed.   *)
(***************************************************************************)
THEOREM Inductive == Spec => []IInv
<1>1. Init => IInv
  BY InitInv
<1>2. IInv /\ [Next]_vars => IInv'
  BY NextInv
<1> QED BY <1>1, <1>2, PTL DEF Spec

(* What is left of the text is characters, and no longer than it. *)
LEMMA EndsWithCharacters ==
  ASSUME IInv, pc = "done"
  PROVE  /\ size \in 0..Len(call.text) /\ data[size] = NUL
         /\ \A m \in 0..(size - 1) : data[m] \in Char
         /\ call.op \in Removing => Cardinality(Treated) = Len(call.text) - size
<1> DEFINE lim == Len(call.text)
<1>1. CallOK /\ TypeOK /\ data[size] = NUL /\ call.op \in Ops
  BY DEF IInv, Finished, CallOK
<1>2. lim \in Nat /\ (\A k \in 1..lim : call.text[k] \in Char) /\ Treated \in SUBSET (1..lim)
  BY <1>1, Lengths
<1>3. HowMany(Treated, lim) = Cardinality(Treated) /\ HowMany(Treated, lim) \in Nat
  BY <1>2, CountWhole, UptoFinite
<1>4. CASE call.op \in Removing
  <2>1. Removed(data, size, call.text, Treated, lim)
    BY <1>4 DEF IInv, Finished
  <2>2. size = lim - HowMany(Treated, lim) /\ size \in Nat
    BY <2>1 DEF Removed
  <2>3. size \in 0..lim /\ Cardinality(Treated) = lim - size
    BY <1>2, <1>3, <2>2
  <2>4. ASSUME NEW m \in 0..(size - 1) PROVE data[m] \in Char
    <3>1. Stands(data, m, call.text, Treated, lim)
      BY <2>1 DEF Removed
    <3>2. PICK k \in 1..lim : data[m] = call.text[k]
      BY <3>1 DEF Stands
    <3> QED BY <1>2, <3>2
  <2> QED BY <1>1, <2>3, <2>4
<1>5. CASE call.op \in Replacing
  <2>1. size = lim /\ Exchanged(data, call.rplc, call.text, Treated, size)
    BY <1>5 DEF IInv, Finished
  <2>2. ASSUME NEW m \in 0..(size - 1) PROVE data[m] \in Char
    <3>1. m + 1 \in 1..lim /\ (m + 1) - 1 = m
      BY <1>2, <2>1
    <3>2. data[m] = IF m + 1 \in Treated THEN call.rplc ELSE call.text[m + 1]
      BY <2>1, <3>1 DEF Exchanged
    <3>3. call.rplc \in Char
      BY <1>1 DEF CallOK
    <3> QED BY <1>2, <3>1, <3>2, <3>3
  <2>3. call.op \notin Removing
    BY <1>5 DEF Removing, Replacing
  <2> QED BY <1>1, <1>2, <2>1, <2>2, <2>3
<1>6. call.op \in Removing \/ call.op \in Replacing
  BY <1>1 DEF Ops, Removing, Replacing
<1> QED BY <1>4, <1>5, <1>6

(* The size a call leaves is the length of the string, whatever was replaced *)
(* or removed, and a removal returns what the string has lost.               *)
THEOREM SizesAreLengths == Spec => []SizeIsLength
<1>1. ASSUME IInv PROVE SizeIsLength
  <2> SUFFICES ASSUME pc = "done"
               PROVE  /\ \E q \in DOMAIN data : FirstOf(q, 0, {}) /\ size = q
                      /\ call.op \in {"rmspn", "rmallspn", "strip", "rmnchr"} =>
                           ret = Len(call.text) - size
    BY DEF SizeIsLength
  <2>1. /\ size \in 0..Len(call.text) /\ data[size] = NUL
        /\ \A m \in 0..(size - 1) : data[m] \in Char
        /\ call.op \in Removing => Cardinality(Treated) = Len(call.text) - size
    BY <1>1, EndsWithCharacters
  <2>2. PICK b \in Nat : b = Len(call.text) + 2 /\ size \in Nat /\ size \in 0..(b - 1)
    <3>1. Len(call.text) \in Nat
      BY <1>1, Lengths DEF IInv
    <3> QED BY <2>1, <3>1
  <2>3. DOMAIN data = 0..(b - 1)
    BY <1>1, <2>2 DEF IInv, TypeOK, Block
  <2>4. ASSUME NEW k \in DOMAIN data, data[k] = NUL PROVE size <= k
    <3>1. k \in Nat /\ data[k] \notin Char
      BY <2>3, <2>4, BytesDistinct
    <3>2. k \notin 0..(size - 1)
      BY <2>1, <3>1
    <3> QED BY <2>2, <3>1, <3>2
  <2>5. size >= 0
    BY <2>2
  <2>6. FirstOf(size, 0, {})
    BY <2>1, <2>2, <2>3, <2>4, <2>5 DEF FirstOf, Leftmost
  <2>7. ret = Cardinality(Treated)
    BY <1>1 DEF IInv, Finished
  <2> QED BY <2>1, <2>2, <2>3, <2>6, <2>7 DEF Removing
<1> QED BY <1>1, Inductive, PTL

(* Every call replaces or removes exactly the characters it is to treat, in  *)
(* order, and none of its loops overwrites what it has still to read.        *)
THEOREM TreatsExactlyThose == Spec => []TreatsExactly
<1>1. ASSUME IInv PROVE TreatsExactly
  <2>1. CallOK /\ TypeOK /\ call.op \in Ops
    BY <1>1 DEF IInv, CallOK
  <2>2. Len(call.text) \in Nat /\ Treated \in SUBSET (1..Len(call.text))
    BY <2>1, Lengths
  <2>3. UnreadIntact
    <3> SUFFICES ASSUME pc = "loop"
                 PROVE  /\ i.dst <= i.src /\ i.src <= i.src_e /\ i.src_e <= Len(call.text)
                        /\ data[Len(call.text)] = NUL
                        /\ \A k \in (i.src_e + 1)..Len(call.text) : data[k - 1] = call.text[k]
      BY DEF UnreadIntact
    <3>1. Given(data, call.text, i.src_e) /\ call.start <= i.src_e
      BY <1>1 DEF IInv, Underway
    <3>2. i.src_e \in Nat /\ i.src_e <= Len(call.text) /\ i.dst \in Nat /\ i.src \in Nat
      BY <2>1, <2>2, <3>1 DEF Given, TypeOK
    <3>3. CASE call.op \in Removing
      <4>1. i.src = i.src_e /\ Removed(data, i.dst, call.text, Treated, i.src)
        BY <1>1, <3>3 DEF IInv, Underway
      <4>2. HowMany(Treated, i.src) \in Nat /\ i.dst = i.src - HowMany(Treated, i.src)
        BY <2>2, <4>1, UptoFinite DEF Removed
      <4>3. i.dst <= i.src
        BY <3>2, <4>2
      <4> QED BY <3>1, <3>2, <4>1, <4>3 DEF Given
    <3>4. CASE call.op \in Replacing
      <4>1. i.dst = call.start /\ i.src = call.start /\ call.start \in Nat
        BY <1>1, <2>1, <3>4 DEF IInv, Underway, CallOK
      <4> QED BY <3>1, <3>2, <4>1 DEF Given
    <3>5. call.op \in Removing \/ call.op \in Replacing
      BY <2>1 DEF Ops, Removing, Replacing
    <3> QED BY <3>3, <3>4, <3>5
  <2>4. ASSUME pc = "done"
        PROVE  /\ Prefix(data, size) =
                    IF call.op \in {"rplcspn", "rplcallspn", "rplcnchr"} THEN Replaced ELSE Kept
               /\ ret = Cardinality(Treated)
    <3>1. CASE call.op \in Removing
      <4>1. Removed(data, size, call.text, Treated, Len(call.text))
        BY <1>1, <2>4, <3>1 DEF IInv, Finished
      <4>2. Prefix(data, size) = Kept
        BY <2>1, <4>1, KeptIs
      <4>3. call.op \notin {"rplcspn", "rplcallspn", "rplcnchr"}
        BY <3>1 DEF Removing
      <4> QED BY <1>1, <2>4, <4>2, <4>3 DEF IInv, Finished
    <3>2. CASE call.op \in Replacing
      <4>1. size = Len(call.text) /\ Exchanged(data, call.rplc, call.text, Treated, size)
        BY <1>1, <2>4, <3>2 DEF IInv, Finished
      <4>2. Prefix(data, size) = Replaced
        BY <4>1 DEF Prefix, Replaced, Exchanged
      <4>3. call.op \in {"rplcspn", "rplcallspn", "rplcnchr"}
        BY <3>2 DEF Replacing
      <4> QED BY <1>1, <2>4, <4>2, <4>3 DEF IInv, Finished
    <3>3. call.op \in Removing \/ call.op \in Replacing
      BY <2>1 DEF Ops, Removing, Replacing
    <3> QED BY <3>1, <3>2, <3>3
  <2> QED BY <2>1, <2>3, <2>4 DEF TreatsExactly
<1> QED BY <1>1, Inductive, PTL

=============================================================================
