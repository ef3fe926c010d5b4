--------------------------- MODULE JstrFtw_proofs ---------------------------
(***************************************************************************)
(* Whatever the tree, the flags and the callbacks, and whichever system    *)
(* call fails: a walk closes what it has opened, does nothing more once it *)
(* was told to stop, returns the errors Reports says it returns, calls     *)
(* FUNC with the path, the length and the status of the entry at hand, and *)
(* visits all it is asked to visit and nothing else.                       *)
(***************************************************************************)
EXTENDS JstrFtw, WellFoundedInduction, TLAPS

(* The steps in which the running level is in its directory. *)
Running == {"read", "entry", "func", "dirfunc", "enter"}

IsSequence(s) == \E S : s \in Seq(S)

(* The descriptors that are open are those of the levels, and that of the   *)
(* directory that is about to become one.                                   *)
Descriptors ==
  /\ IsSequence(stack)
  /\ pc \in {"start", "file", "root", "opendir", "return", "done"} \cup Running
  /\ pc = "start" => open = {} /\ Level = 0
  /\ pc \in {"root", "file"} => open = {1} /\ Level = 0
  /\ pc = "opendir" => open = 1..(Level + 1)
  /\ pc \in Running => Level # 0
  /\ pc \in Running \cup {"return"} => open = 1..Level
  /\ pc = "done" => open = {}

(* A walk that was halted has told so to the level above: by the request    *)
(* to stop or by what it returned, whichever that level looks at.           *)
Told ==
  halted =>
    \/ pc = "done"
    \/ pc = "return" /\ (Level = 0 \/ IF Flag("ACTIONRETVAL") THEN stop ELSE tmp = ERR)

(* Errors at the first directory are on their way out, and so is every      *)
(* error of a walk without ACTIONRETVAL.                                    *)
AtTop == failed \cap {0, 1} # {}

Handed ==
  /\ pc \notin {"return", "done"} => ~AtTop /\ (failed = {} \/ Flag("ACTIONRETVAL"))
  /\ pc = "return" =>
       /\ AtTop => Level = 0 /\ tmp = ERR
       /\ Flag("ACTIONRETVAL") /\ Level = 0 /\ tmp = ERR => AtTop
       /\ ~Flag("ACTIONRETVAL") => (tmp = ERR <=> failed # {})
  /\ Reports

IInv == Descriptors /\ Told /\ Handed

-----------------------------------------------------------------------------
(* The stack of levels as a sequence, and the descriptors as an interval.  *)

LEMMA Popped ==
  ASSUME NEW s, IsSequence(s), Len(s) # 0
  PROVE  /\ IsSequence(SubSeq(s, 1, Len(s) - 1))
         /\ Len(SubSeq(s, 1, Len(s) - 1)) = Len(s) - 1
<1>1. PICK S : s \in Seq(S)
  BY DEF IsSequence
<1>2. PICK m \in Nat : m + 1 = Len(s)
  BY <1>1
<1>3. SubSeq(s, 1, m) \in Seq(S) /\ Len(SubSeq(s, 1, m)) = m
  BY <1>1, <1>2
<1>4. m = Len(s) - 1
  BY <1>2
<1> QED BY <1>3, <1>4 DEF IsSequence

LEMMA Pushed ==
  ASSUME NEW s, NEW x, IsSequence(s)
  PROVE  IsSequence(Append(s, x)) /\ Len(Append(s, x)) = Len(s) + 1
<1>1. PICK S : s \in Seq(S)
  BY DEF IsSequence
<1>2. s \in Seq(S \cup {x}) /\ x \in S \cup {x}
  BY <1>1
<1>3. Append(s, x) \in Seq(S \cup {x}) /\ Len(Append(s, x)) = Len(s) + 1
  BY <1>2
<1> QED BY <1>3 DEF IsSequence

LEMMA Changed ==
  ASSUME NEW s, NEW n, NEW x, IsSequence(s)
  PROVE  IsSequence([s EXCEPT ![n] = x]) /\ Len([s EXCEPT ![n] = x]) = Len(s)
<1>1. PICK S : s \in Seq(S)
  BY DEF IsSequence
<1>2. s \in [1..Len(s) -> S] /\ Len(s) \in Nat
  BY <1>1
<1>3. [s EXCEPT ![n] = x] \in [1..Len(s) -> S \cup {x}]
  BY <1>2
<1>4. [s EXCEPT ![n] = x] \in Seq(S \cup {x}) /\ Len([s EXCEPT ![n] = x]) = Len(s)
  BY <1>2, <1>3
<1> QED BY <1>4 DEF IsSequence

LEMMA Length == ASSUME NEW s, IsSequence(s) PROVE Len(s) \in Nat
BY DEF IsSequence

LEMMA Intervals ==
  ASSUME NEW n \in Nat
  PROVE  /\ (1..n) \cup {n + 1} = 1..(n + 1)
         /\ (1..(n + 1)) \ {n + 1} = 1..n
         /\ n # 0 => (1..n) \ {n} = 1..(n - 1)
         /\ 1..0 = {}
         /\ 1..(0 + 1) = {1}
OBVIOUS

(* What Leave does to the levels and to the descriptors. *)
LEMMA LeaveCloses ==
  ASSUME Descriptors, pc \in Running \cup {"return"}, Level # 0, NEW r, Leave(r)
  PROVE  Descriptors' /\ Level' = Level - 1 /\ open' \subseteq open
<1>1. Level \in Nat /\ open = 1..Level
  BY Length DEF Descriptors, Level
<1>2. IsSequence(stack') /\ Level' = Level - 1
  BY Popped DEF Descriptors, Leave, Level
<1>3. open' = 1..(Level - 1)
  BY <1>1, Intervals DEF Leave
<1> QED BY <1>1, <1>2, <1>3 DEF Descriptors, Leave, Running

-----------------------------------------------------------------------------
(* Before the walk.                                                        *)

LEMMA InitInv == ASSUME Init PROVE IInv
<1>1. IsSequence(stack)
  BY DEF Init, IsSequence
<1> QED BY <1>1 DEF Init, IInv, Descriptors, Told, Handed, Reports, AtTop, Level, Running

LEMMA RefuseKeeps == ASSUME IInv, Refuse PROVE IInv'
BY DEF IInv, Descriptors, Told, Handed, Reports, AtTop, Level, Running, Flag,
       Refuse, Return, Fatal

LEMMA OpenRootKeeps == ASSUME IInv, OpenRoot PROVE IInv'
<1>1. Descriptors' /\ Told'
  BY DEF IInv, Descriptors, Told, Level, Running, OpenRoot, Return, Fatal
<1>2. Handed'
  BY DEF IInv, Handed, Reports, AtTop, Flag, OpenRoot, Return, Fatal
<1> QED BY <1>1, <1>2 DEF IInv

LEMMA FileKeeps == ASSUME IInv, File PROVE IInv'
<1>1. Descriptors' /\ Told'
  BY DEF IInv, Descriptors, Told, Level, Running, File, Return, Fatal
<1>2. Handed'
  BY DEF IInv, Handed, Reports, AtTop, Flag, File, Return, Fatal, SUCC, ERR
<1> QED BY <1>1, <1>2 DEF IInv

LEMMA RootKeeps == ASSUME IInv, Root PROVE IInv'
<1>1. Descriptors' /\ Told'
  BY Intervals DEF IInv, Descriptors, Told, Level, Running, Root, Return
<1>2. Handed'
  BY DEF IInv, Handed, Reports, AtTop, Flag, Root, Return, STOP, ERR
<1> QED BY <1>1, <1>2 DEF IInv

-----------------------------------------------------------------------------
(* In a directory.                                                         *)

(* An error at level l is returned to the level above it. *)
LEMMA FatalHanded ==
  ASSUME NEW l \in Nat, l # 0, Level' = l - 1, Fatal(l),
         pc' = "return", tmp' = ERR, call' = call,
         ~halted, ~AtTop, failed = {} \/ Flag("ACTIONRETVAL")
  PROVE  Told' /\ Handed'
<1>1. l \in {0, 1} <=> Level' = 0
  OBVIOUS
<1>2. l <= 1 <=> Level' = 0
  OBVIOUS
<1>3. AtTop' <=> Level' = 0
  BY <1>1 DEF AtTop, Fatal
<1>4. Flag("ACTIONRETVAL")' = Flag("ACTIONRETVAL") /\ failed' # {}
  BY DEF Flag, Fatal
<1>5. Told'
  BY <1>2, <1>4 DEF Told, Fatal
<1>6. Handed'
  BY <1>3, <1>4 DEF Handed, Reports
<1> QED BY <1>5, <1>6

LEMMA OpenDirKeeps == ASSUME IInv, OpenDir PROVE IInv'
<1>1. CASE pc' = "read"
  <2>1. IsSequence(stack') /\ Level' = Level + 1
    BY <1>1, Pushed DEF IInv, Descriptors, OpenDir, Level
  <2>2. Level \in Nat /\ open' = open
    BY <1>1, Length DEF IInv, Descriptors, OpenDir, Level
  <2>3. Descriptors'
    BY <1>1, <2>1, <2>2 DEF IInv, Descriptors, OpenDir, Running
  <2>4. Told' /\ Handed'
    BY <1>1 DEF IInv, Told, Handed, Reports, AtTop, Flag, OpenDir
  <2> QED BY <2>3, <2>4 DEF IInv
<1>2. CASE pc' = "return"
  <2>1. Level \in Nat /\ Level' = Level /\ open' = 1..Level
    BY <1>2, Length, Intervals DEF IInv, Descriptors, OpenDir, Level
  <2>2. Descriptors'
    BY <1>2, <2>1 DEF IInv, Descriptors, OpenDir, Running
  <2>3. tmp' = ERR /\ Fatal(Level + 1) /\ call' = call /\ ~halted
    BY <1>2 DEF IInv, Told, OpenDir
  <2>4. ~AtTop /\ (failed = {} \/ Flag("ACTIONRETVAL"))
    BY DEF IInv, Handed, OpenDir
  <2>5. Told' /\ Handed'
    BY <1>2, <2>1, <2>3, <2>4, FatalHanded
  <2> QED BY <2>2, <2>5 DEF IInv
<1> QED BY <1>1, <1>2 DEF OpenDir

LEMMA ReadEndKeeps == ASSUME IInv, ReadEnd PROVE IInv'
<1>1. Descriptors' /\ Level' = Level - 1
  BY LeaveCloses DEF IInv, ReadEnd, Descriptors, Running
<1>2. Told' /\ Handed'
  BY DEF IInv, Told, Handed, Reports, AtTop, Flag, ReadEnd, Leave, SUCC, ERR
<1> QED BY <1>1, <1>2 DEF IInv

LEMMA ReadEntryKeeps == ASSUME IInv, ReadEntry PROVE IInv'
<1>1. PICK e : stack' = [stack EXCEPT ![Level] = [stack[Level] EXCEPT !.left = @ \ {e}]]
  BY DEF ReadEntry
<1>2. IsSequence(stack') /\ Level' = Level
  BY <1>1, Changed DEF IInv, Descriptors, Level
<1>3. Descriptors'
  BY <1>2 DEF IInv, Descriptors, ReadEntry, Running
<1>4. Told' /\ Handed'
  BY DEF IInv, Told, Handed, Reports, AtTop, Flag, ReadEntry
<1> QED BY <1>3, <1>4 DEF IInv

LEMMA ReadFailsKeeps == ASSUME IInv, ReadFails PROVE IInv'
<1>1. Descriptors' /\ Level' = Level - 1
  BY LeaveCloses DEF IInv, ReadFails, Descriptors, Running
<1>2. Level \in Nat \ {0}
  BY Length DEF IInv, ReadFails, Descriptors, Level, Running
<1>3. pc' = "return" /\ tmp' = ERR /\ Fatal(Level) /\ call' = call /\ ~halted
  BY DEF IInv, Told, ReadFails, Leave
<1>4. ~AtTop /\ (failed = {} \/ Flag("ACTIONRETVAL"))
  BY DEF IInv, Handed, ReadFails
<1>5. Told' /\ Handed'
  BY <1>1, <1>2, <1>3, <1>4, FatalHanded
<1> QED BY <1>1, <1>5 DEF IInv

LEMMA ClassifyKeeps == ASSUME IInv, Classify PROVE IInv'
<1>1. pc' \in Running /\ UNCHANGED <<call, stack, open, halted, failed>>
  BY DEF Classify, Running
<1> QED BY <1>1 DEF IInv, Descriptors, Told, Handed, Reports, AtTop, Level, Running, Flag, Classify

(* A level that ends because of what FUNC returned. *)
LEMMA EndLevelKeeps ==
  ASSUME IInv, pc \in {"func", "dirfunc"}, NEW r, EndLevel(r), UNCHANGED <<call, ret>>
  PROVE  IInv'
<1>1. Leave(SUCC) \/ Leave(ERR)
  BY DEF EndLevel
<1>2. Descriptors' /\ Level' = Level - 1
  BY <1>1, LeaveCloses DEF IInv, Descriptors, Running
<1>3. Level \in Nat \ {0}
  BY Length DEF IInv, Descriptors, Level, Running
<1>4. CASE SkipsSiblings(r) /\ Leave(SUCC) /\ UNCHANGED <<stop, halted, failed>>
  BY <1>2, <1>3, <1>4
  DEF IInv, Told, Handed, Reports, AtTop, Flag, Leave, SkipsSiblings, SUCC, ERR
<1>5. CASE Stops(r) /\ StopRecorded /\ Leave(SUCC) /\ halted' /\ UNCHANGED failed
  BY <1>2, <1>3, <1>5
  DEF IInv, Told, Handed, Reports, AtTop, Flag, Leave, Stops, StopRecorded, SUCC, ERR
<1>6. CASE ~Flag("ACTIONRETVAL") /\ Leave(ERR) /\ Fatal(Level)
  BY <1>2, <1>3, <1>6 DEF IInv, Told, Handed, Reports, AtTop, Flag, Leave, Fatal
<1> QED BY <1>4, <1>5, <1>6 DEF EndLevel

LEMMA FuncKeeps == ASSUME IInv, Func PROVE IInv'
<1>1. PICK r : \/ pc' = "read" /\ UNCHANGED <<stack, open, halted, failed>>
               \/ EndLevel(r)
  BY DEF Func
<1>2. pc = "func" /\ UNCHANGED <<call, ret>>
  BY DEF Func
<1>3. CASE pc' = "read" /\ UNCHANGED <<stack, open, halted, failed>>
  BY <1>2, <1>3 DEF IInv, Descriptors, Told, Handed, Reports, AtTop, Level, Running, Flag
<1>4. CASE EndLevel(r)
  BY <1>2, <1>4, EndLevelKeeps
<1> QED BY <1>1, <1>3, <1>4

LEMMA DirFuncKeeps == ASSUME IInv, DirFunc PROVE IInv'
<1>1. PICK r : \/ pc' \in {"read", "enter"} /\ UNCHANGED <<stack, open, halted, failed>>
               \/ EndLevel(r)
  BY DEF DirFunc
<1>2. pc = "dirfunc" /\ UNCHANGED <<call, ret>>
  BY DEF DirFunc
<1>3. CASE pc' \in {"read", "enter"} /\ UNCHANGED <<stack, open, halted, failed>>
  BY <1>2, <1>3 DEF IInv, Descriptors, Told, Handed, Reports, AtTop, Level, Running, Flag
<1>4. CASE EndLevel(r)
  BY <1>2, <1>4, EndLevelKeeps
<1> QED BY <1>1, <1>3, <1>4

LEMMA EnterKeeps == ASSUME IInv, Enter PROVE IInv'
<1>1. Level \in Nat
  BY Length DEF IInv, Descriptors, Level
<1>2. Descriptors'
  BY <1>1, Intervals DEF IInv, Descriptors, Level, Running, Enter
<1>3. Told' /\ Handed'
  BY DEF IInv, Told, Handed, Reports, AtTop, Flag, Enter
<1> QED BY <1>2, <1>3 DEF IInv

-----------------------------------------------------------------------------
(* Back in the directory above.                                            *)

LEMMA ResumeKeeps == ASSUME IInv, Resume PROVE IInv'
<1>1. Level \in Nat \ {0} /\ pc = "return"
  BY Length DEF IInv, Descriptors, Level, Resume
<1>2. UNCHANGED <<call, stop, ret, halted, failed>>
  BY DEF Resume, history
<1>3. CASE Flag("ACTIONRETVAL") /\ stop /\ Leave(SUCC)
  <2>1. Descriptors' /\ Level' = Level - 1
    BY <1>1, <1>3, LeaveCloses DEF IInv
  <2> QED BY <1>1, <1>2, <1>3, <2>1
          DEF IInv, Told, Handed, Reports, AtTop, Flag, Leave, SUCC, ERR
<1>4. CASE ~Flag("ACTIONRETVAL") /\ tmp = ERR /\ Leave(ERR)
  <2>1. Descriptors' /\ Level' = Level - 1
    BY <1>1, <1>4, LeaveCloses DEF IInv
  <2> QED BY <1>1, <1>2, <1>4, <2>1 DEF IInv, Told, Handed, Reports, AtTop, Flag, Leave
<1>5. CASE /\ IF Flag("ACTIONRETVAL") THEN ~stop ELSE tmp # ERR
           /\ pc' = "read" /\ UNCHANGED <<stack, tmp, open>>
  BY <1>1, <1>2, <1>5
  DEF IInv, Descriptors, Told, Handed, Reports, AtTop, Level, Running, Flag
<1> QED BY <1>3, <1>4, <1>5 DEF Resume

LEMMA FinishKeeps == ASSUME IInv, Finish PROVE IInv'
<1>1. open = {}
  BY Intervals DEF IInv, Descriptors, Finish
<1> QED BY <1>1 DEF IInv, Descriptors, Told, Handed, Reports, AtTop, Level, Running, Flag,
                    Finish, Return, history

LEMMA NextKeeps == ASSUME IInv, [Next]_vars PROVE IInv'
<1>1. CASE UNCHANGED vars
  BY <1>1 DEF vars, history, IInv, Descriptors, Told, Handed, Reports, AtTop, Level, Running, Flag
<1> QED
  BY <1>1, RefuseKeeps, OpenRootKeeps, FileKeeps, RootKeeps, OpenDirKeeps, ReadEndKeeps,
     ReadEntryKeeps, ReadFailsKeeps, ClassifyKeeps, FuncKeeps, DirFuncKeeps, EnterKeeps,
     ResumeKeeps, FinishKeeps DEF Next

-----------------------------------------------------------------------------

(* The levels and their descriptors, the request to stop and the errors     *)
(* agree in every walk through any tree, however deep.                      *)
THEOREM Inductive == Spec => []IInv
<1>1. Init => IInv
  BY InitInv
<1>2. IInv /\ [Next]_vars => IInv'
  BY NextKeeps
<1> QED BY <1>1, <1>2, PTL DEF Spec

(* Closes: whichever call fails or ends the walk, each directory that was   *)
(* opened is closed.                                                        *)
THEOREM AllClosed == Spec => []Closes
<1>1. IInv => Closes
  BY DEF IInv, Descriptors, Closes, Running
<1> QED BY <1>1, Inductive, PTL

(* StopsAtOnce: after a stop the levels only close what they have open.     *)
THEOREM NothingAfterStop == Spec => StopsAtOnce
<1> DEFINE Quiet == visits' = visits /\ open' \subseteq open /\ pc' \in {"return", "done"}
<1>1. ASSUME IInv, [Next]_vars, halted PROVE Quiet \/ UNCHANGED vars
  <2>1. CASE pc = "done"
    BY <1>1, <2>1
    DEF vars, Next, Refuse, OpenRoot, File, Root, OpenDir, ReadEnd, ReadEntry, ReadFails,
        Classify, Func, DirFunc, Enter, Resume, Finish
  <2>2. CASE pc = "return"
    <3>1. Resume \/ Finish \/ UNCHANGED vars
      BY <1>1, <2>2
      DEF Next, Refuse, OpenRoot, File, Root, OpenDir, ReadEnd, ReadEntry, ReadFails,
          Classify, Func, DirFunc, Enter
    <3>2. CASE Resume
      BY <1>1, <2>2, <3>2 DEF IInv, Told, Resume, Leave, history
    <3>3. CASE Finish
      BY <3>3 DEF Finish, Return, history
    <3> QED BY <3>1, <3>2, <3>3
  <2> QED BY <1>1, <2>1, <2>2 DEF IInv, Told
<1>2. IInv /\ [Next]_vars => [halted => Quiet]_vars
  BY <1>1
<1> QED BY <1>2, Inductive, PTL DEF Spec, StopsAtOnce

(* Reports: the call returns JSTR_RET_ERR for no other reason than an       *)
(* error, and for every error but those the level above does not look at.   *)
THEOREM ErrorsReported == Spec => []Reports
<1>1. IInv => Reports
  BY DEF IInv, Handed
<1> QED BY <1>1, Inductive, PTL

(***************************************************************************)
(* The paths.                                                              *)
(***************************************************************************)

Frame == [name : Tokens, left : SUBSET Names, at : Nat]

Typed ==
  /\ call.dirpath \in DirPaths
  /\ stack \in Seq(Frame)
  /\ path \in Seq(Tokens)
  /\ st \in Seq(Tokens)
  /\ ep \in Tokens

(* The path of the directory the level k is in, as the buffer holds it. *)
Dir(k) == SubSeq(path, 1, stack[k].at)

(* All levels write to one buffer, and each leaves the paths of the levels  *)
(* above it alone.                                                          *)
Chain ==
  \A k \in 1..Level :
    /\ stack[k].at = Len(Stripped) + 2 * (k - 1)
    /\ stack[k].at <= Len(path)
    /\ Dir(k) = IF k = 1 THEN Stripped ELSE Dir(k - 1) \o <<Slash, stack[k].name>>

(* What ftw.st describes is no entry that is still to be read. *)
Unseen == \A k \in 1..Level : \A e \in stack[k].left : st # Dir(k) \o <<Slash, e>>

AtHand == path = PathOf(ep) /\ plen = Len(path) /\ st = path

LeftOver == st # PathOf(ep) /\ ~Flag("REG") /\ ~Flag("DIR")

(* The path before the first level is there. *)
AtDirpath == path = Stripped /\ ep = path[Len(path)] /\ Len(st) <= Len(path)

Here ==
  /\ pc \notin {"start", "done"} => call.dirpath # <<>>
  /\ pc \in {"file", "root"} => AtDirpath
  /\ pc = "file" => Kind[ep] # "dir"
  /\ pc = "opendir" => IF Level = 0 THEN AtDirpath ELSE AtHand
  /\ pc = "entry" => st = PathOf(ep) /\ Bytes(Dir(Level)) + Size[ep] < PathMax
  /\ pc \in {"dirfunc", "enter"} => AtHand
  /\ pc = "func" => AtHand \/ LeftOver
  /\ Bytes(path) <= PathMax

Paths == Typed /\ Chain /\ Unseen /\ Here

-----------------------------------------------------------------------------
(* Induction, as a fact about sets of numbers: they are well ordered.       *)

LEMMA Least ==
  ASSUME NEW S \in SUBSET Nat, S # {}
  PROVE  \E m \in S : \A k \in S : m <= k
<1>1. \E R : IsWellFoundedOn(R, Nat) /\ \A k, m \in Nat : <<k, m>> \in R <=> k < m
  <2>1. IsWellFoundedOn(OpToRel(<, Nat), Nat)
    BY NatLessThanWellFounded, Zenon
  <2>2. \A k, m \in Nat : <<k, m>> \in OpToRel(<, Nat) <=> k < m
    BY DEF OpToRel
  <2> QED BY <2>1, <2>2, Zenon
<1>2. PICK R : IsWellFoundedOn(R, Nat) /\ \A k, m \in Nat : <<k, m>> \in R <=> k < m
  BY <1>1
<1>3. IsWellFoundedOn(R, Nat) /\ S \subseteq Nat
  BY <1>2
<1>4. \E m \in S : \A k \in S : ~(<<k, m>> \in R)
  BY <1>3, WFMin, Zenon
<1>5. \A k, m \in S : <<k, m>> \in R <=> k < m
  BY <1>2, <1>3, Zenon
<1>6. \A k, m \in S : ~(k < m) => m <= k
  BY <1>3, SMT
<1> QED BY <1>4, <1>5, <1>6, Zenon

LEMMA Induction ==
  ASSUME NEW S, 0 \in S, \A n \in Nat : n \in S => n + 1 \in S
  PROVE  \A n \in Nat : n \in S
<1> SUFFICES ASSUME NEW n \in Nat, n \notin S PROVE FALSE
  OBVIOUS
<1>1. PICK m \in Nat \ S : \A k \in Nat \ S : m <= k
  BY Least
<1>2. m # 0 /\ m - 1 \in Nat /\ ~(m <= m - 1) /\ (m - 1) + 1 = m
  BY <1>1
<1>3. m - 1 \in S
  BY <1>1, <1>2
<1> QED BY <1>1, <1>2, <1>3

-----------------------------------------------------------------------------
(* The length of a path in bytes.                                           *)

Sums(f, p, n) == f = [k \in 0..n |-> IF k = 0 THEN 0 ELSE f[k - 1] + Size[p[k]]]

LEMMA SizeNat == \A t \in Tokens : Size[t] \in Nat
BY SizesAssumption

LEMMA SumsExist ==
  ASSUME NEW p \in Seq(Tokens)
  PROVE  \E f \in [0..Len(p) -> Nat] : Sums(f, p, Len(p))
<1> DEFINE S == {n \in Nat : n <= Len(p) => \E f \in [0..n -> Nat] : Sums(f, p, n)}
<1>1. 0 \in S
  <2> DEFINE f == [k \in 0..0 |-> 0]
  <2>1. f \in [0..0 -> Nat]
    OBVIOUS
  <2>2. Sums(f, p, 0)
    BY DEF Sums
  <2> QED BY <2>1, <2>2
<1>2. ASSUME NEW n \in Nat, n \in S PROVE n + 1 \in S
  <2> SUFFICES ASSUME n + 1 <= Len(p)
               PROVE  \E f \in [0..(n + 1) -> Nat] : Sums(f, p, n + 1)
    OBVIOUS
  <2>1. PICK f \in [0..n -> Nat] : Sums(f, p, n)
    BY <1>2
  <2>2. p[n + 1] \in Tokens
    OBVIOUS
  <2>3. f[n] + Size[p[n + 1]] \in Nat
    BY <2>2, SizeNat
  <2> DEFINE g == [k \in 0..(n + 1) |-> IF k = n + 1 THEN f[n] + Size[p[n + 1]] ELSE f[k]]
  <2>4. g \in [0..(n + 1) -> Nat]
    BY <2>3
  <2>5. \A k \in 0..n : f[k] = IF k = 0 THEN 0 ELSE f[k - 1] + Size[p[k]]
    BY <2>1 DEF Sums
  <2>6. ASSUME NEW k \in 0..(n + 1)
        PROVE  g[k] = IF k = 0 THEN 0 ELSE g[k - 1] + Size[p[k]]
    <3>1. CASE k = n + 1
      BY <3>1
    <3>2. CASE k # n + 1
      <4>1. k \in 0..n /\ g[k] = f[k] /\ (k # 0 => g[k - 1] = f[k - 1])
        BY <3>2
      <4> QED BY <4>1, <2>5
    <3> QED BY <3>1, <3>2
  <2>7. Sums(g, p, n + 1)
    BY <2>4, <2>6 DEF Sums
  <2> QED BY <2>4, <2>7
<1> HIDE DEF S
<1>3. \A n \in Nat : n \in S
  BY <1>1, <1>2, Induction
<1>4. Len(p) \in S
  BY <1>3
<1> QED BY <1>4 DEF S

(* Sequences that begin alike have the same sums. *)
LEMMA SumsAgree ==
  ASSUME NEW p \in Seq(Tokens), NEW q \in Seq(Tokens), NEW f, NEW g,
         Sums(f, p, Len(p)), Sums(g, q, Len(q)),
         NEW m \in Nat, m <= Len(p), m <= Len(q), \A k \in 1..m : p[k] = q[k]
  PROVE  f[m] = g[m]
<1> DEFINE S == {n \in Nat : n <= m => f[n] = g[n]}
<1>1. /\ \A k \in 0..Len(p) : f[k] = IF k = 0 THEN 0 ELSE f[k - 1] + Size[p[k]]
      /\ \A k \in 0..Len(q) : g[k] = IF k = 0 THEN 0 ELSE g[k - 1] + Size[q[k]]
  BY DEF Sums
<1>2. 0 \in S
  <2>1. 0 \in 0..Len(p) /\ 0 \in 0..Len(q)
    OBVIOUS
  <2>2. f[0] = 0 /\ g[0] = 0
    BY <1>1, <2>1
  <2> QED BY <2>2
<1>3. ASSUME NEW n \in Nat, n \in S PROVE n + 1 \in S
  <2> SUFFICES ASSUME n + 1 <= m PROVE f[n + 1] = g[n + 1]
    OBVIOUS
  <2>1. f[n] = g[n] /\ p[n + 1] = q[n + 1]
    BY <1>3
  <2>2. f[n + 1] = f[n] + Size[p[n + 1]] /\ g[n + 1] = g[n] + Size[q[n + 1]]
    BY <1>1
  <2> QED BY <2>1, <2>2
<1> HIDE DEF S
<1>4. \A n \in Nat : n \in S
  BY <1>2, <1>3, Induction
<1>5. m \in S
  BY <1>4
<1> QED BY <1>5 DEF S

LEMMA BytesSums ==
  ASSUME NEW p \in Seq(Tokens)
  PROVE  \E f \in [0..Len(p) -> Nat] : Sums(f, p, Len(p)) /\ Bytes(p) = f[Len(p)]
<1> DEFINE g == CHOOSE g : g = [k \in 0..Len(p) |-> IF k = 0 THEN 0 ELSE g[k - 1] + Size[p[k]]]
<1>1. PICK f \in [0..Len(p) -> Nat] : Sums(f, p, Len(p))
  BY SumsExist
<1>2. Sums(g, p, Len(p))
  BY <1>1, Zenon DEF Sums
<1>3. Bytes(p) = g[Len(p)]
  BY Zenon DEF Bytes
<1> HIDE DEF g
<1>4. \A k \in 0..Len(p) : f[k] = g[k]
  BY <1>1, <1>2, SumsAgree
<1>5. Len(p) \in 0..Len(p)
  OBVIOUS
<1> QED BY <1>1, <1>3, <1>4, <1>5

(* The length of a beginning, and what one more token adds to it. *)
LEMMA BytesGrows ==
  ASSUME NEW p \in Seq(Tokens), NEW q \in Seq(Tokens), Len(q) = Len(p) + 1,
         \A k \in 1..Len(p) : q[k] = p[k]
  PROVE  Bytes(q) = Bytes(p) + Size[q[Len(p) + 1]]
<1>1. PICK f : Sums(f, p, Len(p)) /\ Bytes(p) = f[Len(p)]
  BY BytesSums
<1>2. PICK g : Sums(g, q, Len(q)) /\ Bytes(q) = g[Len(q)]
  BY BytesSums
<1>3. f[Len(p)] = g[Len(p)]
  BY <1>1, <1>2, SumsAgree
<1>4. g[Len(p) + 1] = g[Len(p)] + Size[q[Len(p) + 1]]
  BY <1>2 DEF Sums
<1> QED BY <1>1, <1>2, <1>3, <1>4

LEMMA BytesNat == \A p \in Seq(Tokens) : Bytes(p) \in Nat
BY BytesSums

LEMMA BytesEmpty == Bytes(<<>>) = 0
<1> DEFINE p == <<>>
<1>1. p \in Seq(Tokens) /\ Len(p) = 0
  OBVIOUS
<1> HIDE DEF p
<1>2. PICK f : Sums(f, p, 0) /\ Bytes(p) = f[0]
  BY <1>1, BytesSums
<1>3. Bytes(p) = 0
  BY <1>2 DEF Sums
<1> QED BY <1>3 DEF p

(* The path of an entry. *)
LEMMA BytesOfEntry ==
  ASSUME NEW p \in Seq(Tokens), NEW e \in Tokens
  PROVE  Bytes(p \o <<Slash, e>>) = Bytes(p) + Size[e] + 1
<1> DEFINE q == Append(p, Slash)
           r == p \o <<Slash, e>>
<1>1. Slash \in Tokens
  BY DEF Tokens
<1>2. q \in Seq(Tokens) /\ Len(q) = Len(p) + 1 /\ q[Len(p) + 1] = Slash
      /\ \A k \in 1..Len(p) : q[k] = p[k]
  BY <1>1
<1>3. r \in Seq(Tokens) /\ Len(r) = Len(q) + 1 /\ r[Len(q) + 1] = e
      /\ \A k \in 1..Len(q) : r[k] = q[k]
  BY <1>1
<1> HIDE DEF q, r
<1>4. Bytes(q) = Bytes(p) + 1
  BY <1>2, BytesGrows, SizesAssumption
<1>5. Bytes(r) = Bytes(q) + Size[e]
  BY <1>2, <1>3, BytesGrows
<1>6. Bytes(p) \in Nat /\ Size[e] \in Nat
  BY BytesNat, SizeNat
<1>7. Bytes(r) = Bytes(p) + Size[e] + 1
  BY <1>4, <1>5, <1>6
<1> QED BY <1>7 DEF r

LEMMA BytesOfPrefix ==
  ASSUME NEW p \in Seq(Tokens), NEW m \in 0..Len(p)
  PROVE  Bytes(SubSeq(p, 1, m)) <= Bytes(p)
<1>1. PICK f \in [0..Len(p) -> Nat] : Sums(f, p, Len(p)) /\ Bytes(p) = f[Len(p)]
  BY BytesSums
<1> DEFINE q == SubSeq(p, 1, m)
<1>2. q \in Seq(Tokens) /\ Len(q) = m /\ \A k \in 1..m : q[k] = p[k]
  OBVIOUS
<1> HIDE DEF q
<1>3. PICK g : Sums(g, q, m) /\ Bytes(q) = g[m]
  BY <1>2, BytesSums
<1>4. f[m] = g[m]
  BY <1>1, <1>2, <1>3, SumsAgree
<1>5. \A k \in 1..Len(p) : f[k] = f[k - 1] + Size[p[k]]
  BY <1>1 DEF Sums
<1> DEFINE S == {n \in Nat : m + n <= Len(p) => f[m] <= f[m + n]}
<1>6. 0 \in S
  OBVIOUS
<1>7. ASSUME NEW n \in Nat, n \in S PROVE n + 1 \in S
  <2> SUFFICES ASSUME m + (n + 1) <= Len(p) PROVE f[m] <= f[m + (n + 1)]
    OBVIOUS
  <2>1. PICK k \in 1..Len(p) : k = m + (n + 1)
    OBVIOUS
  <2>2. f[m] <= f[k - 1] /\ f[m] \in Nat /\ f[k - 1] \in Nat
    BY <1>7, <2>1
  <2>3. p[k] \in Tokens /\ f[k] = f[k - 1] + Size[p[k]]
    BY <1>5
  <2> QED BY <2>1, <2>2, <2>3, SizeNat
<1> HIDE DEF S
<1>8. \A n \in Nat : n \in S
  BY <1>6, <1>7, Induction
<1>9. Len(p) - m \in Nat /\ m + (Len(p) - m) = Len(p)
  OBVIOUS
<1>10. f[m] <= f[Len(p)]
  BY <1>8, <1>9 DEF S
<1> QED BY <1>1, <1>3, <1>4, <1>10 DEF q

-----------------------------------------------------------------------------
(* DIRPATH without its trailing slashes.                                    *)

LEMMA StrippedIs ==
  ASSUME call.dirpath \in DirPaths, call.dirpath # <<>>
  PROVE  \E m \in 1..Len(call.dirpath) :
           /\ Stripped = SubSeq(call.dirpath, 1, m)
           /\ m # 1 => call.dirpath[m] # Slash
<1> DEFINE p == call.dirpath
           kept == {k \in 1..Len(p) : k = 1 \/ p[k] # Slash}
           m == CHOOSE k \in kept : \A q \in kept : q <= k
<1>1. p \in Seq(Tokens) /\ Len(p) \in Nat \ {0}
  BY PathsAssumption
<1>2. \E k \in kept : \A q \in kept : q <= k
  <2> DEFINE S == {j \in Nat : Len(p) - j \in kept}
  <2>1. Len(p) - 1 \in S /\ S \in SUBSET Nat
    BY <1>1
  <2>2. PICK j \in S : \A k \in S : j <= k
    BY <2>1, Least
  <2>3. ASSUME NEW q \in kept PROVE q <= Len(p) - j
    <3>1. Len(p) - q \in Nat /\ Len(p) - (Len(p) - q) = q
      BY <1>1
    <3>2. j <= Len(p) - q
      BY <2>2, <3>1
    <3> QED BY <1>1, <3>2
  <2>4. Len(p) - j \in kept
    OBVIOUS
  <2> QED BY <2>3, <2>4
<1>3. m \in kept
  BY <1>2, Zenon
<1>4. Stripped = SubSeq(p, 1, m)
  BY Zenon DEF Stripped
<1> HIDE DEF m
<1> QED BY <1>3, <1>4

LEMMA StrippedType ==
  ASSUME call.dirpath \in DirPaths, call.dirpath # <<>>
  PROVE  /\ Stripped \in Seq(Tokens)
         /\ Len(Stripped) \in Nat \ {0}
         /\ Stripped[Len(Stripped)] \in Tokens
         /\ Bytes(Stripped) <= Bytes(call.dirpath)
<1>1. call.dirpath \in Seq(Tokens)
  BY PathsAssumption
<1>2. PICK m \in 1..Len(call.dirpath) : Stripped = SubSeq(call.dirpath, 1, m)
  BY StrippedIs
<1>3. Stripped \in Seq(Tokens) /\ Len(Stripped) = m
  BY <1>1, <1>2
<1>4. Bytes(Stripped) <= Bytes(call.dirpath)
  BY <1>1, <1>2, BytesOfPrefix
<1> QED BY <1>3, <1>4

-----------------------------------------------------------------------------
(* The buffer all levels write to.                                          *)

LEMMA EntryPath ==
  ASSUME NEW p \in Seq(Tokens), NEW a \in Nat, a <= Len(p), NEW e \in Tokens
  PROVE  LET q == SubSeq(p, 1, a) \o <<Slash, e>>
         IN  /\ SubSeq(p, 1, a) \in Seq(Tokens)
             /\ q \in Seq(Tokens) /\ Len(q) = a + 2 /\ q[a + 2] = e
             /\ \A b \in 0..a : SubSeq(q, 1, b) = SubSeq(p, 1, b)
<1> DEFINE r == SubSeq(p, 1, a)
           q == r \o <<Slash, e>>
<1>1. r \in Seq(Tokens) /\ Len(r) = a /\ \A k \in 1..a : r[k] = p[k]
  OBVIOUS
<1>2. Slash \in Tokens
  BY DEF Tokens
<1> HIDE DEF r
<1>3. q \in Seq(Tokens) /\ Len(q) = a + 2 /\ q[a + 2] = e /\ \A k \in 1..a : q[k] = r[k]
  BY <1>1, <1>2
<1> HIDE DEF q
<1>4. ASSUME NEW b \in 0..a PROVE SubSeq(q, 1, b) = SubSeq(p, 1, b)
  <2>1. \A k \in 1..b : q[k] = p[k]
    BY <1>1, <1>3
  <2>2. SubSeq(q, 1, b) = [k \in 1..b |-> q[k]] /\ SubSeq(p, 1, b) = [k \in 1..b |-> p[k]]
    BY <1>3
  <2> QED BY <2>1, <2>2
<1> QED BY <1>1, <1>3, <1>4 DEF q, r

LEMMA Frames ==
  ASSUME Typed
  PROVE  /\ Level \in Nat
         /\ \A k \in 1..Level : /\ stack[k] \in Frame
                                /\ stack[k].at \in Nat
                                /\ stack[k].left \subseteq Names
                                /\ stack[k].name \in Tokens
<1>1. Level \in Nat /\ \A k \in 1..Level : stack[k] \in Frame
  BY DEF Typed, Level
<1> QED BY <1>1 DEF Frame

(* The places where the paths of the levels end, in order. *)
LEMMA Ends ==
  ASSUME Typed, Chain, Level # 0, call.dirpath # <<>>
  PROVE  /\ Top.at \in Nat /\ Top.at <= Len(path)
         /\ \A k \in 1..Level : /\ stack[k].at \in 0..Top.at
                                /\ k # Level => stack[k].at + 2 <= Top.at
<1>1. Level \in Nat \ {0} /\ \A k \in 1..Level : stack[k].at \in Nat
  BY Frames
<1>2. Len(Stripped) \in Nat
  BY StrippedType DEF Typed
<1>3. \A k \in 1..Level : stack[k].at = Len(Stripped) + 2 * (k - 1) /\ stack[k].at <= Len(path)
  BY DEF Chain
<1>4. Level \in 1..Level
  BY <1>1
<1>5. ASSUME NEW k \in 1..Level
      PROVE  stack[k].at \in 0..stack[Level].at /\ (k # Level => stack[k].at + 2 <= stack[Level].at)
  <2>1. /\ stack[k].at = Len(Stripped) + 2 * (k - 1)
        /\ stack[Level].at = Len(Stripped) + 2 * (Level - 1)
        /\ stack[k].at \in Nat /\ stack[Level].at \in Nat
    BY <1>1, <1>3, <1>4
  <2> QED BY <1>1, <1>2, <2>1
<1> QED BY <1>1, <1>3, <1>4, <1>5 DEF Top

(* An entry's path leaves the paths of the levels in the buffer alone. *)
LEMMA FillKeeps ==
  ASSUME Typed, Chain, Level # 0, call.dirpath # <<>>, NEW e \in Tokens,
         path' = PathOf(e), UNCHANGED <<stack, call>>
  PROVE  /\ path' \in Seq(Tokens) /\ Len(path') = Top.at + 2
         /\ \A k \in 1..Level : Dir(k)' = Dir(k)
         /\ \A x : PathOf(x)' = PathOf(x)
         /\ Chain'
<1>1. /\ Top.at \in Nat /\ Top.at <= Len(path)
      /\ \A k \in 1..Level : stack[k].at \in 0..Top.at
  BY Ends
<1>2. path \in Seq(Tokens)
  BY DEF Typed
<1>3. /\ path' \in Seq(Tokens) /\ Len(path') = Top.at + 2
      /\ \A b \in 0..Top.at : SubSeq(path', 1, b) = SubSeq(path, 1, b)
  BY <1>1, <1>2, EntryPath DEF PathOf
<1>4. Level' = Level /\ Top' = Top /\ Stripped' = Stripped
  BY DEF Level, Top, Stripped
<1>5. \A k \in 1..Level : Dir(k)' = Dir(k)
  BY <1>1, <1>3, <1>4 DEF Dir
<1>6. \A x : PathOf(x)' = PathOf(x)
  <2>1. SubSeq(path', 1, Top.at) = SubSeq(path, 1, Top.at) /\ Top'.at = Top.at
    BY <1>1, <1>3, <1>4
  <2> QED BY <2>1 DEF PathOf
<1>7. ASSUME NEW k \in 1..Level
      PROVE  /\ stack'[k].at = Len(Stripped') + 2 * (k - 1)
             /\ stack'[k].at <= Len(path')
             /\ Dir(k)' = IF k = 1 THEN Stripped' ELSE Dir(k - 1)' \o <<Slash, stack'[k].name>>
  <2>1. /\ stack[k].at = Len(Stripped) + 2 * (k - 1)
        /\ Dir(k) = IF k = 1 THEN Stripped ELSE Dir(k - 1) \o <<Slash, stack[k].name>>
    BY DEF Chain
  <2>2. k # 1 => k - 1 \in 1..Level
    BY Frames
  <2>3. Dir(k)' = Dir(k) /\ (k # 1 => Dir(k - 1)' = Dir(k - 1))
    BY <1>5, <2>2
  <2>4. stack[k].at <= Len(path')
    BY <1>1, <1>3
  <2> QED BY <1>4, <2>1, <2>3, <2>4
<1>8. Chain'
  BY <1>4, <1>7 DEF Chain
<1> QED BY <1>3, <1>5, <1>6, <1>8

(* The path of the directory the running level is in. *)
LEMMA TrailIs ==
  ASSUME Typed, Chain, Level # 0
  PROVE  Trail = Dir(Level)
<1> DEFINE Follows(t) ==
             t = [k \in 1..Level |-> IF k = 1 THEN Stripped
                                     ELSE t[k - 1] \o <<Slash, stack[k].name>>]
           t0 == CHOOSE t : Follows(t)
           w == [k \in 1..Level |-> Dir(k)]
<1>1. Level \in Nat \ {0}
  BY Frames
<1>2. Follows(w)
  <2>1. ASSUME NEW k \in 1..Level
        PROVE  Dir(k) = IF k = 1 THEN Stripped ELSE w[k - 1] \o <<Slash, stack[k].name>>
    <3>1. k # 1 => k - 1 \in 1..Level
      BY <1>1
    <3> QED BY <3>1 DEF Chain
  <2> QED BY <2>1
<1>3. Follows(t0)
  BY <1>2, Zenon
<1>4. Trail = t0[Level]
  BY Zenon DEF Trail
<1> HIDE DEF t0
<1>5. \A k \in 1..Level :
        t0[k] = IF k = 1 THEN Stripped ELSE t0[k - 1] \o <<Slash, stack[k].name>>
  BY <1>3
<1> DEFINE S == {n \in Nat : n + 1 <= Level => t0[n + 1] = Dir(n + 1)}
<1>6. 0 \in S
  <2>1. 1 \in 1..Level
    BY <1>1
  <2>2. t0[1] = Stripped
    BY <1>5, <2>1
  <2>3. Dir(1) = Stripped
    BY <2>1 DEF Chain
  <2> QED BY <2>2, <2>3
<1>7. ASSUME NEW n \in Nat, n \in S PROVE n + 1 \in S
  <2> SUFFICES ASSUME (n + 1) + 1 <= Level PROVE t0[(n + 1) + 1] = Dir((n + 1) + 1)
    OBVIOUS
  <2>1. PICK k \in 1..Level : k = (n + 1) + 1
    BY <1>1
  <2>2. k # 1 /\ k - 1 = n + 1
    BY <2>1
  <2>3. t0[k] = t0[k - 1] \o <<Slash, stack[k].name>>
    BY <1>5, <2>2
  <2>4. Dir(k) = Dir(k - 1) \o <<Slash, stack[k].name>>
    BY <2>2 DEF Chain
  <2>5. t0[k - 1] = Dir(k - 1)
    BY <1>1, <1>7, <2>1, <2>2
  <2> QED BY <2>1, <2>3, <2>4, <2>5
<1> HIDE DEF S
<1>8. \A n \in Nat : n \in S
  BY <1>6, <1>7, Induction
<1>9. Level - 1 \in Nat /\ (Level - 1) + 1 = Level
  BY <1>1
<1>10. t0[Level] = Dir(Level)
  BY <1>1, <1>8, <1>9 DEF S
<1> QED BY <1>4, <1>10

-----------------------------------------------------------------------------
(* Each step keeps the paths.                                               *)

LEMMA SameKeeps ==
  ASSUME Typed, Chain, Unseen, UNCHANGED <<call, stack, path, st>>, ep' \in Tokens
  PROVE  /\ Typed' /\ Chain' /\ Unseen'
         /\ Level' = Level /\ Stripped' = Stripped
         /\ \A k : Dir(k)' = Dir(k)
         /\ \A x : PathOf(x)' = PathOf(x)
<1>1. Level' = Level /\ Stripped' = Stripped /\ Top' = Top
  BY DEF Level, Stripped, Top
<1>2. \A k : Dir(k)' = Dir(k)
  BY DEF Dir
<1>3. \A x : PathOf(x)' = PathOf(x)
  BY <1>1 DEF PathOf
<1>4. Typed'
  BY DEF Typed
<1>5. Chain' /\ Unseen'
  BY <1>1, <1>2 DEF Chain, Unseen
<1> QED BY <1>1, <1>2, <1>3, <1>4, <1>5

LEMMA Shorter ==
  ASSUME Typed, Level # 0, stack' = SubSeq(stack, 1, Level - 1)
  PROVE  /\ stack' \in Seq(Frame) /\ Level' = Level - 1 /\ Level' \in Nat
         /\ \A k \in 1..Level' : k \in 1..Level /\ stack'[k] = stack[k]
<1>1. stack \in Seq(Frame) /\ Level = Len(stack)
  BY DEF Typed, Level
<1>2. PICK n \in Nat : n = Level - 1 /\ n <= Len(stack)
  BY <1>1
<1>3. stack' = SubSeq(stack, 1, n)
  BY <1>2
<1>4. stack' \in Seq(Frame) /\ Len(stack') = n /\ \A k \in 1..n : stack'[k] = stack[k]
  BY <1>1, <1>2, <1>3
<1>5. Level' = Level - 1 /\ Level' \in Nat /\ Level' = n
  BY <1>2, <1>4 DEF Level
<1>6. \A k \in 1..n : k \in 1..Level
  BY <1>1, <1>2
<1> QED BY <1>4, <1>5, <1>6

LEMMA LeaveKeeps ==
  ASSUME Typed, Chain, Unseen, Level # 0, Bytes(path) <= PathMax, call.dirpath # <<>>,
         NEW r, Leave(r), UNCHANGED <<call, path, st>>, ep' \in Tokens
  PROVE  Paths'
<1>1. /\ stack' \in Seq(Frame) /\ Level' = Level - 1 /\ Level' \in Nat
      /\ \A k \in 1..Level' : k \in 1..Level /\ stack'[k] = stack[k]
  BY Shorter DEF Leave
<1>2. Stripped' = Stripped
  BY DEF Stripped
<1>3. \A k \in 1..Level' : Dir(k)' = Dir(k)
  BY <1>1 DEF Dir
<1>4. Typed'
  BY <1>1 DEF Typed
<1>5. ASSUME NEW k \in 1..Level'
      PROVE  /\ stack'[k].at = Len(Stripped') + 2 * (k - 1)
             /\ stack'[k].at <= Len(path')
             /\ Dir(k)' = IF k = 1 THEN Stripped' ELSE Dir(k - 1)' \o <<Slash, stack'[k].name>>
  <2>1. k \in 1..Level /\ stack'[k] = stack[k] /\ (k # 1 => k - 1 \in 1..Level')
    BY <1>1
  <2> QED BY <1>2, <1>3, <2>1 DEF Chain
<1>6. Chain'
  BY <1>5 DEF Chain
<1>7. Unseen'
  BY <1>1, <1>3 DEF Unseen
<1>8. pc' = "return"
  BY DEF Leave
<1>9. Here'
  BY <1>8 DEF Here
<1> QED BY <1>4, <1>6, <1>7, <1>9 DEF Paths

LEMMA InitPaths == ASSUME Init PROVE Paths
<1>1. /\ call.dirpath \in DirPaths /\ stack = <<>> /\ path = <<>> /\ st = <<>>
      /\ ep = Slash /\ pc = "start"
  BY DEF Init
<1>2. Level = 0 /\ 1..Level = {}
  BY <1>1 DEF Level
<1>3. Typed
  <2>1. stack \in Seq(Frame) /\ path \in Seq(Tokens)
    BY <1>1
  <2> QED BY <1>1, <2>1 DEF Typed, Tokens
<1>4. Chain /\ Unseen
  BY <1>2 DEF Chain, Unseen
<1>5. Bytes(path) <= PathMax
  BY <1>1, BytesEmpty, SizesAssumption
<1> QED BY <1>1, <1>3, <1>4, <1>5 DEF Paths, Here

LEMMA RefusePaths == ASSUME Paths, Refuse PROVE Paths'
<1>1. UNCHANGED <<call, stack, path, st, ep>> /\ pc' = "done"
  BY DEF Refuse, Return, buffer
<1>2. Typed' /\ Chain' /\ Unseen'
  BY <1>1, SameKeeps DEF Paths, Typed
<1>3. Here'
  BY <1>1 DEF Paths, Here
<1> QED BY <1>2, <1>3 DEF Paths

LEMMA OpenRootPaths == ASSUME IInv, Paths, OpenRoot PROVE Paths'
<1>1. /\ UNCHANGED <<call, stack>> /\ path' = Stripped
      /\ call.dirpath # <<>> /\ Bytes(call.dirpath) < PathMax
      /\ st' \in {st, <<>>, path'} /\ ep' = Stripped[Len(Stripped)]
      /\ pc' = "done" \/ (st' \in {<<>>, path'} /\ pc' = IF Kind[ep'] = "dir" THEN "root" ELSE "file")
  BY DEF OpenRoot, Return
<1>2. Level = 0 /\ Level' = 0 /\ Stripped' = Stripped
  BY <1>1 DEF IInv, Descriptors, OpenRoot, Level, Stripped
<1>3. /\ Stripped \in Seq(Tokens) /\ Len(Stripped) \in Nat \ {0}
      /\ Stripped[Len(Stripped)] \in Tokens
      /\ Bytes(Stripped) <= Bytes(call.dirpath)
  BY <1>1, StrippedType DEF Paths, Typed
<1>4. Typed'
  <2>1. <<>> \in Seq(Tokens)
    OBVIOUS
  <2> QED BY <1>1, <1>3, <2>1 DEF Paths, Typed
<1>5. 1..Level' = {}
  BY <1>2
<1>6. Chain' /\ Unseen'
  BY <1>5 DEF Chain, Unseen
<1>7. Bytes(path') <= PathMax
  <2>1. Bytes(Stripped) \in Nat /\ Bytes(call.dirpath) \in Nat /\ PathMax \in Nat
    BY <1>3, BytesNat, PathsAssumption, SizesAssumption DEF Paths, Typed
  <2> QED BY <1>1, <1>3, <2>1
<1>8. CASE pc' = "done"
  BY <1>4, <1>6, <1>7, <1>8 DEF Paths, Here
<1>9. CASE st' \in {<<>>, path'} /\ pc' = IF Kind[ep'] = "dir" THEN "root" ELSE "file"
  <2>1. Len(st') <= Len(path')
    BY <1>1, <1>3, <1>9
  <2>2. AtDirpath' /\ pc' \in {"root", "file"} /\ (pc' = "file" => Kind[ep'] # "dir")
    BY <1>1, <1>2, <1>9, <2>1 DEF AtDirpath
  <2>3. Here'
    BY <1>1, <1>7, <2>2 DEF Here
  <2> QED BY <1>4, <1>6, <2>3 DEF Paths
<1> QED BY <1>1, <1>8, <1>9

LEMMA FilePaths == ASSUME Paths, File PROVE Paths'
<1>1. UNCHANGED <<call, stack, path, st, ep>> /\ pc' = "done"
  BY DEF File, Return, buffer
<1>2. Typed' /\ Chain' /\ Unseen'
  BY <1>1, SameKeeps DEF Paths, Typed
<1>3. Here'
  BY <1>1 DEF Paths, Here
<1> QED BY <1>2, <1>3 DEF Paths

LEMMA RootPaths == ASSUME IInv, Paths, Root PROVE Paths'
<1>1. UNCHANGED <<call, stack, path, st, ep>> /\ pc' \in {"done", "opendir"} /\ pc = "root"
  BY DEF Root, Return, buffer
<1>2. Typed' /\ Chain' /\ Unseen' /\ Level' = Level /\ Stripped' = Stripped
  BY <1>1, SameKeeps DEF Paths, Typed
<1>3. Level = 0 /\ AtDirpath /\ call.dirpath # <<>> /\ Bytes(path) <= PathMax
  BY <1>1 DEF IInv, Descriptors, Paths, Here
<1>4. AtDirpath'
  BY <1>1, <1>2, <1>3 DEF AtDirpath
<1>5. Here'
  BY <1>1, <1>2, <1>3, <1>4 DEF Here
<1> QED BY <1>2, <1>5 DEF Paths

(* The path of a level that begins is what the buffer holds. *)
(* A level is begun, in the directory at hand.                              *)
LEMMA Begins ==
  ASSUME IInv, Paths, OpenDir, pc' = "read", NEW l \in Nat, l = Level + 1
  PROVE  /\ Level \in Nat /\ Level' = l /\ stack' \in Seq(Frame)
         /\ \A k \in 1..Level : stack'[k] = stack[k] /\ Dir(k)' = Dir(k)
         /\ stack'[l] = [name |-> ep, left |-> Entries[ep], at |-> Len(path)]
         /\ Dir(l)' = path /\ Len(path) = Len(Stripped) + 2 * Level
         /\ path = IF Level = 0 THEN Stripped ELSE Dir(Level) \o <<Slash, ep>>
         /\ Len(st) <= Len(path) /\ Entries[ep] \subseteq Tokens
<1> DEFINE fr == [name |-> ep, left |-> Entries[ep],
                  at |-> IF Level = 0 THEN Len(path) ELSE plen]
<1>1. /\ UNCHANGED <<call, path, st, ep, plen>> /\ pc = "opendir" /\ stack' = Append(stack, fr)
  BY DEF OpenDir, buffer
<1>2. call.dirpath # <<>> /\ IF Level = 0 THEN AtDirpath ELSE AtHand
  BY <1>1 DEF Paths, Here
<1>3. /\ path \in Seq(Tokens) /\ Len(path) \in Nat /\ st \in Seq(Tokens) /\ Len(st) \in Nat
      /\ stack \in Seq(Frame) /\ ep \in Tokens /\ Level \in Nat
  BY Frames DEF Paths, Typed
<1>4. /\ Len(st) <= Len(path)
      /\ fr.at = Len(path)
      /\ Len(path) = Len(Stripped) + 2 * Level
      /\ path = IF Level = 0 THEN Stripped ELSE Dir(Level) \o <<Slash, ep>>
  <2>1. CASE Level = 0
    BY <1>2, <1>3, <2>1 DEF AtDirpath
  <2>2. CASE Level # 0
    <3>1. path = Dir(Level) \o <<Slash, ep>> /\ plen = Len(path) /\ st = path
      BY <1>2, <2>2 DEF AtHand, PathOf, Dir, Top
    <3>2. Top.at \in Nat /\ Top.at <= Len(path) /\ Top.at = Len(Stripped) + 2 * (Level - 1)
      <4>1. Level \in 1..Level
        BY <1>3, <2>2
      <4> QED BY <1>2, <2>2, <4>1, Ends DEF Paths, Chain, Top
    <3>3. Len(Dir(Level) \o <<Slash, ep>>) = Top.at + 2
      BY <1>3, <3>2, EntryPath DEF Dir, Top
    <3>4. Len(Stripped) \in Nat
      BY <1>2, StrippedType DEF Paths, Typed
    <3>5. Len(path) = Len(Stripped) + 2 * Level
      BY <1>3, <2>2, <3>1, <3>2, <3>3, <3>4
    <3> QED BY <1>3, <2>2, <3>1, <3>5
  <2> QED BY <2>1, <2>2
<1>5. Entries[ep] \in SUBSET Names
  BY <1>3, TreeAssumption
<1>6. fr \in Frame
  BY <1>3, <1>4, <1>5 DEF Frame
<1>7. fr = [name |-> ep, left |-> Entries[ep], at |-> Len(path)]
  BY <1>4
<1> HIDE DEF fr
<1>8. /\ stack' \in Seq(Frame) /\ Level' = l /\ stack'[l] = fr
      /\ \A k \in 1..Level : stack'[k] = stack[k]
  BY <1>1, <1>3, <1>6 DEF Level
<1>9. \A k \in 1..Level : Dir(k)' = Dir(k)
  BY <1>1, <1>8 DEF Dir
<1>10. Dir(l)' = path
  <2>1. SubSeq(path, 1, Len(path)) = path
    BY <1>3
  <2>2. fr.at = Len(path) /\ path' = path
    BY <1>1, <1>4
  <2>3. Dir(l)' = SubSeq(path', 1, stack'[l].at)
    BY DEF Dir
  <2> QED BY <1>8, <2>1, <2>2, <2>3
<1> QED BY <1>3, <1>4, <1>5, <1>7, <1>8, <1>9, <1>10 DEF Tokens

LEMMA OpenDirPaths == ASSUME IInv, Paths, OpenDir PROVE Paths'
<1>1. /\ UNCHANGED <<call, path, st, ep, plen>> /\ pc = "opendir"
      /\ pc' = "read" \/ (pc' = "return" /\ UNCHANGED stack)
  BY DEF OpenDir, buffer
<1>2. call.dirpath # <<>> /\ Bytes(path) <= PathMax
      /\ IF Level = 0 THEN AtDirpath ELSE AtHand
  BY <1>1 DEF Paths, Here
<1>3. CASE UNCHANGED stack /\ pc' = "return"
  <2>1. Typed' /\ Chain' /\ Unseen'
    BY <1>1, <1>3, SameKeeps DEF Paths, Typed
  <2>2. Here'
    BY <1>1, <1>2, <1>3 DEF Here
  <2> QED BY <2>1, <2>2 DEF Paths
<1>4. CASE pc' = "read"
  <2>1. /\ path \in Seq(Tokens) /\ Len(path) \in Nat /\ st \in Seq(Tokens) /\ Len(st) \in Nat
        /\ Level \in Nat /\ Slash \in Tokens
    BY Frames DEF Paths, Typed, Tokens
  <2> PICK l \in Nat : l = Level + 1
    BY <2>1
  <2>2. /\ Level' = l /\ stack' \in Seq(Frame)
        /\ \A k \in 1..Level : stack'[k] = stack[k] /\ Dir(k)' = Dir(k)
        /\ stack'[l] = [name |-> ep, left |-> Entries[ep], at |-> Len(path)]
        /\ Dir(l)' = path /\ Len(path) = Len(Stripped) + 2 * Level
        /\ path = IF Level = 0 THEN Stripped ELSE Dir(Level) \o <<Slash, ep>>
        /\ Len(st) <= Len(path) /\ Entries[ep] \subseteq Tokens
    BY <1>4, Begins
  <2>3. /\ stack'[l].name = ep /\ stack'[l].left = Entries[ep] /\ stack'[l].at = Len(path)
    BY <2>2
  <2>4. Typed'
    BY <1>1, <2>2 DEF Paths, Typed
  <2>5. Stripped' = Stripped
    BY <1>1 DEF Stripped
  <2>6. \A k \in 1..Level' : k \in 1..Level \/ k = l
    BY <2>1, <2>2
  <2>7. ASSUME NEW k \in 1..Level'
        PROVE  /\ stack'[k].at = Len(Stripped') + 2 * (k - 1)
               /\ stack'[k].at <= Len(path')
               /\ Dir(k)' = IF k = 1 THEN Stripped'
                            ELSE Dir(k - 1)' \o <<Slash, stack'[k].name>>
    <3>1. CASE k \in 1..Level
      <4>1. k # 1 => k - 1 \in 1..Level
        BY <2>1, <3>1
      <4> QED BY <1>1, <2>2, <2>5, <3>1, <4>1 DEF Paths, Chain
    <3>2. CASE k = l
      <4>1. k - 1 = Level /\ (k = 1 <=> Level = 0) /\ (Level # 0 => Level \in 1..Level)
        BY <2>1, <3>2
      <4>2. stack'[k].at = Len(Stripped') + 2 * (k - 1) /\ stack'[k].at <= Len(path')
        <5>1. Len(path) = Len(Stripped) + 2 * (k - 1)
          BY <2>2, <4>1
        <5> QED BY <1>1, <2>1, <2>3, <2>5, <3>2, <5>1
      <4>3. CASE Level = 0
        BY <2>2, <2>5, <3>2, <4>1, <4>2, <4>3
      <4>4. CASE Level # 0
        <5>1. Dir(k - 1)' = Dir(Level)
          BY <2>2, <4>1, <4>4
        <5> QED BY <2>2, <2>3, <3>2, <4>1, <4>2, <4>4, <5>1
      <4> QED BY <4>3, <4>4
    <3> QED BY <2>6, <3>1, <3>2
  <2>8. Chain'
    BY <2>7 DEF Chain
  <2>9. ASSUME NEW k \in 1..Level', NEW e \in stack'[k].left
        PROVE  st' # Dir(k)' \o <<Slash, e>>
    <3>1. CASE k \in 1..Level
      BY <1>1, <2>2, <3>1 DEF Paths, Unseen
    <3>2. CASE k = l
      <4>1. e \in Tokens
        BY <2>2, <2>3, <3>2
      <4>2. Len(path \o <<Slash, e>>) = Len(path) + 2
        BY <2>1, <4>1
      <4>3. Len(st) # Len(path) + 2
        BY <2>1, <2>2
      <4> QED BY <1>1, <2>2, <3>2, <4>2, <4>3
    <3> QED BY <2>6, <3>1, <3>2
  <2>10. Unseen'
    BY <2>9 DEF Unseen
  <2>11. Here'
    BY <1>1, <1>2, <1>4 DEF Here
  <2> QED BY <2>4, <2>8, <2>10, <2>11 DEF Paths
<1> QED BY <1>1, <1>3, <1>4

LEMMA ReadEndPaths == ASSUME IInv, Paths, ReadEnd PROVE Paths'
<1>1. UNCHANGED <<call, path, st, ep>> /\ pc = "read" /\ Leave(SUCC)
  BY DEF ReadEnd, buffer
<1>2. Level # 0
  BY <1>1 DEF IInv, Descriptors, Running
<1> QED BY <1>1, <1>2, LeaveKeeps DEF Paths, Here, Typed

LEMMA ReadFailsPaths == ASSUME IInv, Paths, ReadFails PROVE Paths'
<1>1. UNCHANGED <<call, path, st>> /\ pc = "read" /\ Leave(ERR) /\ ep' \in Top.left
  BY DEF ReadFails, buffer
<1>2. Level # 0
  BY <1>1 DEF IInv, Descriptors, Running
<1>3. Top.left \subseteq Names
  BY <1>2, Frames DEF Paths, Top
<1>4. ep' \in Tokens
  BY <1>1, <1>3 DEF Tokens
<1> QED BY <1>1, <1>2, <1>4, LeaveKeeps DEF Paths, Here

(* The entry that is taken off is the only one whose path ftw.st can be. *)
(* An entry is taken off the running level.                                 *)
LEMMA Takes ==
  ASSUME Typed, Level # 0, NEW e, stack' = [stack EXCEPT ![Level].left = @ \ {e}]
  PROVE  /\ stack' \in Seq(Frame) /\ Level' = Level
         /\ \A k \in 1..Level : /\ stack'[k].at = stack[k].at /\ stack'[k].name = stack[k].name
                                /\ stack'[k].left = IF k = Level THEN stack[k].left \ {e}
                                                    ELSE stack[k].left
<1>0. Level \in 1..Level
  BY Frames
<1>1. stack \in Seq(Frame) /\ Level = Len(stack)
  BY DEF Typed, Level
<1>2. [stack[Level] EXCEPT !.left = @ \ {e}] \in Frame
  <2>1. PICK f \in Frame : f = stack[Level]
    BY <1>0, <1>1
  <2>2. [f EXCEPT !.left = @ \ {e}] \in Frame
    BY DEF Frame
  <2> QED BY <2>1, <2>2
<1>3. /\ stack' \in Seq(Frame) /\ Level' = Level
      /\ \A k \in 1..Level : stack'[k] = IF k = Level THEN [stack[Level] EXCEPT !.left = @ \ {e}]
                                         ELSE stack[k]
  BY <1>0, <1>1, <1>2 DEF Level
<1>4. \A k \in 1..Level : stack[k] \in Frame
  BY <1>1
<1>5. ASSUME NEW k \in 1..Level
      PROVE  /\ stack'[k].at = stack[k].at /\ stack'[k].name = stack[k].name
             /\ stack'[k].left = IF k = Level THEN stack[k].left \ {e} ELSE stack[k].left
  <2>1. PICK f \in Frame : f = stack[k]
    BY <1>4
  <2>2. CASE k = Level
    <3>1. stack'[k] = [f EXCEPT !.left = @ \ {e}]
      BY <1>3, <2>1, <2>2
    <3> QED BY <2>1, <2>2, <3>1 DEF Frame
  <2>3. CASE k # Level
    BY <1>3, <2>3
  <2> QED BY <2>2, <2>3
<1> QED BY <1>3, <1>5

LEMMA ReadEntryPaths == ASSUME IInv, Paths, ReadEntry PROVE Paths'
<1>1. PICK e \in Top.left :
        /\ ep' = e /\ stack' = [stack EXCEPT ![Level].left = @ \ {e}]
        /\ \/ pc' = "read" /\ UNCHANGED st
           \/ ~TooLong(e) /\ st' = PathOf(e) /\ pc' = "entry"
           \/ pc' = "func" /\ UNCHANGED st /\ ~Flag("DIR") /\ ~Flag("REG")
  BY DEF ReadEntry
<1>2. pc = "read" /\ UNCHANGED <<call, path, plen>>
  BY DEF ReadEntry, buffer
<1>3. call.dirpath # <<>> /\ Bytes(path) <= PathMax
  BY <1>2 DEF Paths, Here
<1>4. Level \in Nat \ {0} /\ Level \in 1..Level
  BY <1>2, Frames DEF IInv, Descriptors, Running, Paths
<1>5. e \in Names /\ e \in Tokens /\ Slash \in Tokens
  BY <1>4, Frames DEF Paths, Top, Tokens
<1>6. /\ Top.at \in Nat /\ Top.at <= Len(path) /\ path \in Seq(Tokens)
      /\ \A k \in 1..Level : stack[k].at \in 0..Top.at /\ (k # Level => stack[k].at + 2 <= Top.at)
  BY <1>3, <1>4, Ends DEF Paths, Typed
<1>7. /\ stack' \in Seq(Frame) /\ Level' = Level
      /\ \A k \in 1..Level : /\ stack'[k].at = stack[k].at /\ stack'[k].name = stack[k].name
                             /\ stack'[k].left = IF k = Level THEN stack[k].left \ {e}
                                                 ELSE stack[k].left
  BY <1>1, <1>4, Takes DEF Paths
<1>8. PathOf(e) \in Seq(Tokens) /\ Len(PathOf(e)) = Top.at + 2 /\ PathOf(e)[Top.at + 2] = e
  BY <1>5, <1>6, EntryPath DEF PathOf
<1>9. Typed'
  BY <1>1, <1>2, <1>5, <1>7, <1>8 DEF Paths, Typed
<1>10. Stripped' = Stripped /\ \A k \in 1..Level : Dir(k)' = Dir(k)
  BY <1>2, <1>7 DEF Stripped, Dir
<1>11. ASSUME NEW k \in 1..Level'
       PROVE  /\ stack'[k].at = Len(Stripped') + 2 * (k - 1)
              /\ stack'[k].at <= Len(path')
              /\ Dir(k)' = IF k = 1 THEN Stripped'
                           ELSE Dir(k - 1)' \o <<Slash, stack'[k].name>>
  <2>1. k \in 1..Level /\ (k # 1 => k - 1 \in 1..Level)
    BY <1>4, <1>7
  <2> QED BY <1>2, <1>7, <1>10, <2>1 DEF Paths, Chain
<1>12. Chain'
  BY <1>11 DEF Chain
<1>13. ASSUME NEW k \in 1..Level, NEW m \in stack'[k].left
       PROVE  PathOf(e) # Dir(k) \o <<Slash, m>>
  <2>1. m \in Tokens /\ stack[k].at \in Nat /\ stack[k].at <= Len(path)
    <3>1. m \in stack[k].left
      BY <1>7
    <3>2. stack[k].left \subseteq Names
      BY Frames DEF Paths
    <3>3. stack[k].at \in 0..Top.at
      BY <1>6
    <3>4. m \in Tokens
      BY <3>1, <3>2 DEF Tokens
    <3> QED BY <1>6, <3>3, <3>4
  <2>2. Len(Dir(k) \o <<Slash, m>>) = stack[k].at + 2
        /\ (Dir(k) \o <<Slash, m>>)[stack[k].at + 2] = m
    BY <1>6, <2>1, EntryPath, SMTT(30) DEF Dir
  <2>3. CASE k = Level
    <3>1. m # e /\ stack[k].at = Top.at
      BY <1>4, <1>7, <2>3 DEF Top
    <3> QED BY <1>8, <2>2, <3>1
  <2>4. CASE k # Level
    BY <1>6, <1>8, <2>1, <2>2, <2>4
  <2> QED BY <2>3, <2>4
<1>14. Unseen'
  <2>1. \A k \in 1..Level : stack'[k].left \subseteq stack[k].left
    BY <1>7
  <2>2. CASE UNCHANGED st
    BY <1>7, <1>10, <2>1, <2>2 DEF Paths, Unseen
  <2>3. CASE st' = PathOf(e)
    BY <1>7, <1>10, <1>13, <2>3 DEF Unseen
  <2> QED BY <1>1, <2>2, <2>3
<1>15. PathOf(ep)' = PathOf(e) /\ Dir(Level)' = Dir(Level) /\ PathOf(e) = Dir(Level) \o <<Slash, e>>
  BY <1>1, <1>2, <1>4, <1>7, <1>10 DEF PathOf, Top, Dir
<1>16. CASE pc' = "read"
  BY <1>2, <1>3, <1>9, <1>12, <1>14, <1>16 DEF Paths, Here
<1>17. CASE ~TooLong(e) /\ st' = PathOf(e) /\ pc' = "entry"
  <2>1. Bytes(Dir(Level)) + Size[e] < PathMax
    <3>1. Dir(Level) \in Seq(Tokens)
      BY <1>6 DEF Dir, Top
    <3>2. Bytes(Dir(Level)) \in Nat /\ Size[e] \in Nat /\ PathMax \in Nat
      BY <1>5, <3>1, BytesNat, SizesAssumption
    <3> QED BY <1>17, <3>2 DEF TooLong, Dir, Top
  <2>2. Here'
    BY <1>1, <1>2, <1>3, <1>7, <1>15, <1>17, <2>1 DEF Here
  <2> QED BY <1>9, <1>12, <1>14, <2>2 DEF Paths
<1>18. CASE pc' = "func" /\ UNCHANGED st /\ ~Flag("DIR") /\ ~Flag("REG")
  <2>1. st # PathOf(e)
    BY <1>4, <1>15 DEF Paths, Unseen, Top
  <2>2. LeftOver'
    BY <1>2, <1>15, <1>18, <2>1 DEF LeftOver, Flag
  <2>3. Here'
    BY <1>2, <1>3, <1>18, <2>2 DEF Here
  <2> QED BY <1>9, <1>12, <1>14, <2>3 DEF Paths
<1> QED BY <1>1, <1>16, <1>17, <1>18

LEMMA ClassifyPaths == ASSUME IInv, Paths, Classify PROVE Paths'
<1>1. /\ pc = "entry" /\ UNCHANGED <<call, stack, ep, st>>
      /\ \/ pc' = "read" /\ UNCHANGED buffer
         \/ pc' \in {"read", "func", "dirfunc", "enter"} /\ Fill(ep)
  BY DEF Classify
<1>2. /\ st = PathOf(ep) /\ Bytes(Dir(Level)) + Size[ep] < PathMax
      /\ call.dirpath # <<>> /\ Bytes(path) <= PathMax
  BY <1>1 DEF Paths, Here
<1>3. CASE pc' = "read" /\ UNCHANGED buffer
  <2>1. UNCHANGED path
    BY <1>3 DEF buffer
  <2>2. Typed' /\ Chain' /\ Unseen'
    BY <1>1, <2>1, SameKeeps DEF Paths, Typed
  <2>3. Here'
    BY <1>1, <1>2, <1>3, <2>1 DEF Here
  <2> QED BY <2>2, <2>3 DEF Paths
<1>4. CASE pc' \in {"read", "func", "dirfunc", "enter"} /\ Fill(ep)
  <2>1. Level # 0 /\ Level' = Level /\ ep \in Tokens
    BY <1>1 DEF IInv, Descriptors, Running, Level, Paths, Typed
  <2>2. path' = PathOf(ep) /\ plen' = Top.at + 2
    BY <1>4 DEF Fill
  <2>3. /\ path' \in Seq(Tokens) /\ Len(path') = Top.at + 2
        /\ \A k \in 1..Level : Dir(k)' = Dir(k)
        /\ \A x : PathOf(x)' = PathOf(x)
        /\ Chain'
    BY <1>1, <1>2, <2>1, <2>2, FillKeeps DEF Paths
  <2>4. Typed' /\ Unseen'
    BY <1>1, <2>1, <2>3 DEF Paths, Typed, Unseen
  <2>5. AtHand'
    BY <1>1, <1>2, <2>2, <2>3 DEF AtHand
  <2>6. Bytes(path') <= PathMax
    <3>1. path \in Seq(Tokens) /\ Top.at \in Nat /\ Top.at <= Len(path)
      BY <1>2, <2>1, Ends DEF Paths, Typed
    <3>2. Dir(Level) \in Seq(Tokens)
      BY <3>1 DEF Dir, Top
    <3>3. path' = Dir(Level) \o <<Slash, ep>>
      BY <2>2 DEF PathOf, Dir, Top
    <3>4. Bytes(path') = Bytes(Dir(Level)) + Size[ep] + 1
      BY <2>1, <3>2, <3>3, BytesOfEntry
    <3>5. Bytes(Dir(Level)) \in Nat /\ Size[ep] \in Nat /\ PathMax \in Nat
      BY <2>1, <3>2, BytesNat, SizesAssumption
    <3> QED BY <1>2, <3>4, <3>5
  <2>7. Here'
    BY <1>1, <1>2, <1>4, <2>5, <2>6 DEF Here
  <2> QED BY <2>3, <2>4, <2>7 DEF Paths
<1> QED BY <1>1, <1>3, <1>4

LEMMA FuncPaths ==
  ASSUME IInv, Paths, Func \/ DirFunc
  PROVE  Paths'
<1>1. PICK r : \/ pc' = "read" /\ UNCHANGED stack
               \/ pc = "dirfunc" /\ pc' = "enter" /\ UNCHANGED stack
               \/ EndLevel(r)
  BY DEF Func, DirFunc
<1>2. pc \in {"func", "dirfunc"} /\ UNCHANGED <<call, path, plen, ep, st>>
  BY DEF Func, DirFunc, buffer
<1>3. /\ Level # 0 /\ call.dirpath # <<>> /\ Bytes(path) <= PathMax
      /\ pc = "dirfunc" => AtHand
  BY <1>2 DEF IInv, Descriptors, Running, Paths, Here
<1>4. CASE pc' \in {"read", "enter"} /\ UNCHANGED stack /\ (pc' = "enter" => AtHand)
  <2>1. Typed' /\ Chain' /\ Unseen' /\ \A x : PathOf(x)' = PathOf(x)
    BY <1>2, <1>4, SameKeeps DEF Paths, Typed
  <2>2. AtHand => AtHand'
    BY <1>2, <2>1 DEF AtHand
  <2>3. Here'
    BY <1>2, <1>3, <1>4, <2>2 DEF Here
  <2> QED BY <2>1, <2>3 DEF Paths
<1>5. CASE Leave(SUCC) \/ Leave(ERR)
  BY <1>2, <1>3, <1>5, LeaveKeeps DEF Paths, Typed
<1> QED BY <1>1, <1>3, <1>4, <1>5 DEF EndLevel

LEMMA EnterPaths == ASSUME IInv, Paths, Enter PROVE Paths'
<1>1. /\ UNCHANGED <<call, stack, path, plen, st, ep>>
      /\ pc = "enter" /\ pc' \in {"read", "opendir"}
  BY DEF Enter, buffer
<1>2. /\ Typed' /\ Chain' /\ Unseen' /\ Level' = Level
      /\ \A x : PathOf(x)' = PathOf(x)
  BY <1>1, SameKeeps DEF Paths, Typed
<1>3. /\ Level # 0 /\ AtHand /\ call.dirpath # <<>> /\ Bytes(path) <= PathMax
  BY <1>1 DEF IInv, Descriptors, Running, Paths, Here
<1>4. AtHand'
  BY <1>1, <1>2, <1>3 DEF AtHand
<1>5. Here'
  BY <1>1, <1>2, <1>3, <1>4 DEF Here
<1> QED BY <1>2, <1>5 DEF Paths

LEMMA ResumePaths == ASSUME Paths, Resume PROVE Paths'
<1>1. /\ UNCHANGED <<call, path, st, ep>> /\ pc = "return" /\ Level # 0
      /\ \/ Leave(SUCC) \/ Leave(ERR)
         \/ pc' = "read" /\ UNCHANGED stack
  BY DEF Resume, buffer
<1>2. call.dirpath # <<>> /\ Bytes(path) <= PathMax
  BY <1>1 DEF Paths, Here
<1>3. CASE Leave(SUCC) \/ Leave(ERR)
  BY <1>1, <1>2, <1>3, LeaveKeeps DEF Paths, Typed
<1>4. CASE pc' = "read" /\ UNCHANGED stack
  <2>1. Typed' /\ Chain' /\ Unseen'
    BY <1>1, <1>4, SameKeeps DEF Paths, Typed
  <2>2. Here'
    BY <1>1, <1>2, <1>4 DEF Here
  <2> QED BY <2>1, <2>2 DEF Paths
<1> QED BY <1>1, <1>3, <1>4

LEMMA FinishPaths == ASSUME Paths, Finish PROVE Paths'
<1>1. UNCHANGED <<call, stack, path, st, ep>> /\ pc' = "done"
  BY DEF Finish, Return, buffer
<1>2. Typed' /\ Chain' /\ Unseen'
  BY <1>1, SameKeeps DEF Paths, Typed
<1>3. Here'
  BY <1>1 DEF Paths, Here
<1> QED BY <1>2, <1>3 DEF Paths

LEMMA NextPaths == ASSUME IInv, Paths, [Next]_vars PROVE Paths'
<1>1. CASE UNCHANGED vars
  <2>1. UNCHANGED <<call, stack, path, plen, st, ep, pc>>
    BY <1>1 DEF vars, buffer
  <2>2. /\ Typed' /\ Chain' /\ Unseen' /\ Level' = Level /\ Stripped' = Stripped
        /\ \A k : Dir(k)' = Dir(k)
        /\ \A x : PathOf(x)' = PathOf(x)
    BY <2>1, SameKeeps DEF Paths, Typed
  <2>3. Here'
    BY <2>1, <2>2 DEF Paths, Here, AtDirpath, AtHand, LeftOver, Flag
  <2> QED BY <2>2, <2>3 DEF Paths
<1> QED
  BY <1>1, RefusePaths, OpenRootPaths, FilePaths, RootPaths, OpenDirPaths, ReadEndPaths,
     ReadEntryPaths, ReadFailsPaths, ClassifyPaths, FuncPaths, EnterPaths, ResumePaths,
     FinishPaths DEF Next

-----------------------------------------------------------------------------

(* Every level's directory stays in the buffer while the levels below it    *)
(* write there, and no entry still to be read has been looked at before.    *)
THEOREM PathsInductive == Spec => []Paths
<1>1. Init => Paths
  BY InitPaths
<1>2. IInv /\ Paths /\ [Next]_vars => Paths'
  BY NextPaths
<1> QED BY <1>1, <1>2, Inductive, PTL DEF Spec

(* The name of a single file has the length its entry has, but behind a     *)
(* slash that does not begin the path.                                      *)
LEMMA FileName ==
  ASSUME Paths, pc = "file", ~ \E k \in 2..Len(path) : path[k] = Slash
  PROVE  FileNameLen = Size[ep]
<1>1. path = Stripped /\ ep = path[Len(path)] /\ Kind[ep] # "dir" /\ call.dirpath # <<>>
  BY DEF Paths, Here, AtDirpath
<1>2. call.dirpath \in DirPaths /\ path \in Seq(Tokens)
  BY DEF Paths, Typed
<1>3. PICK m \in 1..Len(call.dirpath) : path = SubSeq(call.dirpath, 1, m)
  BY <1>1, <1>2, StrippedIs
<1>4. call.dirpath \in Seq(Tokens)
      /\ \A k \in 1..(Len(call.dirpath) - 1) : Slash \in {call.dirpath[k], call.dirpath[k + 1]}
  BY <1>2, PathsAssumption
<1>5. Len(path) = m /\ \A k \in 1..m : path[k] = call.dirpath[k]
  BY <1>3, <1>4
<1>6. ep # Slash
  BY <1>1, TreeAssumption
<1>7. m <= 2
  <2>1. SUFFICES ASSUME m > 2 PROVE FALSE
    BY <1>5
  <2>2. 2 \in 1..(Len(call.dirpath) - 1) /\ 2 \in 1..m /\ 3 \in 1..m /\ 2 + 1 = 3
    BY <1>4, <2>1
  <2>3. path[2] # Slash /\ path[3] # Slash
    BY <1>5, <2>1
  <2> QED BY <1>4, <1>5, <2>2, <2>3
<1>8. Size[ep] \in Nat /\ Size[Slash] = 1
  BY SizesAssumption DEF Paths, Typed
<1>9. PICK f : Sums(f, path, m) /\ Bytes(path) = f[m]
  BY <1>2, <1>5, BytesSums
<1>10. f[0] = 0 /\ f[1] = f[0] + Size[path[1]] /\ (m = 2 => f[2] = f[1] + Size[path[2]])
  BY <1>5, <1>7, <1>9 DEF Sums
<1>11. path[1] \in Tokens /\ 1 \in DOMAIN path
  BY <1>2, <1>5
<1>12. CASE m = 1
  <2>1. ep = path[1] /\ Bytes(path) = Size[ep]
    BY <1>1, <1>5, <1>8, <1>9, <1>10, <1>12
  <2>2. DOMAIN path = {1}
    BY <1>2, <1>5, <1>12
  <2> QED BY <1>6, <2>1, <2>2 DEF FileNameLen
<1>13. CASE m = 2
  <2>1. ep = path[2] /\ 1 \in 1..(Len(call.dirpath) - 1) /\ 1 \in 1..m /\ 2 \in 1..m /\ 1 + 1 = 2
    BY <1>1, <1>4, <1>5, <1>13
  <2>2. path[1] = Slash
    BY <1>4, <1>5, <1>6, <2>1
  <2>3. Bytes(path) = 1 + Size[ep]
    BY <1>8, <1>9, <1>10, <1>13, <2>1, <2>2
  <2> QED BY <1>8, <1>11, <2>2, <2>3 DEF FileNameLen
<1> QED BY <1>5, <1>7, <1>12, <1>13

(* OwnPath: FUNC is called with the path, its length and the status of the  *)
(* entry at hand, but for the exceptions OwnPath names, and no path is too  *)
(* long for its buffer by more than the terminator.                         *)
THEOREM CallbackGetsOwnPath == Spec => []OwnPath
<1>1. ASSUME IInv, Paths, pc \in {"func", "dirfunc"}
      PROVE  \/ path = Trail \o <<Slash, ep>> /\ plen = Len(path) /\ st = path
             \/ pc = "func" /\ st # PathOf(ep) /\ ~Flag("REG") /\ ~Flag("DIR")
  <2>1. Level # 0
    BY <1>1 DEF IInv, Descriptors, Running
  <2>2. Trail = Dir(Level)
    BY <1>1, <2>1, TrailIs DEF Paths
  <2>3. AtHand \/ (pc = "func" /\ LeftOver)
    BY <1>1 DEF Paths, Here
  <2> QED BY <2>2, <2>3 DEF AtHand, LeftOver, PathOf, Dir, Top
<1>2. IInv /\ Paths => OwnPath
  BY <1>1, FileName DEF OwnPath, Paths, Here
<1> QED BY <1>2, Inductive, PathsInductive, PTL

-----------------------------------------------------------------------------
(***************************************************************************)
(* What is visited.                                                        *)
(***************************************************************************)

(* The path of entry e of directory q; the name a path leads to.            *)
Ent(q, e) == q \o <<Slash, e>>
Leads(p) == p[Len(p)]

(* p is r, or a path below it. *)
Under(p, r) == Len(r) <= Len(p) /\ SubSeq(p, 1, Len(r)) = r

(* What a walk with the flags f sees of a directory.                        *)
Seen(f, d) == {m \in Entries[d] : ~(m \in Hidden /\ "NOHIDDEN" \in f)}

(* A walk from s looks into p, k levels down, when x is left out. *)
Passes(f, k, p, x) == k > 0 => "NOSUBDIR" \notin f /\ Kind[Leads(p)] = "dir" /\ p \notin x

(* p leads k levels down from s, through directories that are looked into. *)
Reached(s, f, p, k, x) ==
  /\ p \in Seq(Tokens) /\ Len(p) = Len(s) + 2 * k
  /\ SubSeq(p, 1, Len(s)) = s
  /\ \A j \in 0..(k - 1) :
       /\ p[Len(s) + 2 * j + 1] = Slash
       /\ p[Len(s) + 2 * j + 2] \in Seen(f, p[Len(s) + 2 * j])
       /\ Passes(f, j, SubSeq(p, 1, Len(s) + 2 * j), x)

(* Inside, of a walk from s with the flags f that leaves x out. *)
Tree(s, f, x) ==
  LET Listed(d) == {<<d[1] \o <<Slash, e>>, e>> :
                      e \in {m \in Entries[d[2]] : ~(m \in Hidden /\ "NOHIDDEN" \in f)}}
      At[k \in 1..PathMax] ==
        IF k = 1 THEN Listed(<<s, s[Len(s)]>>)
        ELSE IF "NOSUBDIR" \in f THEN {}
        ELSE UNION {Listed(d) : d \in {u \in At[k - 1] : Kind[u[2]] = "dir"
                                                          /\ u[1] \notin x}}
  IN  UNION {At[k] : k \in 1..PathMax}

(* Inside is the tree below DIRPATH, with the flags of the call. *)
LEMMA InsideIsTree == Inside = Tree(Stripped, call.flags, excused)
BY DEF Inside, Tree, Flag

LEMMA InsideIsTreeThen == Inside' = Tree(Stripped', call'.flags, excused')
BY DEF Inside, Tree, Flag

(* A path and what is appended to it. *)
LEMMA EntIs ==
  ASSUME NEW q \in Seq(Tokens), NEW e \in Tokens
  PROVE  /\ Ent(q, e) \in Seq(Tokens) /\ Len(Ent(q, e)) = Len(q) + 2
         /\ Ent(q, e)[Len(q) + 1] = Slash /\ Ent(q, e)[Len(q) + 2] = e /\ Leads(Ent(q, e)) = e
         /\ \A k \in 1..Len(q) : Ent(q, e)[k] = q[k]
         /\ \A m \in 0..Len(q) : SubSeq(Ent(q, e), 1, m) = SubSeq(q, 1, m)
<1> DEFINE r == q \o <<Slash, e>>
<1>1. Slash \in Tokens /\ Len(q) \in Nat
  BY DEF Tokens
<1>2. r \in Seq(Tokens) /\ Len(r) = Len(q) + 2 /\ r[Len(q) + 1] = Slash /\ r[Len(q) + 2] = e
      /\ \A k \in 1..Len(q) : r[k] = q[k]
  BY <1>1
<1> HIDE DEF r
<1>3. ASSUME NEW m \in 0..Len(q) PROVE SubSeq(r, 1, m) = SubSeq(q, 1, m)
  <2>1. SubSeq(r, 1, m) = [k \in 1..m |-> r[k]] /\ SubSeq(q, 1, m) = [k \in 1..m |-> q[k]]
    BY <1>1, <1>2
  <2>2. \A k \in 1..m : r[k] = q[k]
    BY <1>2
  <2> QED BY <2>1, <2>2
<1>4. r[Len(r)] = e
  BY <1>2
<1> QED BY <1>2, <1>3, <1>4 DEF r, Ent, Leads

(* A beginning of a path. *)
LEMMA CutIs ==
  ASSUME NEW p \in Seq(Tokens), NEW m \in 0..Len(p)
  PROVE  /\ SubSeq(p, 1, m) \in Seq(Tokens) /\ Len(SubSeq(p, 1, m)) = m
         /\ \A k \in 1..m : SubSeq(p, 1, m)[k] = p[k]
         /\ \A l \in 0..m : SubSeq(SubSeq(p, 1, m), 1, l) = SubSeq(p, 1, l)
         /\ SubSeq(p, 1, Len(p)) = p
<1> DEFINE q == SubSeq(p, 1, m)
<1>1. q \in Seq(Tokens) /\ Len(q) = m /\ \A k \in 1..m : q[k] = p[k]
  OBVIOUS
<1> HIDE DEF q
<1>2. ASSUME NEW l \in 0..m PROVE SubSeq(q, 1, l) = SubSeq(p, 1, l)
  <2>1. SubSeq(q, 1, l) = [k \in 1..l |-> q[k]] /\ SubSeq(p, 1, l) = [k \in 1..l |-> p[k]]
    BY <1>1
  <2>2. \A k \in 1..l : q[k] = p[k]
    BY <1>1
  <2> QED BY <2>1, <2>2
<1>3. SubSeq(p, 1, Len(p)) = p
  OBVIOUS
<1> QED BY <1>1, <1>2, <1>3 DEF q

(* Under is an order. *)
LEMMA UnderTrans ==
  ASSUME NEW p \in Seq(Tokens), NEW q \in Seq(Tokens), NEW r \in Seq(Tokens),
         Under(p, q), Under(q, r)
  PROVE  Under(p, r)
<1>1. Len(p) \in Nat /\ Len(q) \in Nat /\ Len(r) \in Nat /\ Len(r) <= Len(q) /\ Len(q) <= Len(p)
  BY DEF Under
<1>2. SubSeq(SubSeq(p, 1, Len(q)), 1, Len(r)) = SubSeq(p, 1, Len(r))
  BY <1>1, CutIs
<1> QED BY <1>1, <1>2 DEF Under

LEMMA UnderSelf == ASSUME NEW p \in Seq(Tokens) PROVE Under(p, p)
BY CutIs DEF Under

(* An entry is under the directory it is in. *)
LEMMA UnderEnt ==
  ASSUME NEW q \in Seq(Tokens), NEW e \in Tokens
  PROVE  Under(Ent(q, e), q)
<1>1. Len(q) \in Nat /\ Len(q) \in 0..Len(q)
  OBVIOUS
<1>2. Len(Ent(q, e)) = Len(q) + 2 /\ SubSeq(Ent(q, e), 1, Len(q)) = SubSeq(q, 1, Len(q))
  BY <1>1, EntIs
<1>3. SubSeq(q, 1, Len(q)) = q
  BY <1>1, CutIs
<1> QED BY <1>1, <1>2, <1>3 DEF Under

(* Paths of one length are under each other when they are the same. *)
LEMMA UnderSame ==
  ASSUME NEW p \in Seq(Tokens), NEW r, Under(p, r), Len(p) = Len(r)
  PROVE  p = r
BY CutIs DEF Under

(* What is two names longer is an entry. *)
LEMMA EntSplit ==
  ASSUME NEW p \in Seq(Tokens), NEW m \in Nat, Len(p) >= m + 2, p[m + 1] = Slash
  PROVE  /\ p[m + 2] \in Tokens
         /\ SubSeq(p, 1, m + 2) = Ent(SubSeq(p, 1, m), p[m + 2])
<1> DEFINE q == SubSeq(p, 1, m)
           r == SubSeq(p, 1, m + 2)
           e == p[m + 2]
<1>1. e \in Tokens /\ m \in 0..Len(p) /\ m + 2 \in 0..Len(p)
  OBVIOUS
<1>2. q \in Seq(Tokens) /\ Len(q) = m /\ \A k \in 1..m : q[k] = p[k]
  BY <1>1, CutIs
<1>3. r \in Seq(Tokens) /\ Len(r) = m + 2 /\ \A k \in 1..(m + 2) : r[k] = p[k]
  BY <1>1, CutIs
<1> HIDE DEF q, r, e
<1>4. Ent(q, e) \in Seq(Tokens) /\ Len(Ent(q, e)) = m + 2
      /\ Ent(q, e)[m + 1] = Slash /\ Ent(q, e)[m + 2] = e
      /\ \A k \in 1..m : Ent(q, e)[k] = q[k]
  BY <1>1, <1>2, EntIs
<1>5. ASSUME NEW k \in 1..(m + 2) PROVE r[k] = Ent(q, e)[k]
  <2>1. CASE k \in 1..m
    BY <1>2, <1>3, <1>4, <2>1
  <2>2. CASE k = m + 1
    BY <1>3, <1>4, <2>2
  <2>3. CASE k = m + 2
    BY <1>3, <1>4, <2>3 DEF e
  <2> QED BY <2>1, <2>2, <2>3
<1>6. r = Ent(q, e)
  <2>1. r = [k \in 1..(m + 2) |-> r[k]] /\ Ent(q, e) = [k \in 1..(m + 2) |-> Ent(q, e)[k]]
    BY <1>3, <1>4
  <2> QED BY <1>5, <2>1
<1> QED BY <1>1, <1>6 DEF q, r, e

-----------------------------------------------------------------------------
(* What is reached, one entry at a time.                                    *)

(* FUNC is asked for things of this kind. *)
Asks(f, kind) ==
  \/ "REG" \notin f /\ "DIR" \notin f
  \/ "REG" \in f /\ kind = "reg"
  \/ "DIR" \in f /\ kind = "dir"

(* p is in the tree. *)
Lies(s, f, p, x) == \E k \in 1..PathMax : Reached(s, f, p, k, x)

(* The entries a walk sees are entries. *)
LEMMA SeenIs ==
  ASSUME NEW f, NEW d \in Tokens, NEW e \in Seen(f, d)
  PROVE  e \in Tokens /\ e \in Entries[d]
BY TreeAssumption DEF Seen, Tokens

(* The directories a path leads through. *)
LEMMA ReachedCut ==
  ASSUME NEW s \in Seq(Tokens), s # <<>>, NEW f, NEW x, NEW p \in Seq(Tokens),
         NEW k \in Nat, NEW j \in Nat, j <= k, Reached(s, f, p, k, x)
  PROVE  LET c == SubSeq(p, 1, Len(s) + 2 * j)
         IN  /\ c \in Seq(Tokens) /\ Len(c) = Len(s) + 2 * j /\ Leads(c) \in Tokens
             /\ Reached(s, f, c, j, x)
             /\ j # k => /\ Passes(f, j, c, x)
                         /\ p[Len(s) + 2 * j + 1] = Slash
                         /\ p[Len(s) + 2 * j + 2] \in Seen(f, Leads(c))
<1> DEFINE n == Len(s) + 2 * j
           c == SubSeq(p, 1, n)
<1>1. /\ Len(s) \in Nat \ {0} /\ n \in Nat \ {0} /\ n = Len(s) + 2 * j
      /\ Len(p) = Len(s) + 2 * k /\ n \in 0..Len(p) /\ SubSeq(p, 1, Len(s)) = s
  BY DEF Reached
<1> HIDE DEF n
<1>2. /\ c \in Seq(Tokens) /\ Len(c) = n /\ \A i \in 1..n : c[i] = p[i]
      /\ \A l \in 0..n : SubSeq(c, 1, l) = SubSeq(p, 1, l)
  BY <1>1, CutIs
<1> HIDE DEF c
<1>3. Leads(c) = p[n] /\ Leads(c) \in Tokens
  BY <1>1, <1>2 DEF Leads
<1>4. ASSUME NEW i \in 0..(k - 1)
      PROVE  /\ p[Len(s) + 2 * i + 1] = Slash
             /\ p[Len(s) + 2 * i + 2] \in Seen(f, p[Len(s) + 2 * i])
             /\ Passes(f, i, SubSeq(p, 1, Len(s) + 2 * i), x)
  BY DEF Reached
<1>5. ASSUME NEW i \in 0..(j - 1)
      PROVE  /\ c[Len(s) + 2 * i + 1] = Slash
             /\ c[Len(s) + 2 * i + 2] \in Seen(f, c[Len(s) + 2 * i])
             /\ Passes(f, i, SubSeq(c, 1, Len(s) + 2 * i), x)
  <2>1. i \in 0..(k - 1)
    BY <1>1
  <2>2. /\ c[Len(s) + 2 * i + 1] = p[Len(s) + 2 * i + 1]
        /\ c[Len(s) + 2 * i + 2] = p[Len(s) + 2 * i + 2]
        /\ c[Len(s) + 2 * i] = p[Len(s) + 2 * i]
    <3>1. /\ Len(s) + 2 * i + 1 \in 1..n /\ Len(s) + 2 * i + 2 \in 1..n
          /\ Len(s) + 2 * i \in 1..n
      BY <1>1
    <3> QED BY <1>2, <3>1
  <2>3. SubSeq(c, 1, Len(s) + 2 * i) = SubSeq(p, 1, Len(s) + 2 * i)
    <3>1. Len(s) + 2 * i \in 0..n
      BY <1>1
    <3> QED BY <1>2, <3>1
  <2> QED BY <1>4, <2>1, <2>2, <2>3
<1>6. SubSeq(c, 1, Len(s)) = s
  BY <1>1, <1>2
<1>7. Reached(s, f, c, j, x)
  BY <1>1, <1>2, <1>5, <1>6 DEF Reached
<1>8. ASSUME j # k
      PROVE  Passes(f, j, c, x) /\ p[n + 1] = Slash /\ p[n + 2] \in Seen(f, Leads(c))
  <2>1. j \in 0..(k - 1)
    BY <1>8
  <2> QED BY <1>1, <1>3, <1>4, <2>1 DEF c
<1> QED BY <1>1, <1>2, <1>3, <1>7, <1>8 DEF c, n

(* No level down there is only s. *)
LEMMA ReachedNone ==
  ASSUME NEW s \in Seq(Tokens), NEW f, NEW x, NEW p \in Seq(Tokens)
  PROVE  Reached(s, f, p, 0, x) <=> p = s
<1>1. Len(s) \in Nat /\ Len(s) + 2 * 0 = Len(s) /\ 0..(0 - 1) = {} /\ SubSeq(s, 1, Len(s)) = s
      /\ SubSeq(p, 1, Len(p)) = p
  OBVIOUS
<1> QED BY <1>1 DEF Reached

(* An entry of a directory that is reached and looked into. *)
LEMMA ReachedNext ==
  ASSUME NEW s \in Seq(Tokens), s # <<>>, NEW f, NEW x, NEW q \in Seq(Tokens),
         NEW k \in Nat, Reached(s, f, q, k, x), Passes(f, k, q, x),
         NEW e \in Tokens, e \in Seen(f, Leads(q))
  PROVE  Reached(s, f, Ent(q, e), k + 1, x)
<1> DEFINE p == Ent(q, e)
<1>1. Len(s) \in Nat \ {0} /\ Len(q) \in Nat /\ Len(q) = Len(s) + 2 * k /\ SubSeq(q, 1, Len(s)) = s
  BY DEF Reached
<1>2. /\ p \in Seq(Tokens) /\ Len(p) = Len(q) + 2 /\ p[Len(q) + 1] = Slash /\ p[Len(q) + 2] = e
      /\ \A i \in 1..Len(q) : p[i] = q[i]
      /\ \A m \in 0..Len(q) : SubSeq(p, 1, m) = SubSeq(q, 1, m)
  BY EntIs
<1> HIDE DEF p
<1>3. Len(p) = Len(s) + 2 * (k + 1)
  BY <1>1, <1>2
<1>4. SubSeq(p, 1, Len(s)) = s
  BY <1>1, <1>2
<1>5. ASSUME NEW i \in 0..((k + 1) - 1)
      PROVE  /\ p[Len(s) + 2 * i + 1] = Slash
             /\ p[Len(s) + 2 * i + 2] \in Seen(f, p[Len(s) + 2 * i])
             /\ Passes(f, i, SubSeq(p, 1, Len(s) + 2 * i), x)
  <2>1. /\ Len(s) + 2 * i \in 1..Len(q) /\ Len(s) + 2 * i \in 0..Len(q)
    BY <1>1
  <2>2. p[Len(s) + 2 * i] = q[Len(s) + 2 * i]
        /\ SubSeq(p, 1, Len(s) + 2 * i) = SubSeq(q, 1, Len(s) + 2 * i)
    BY <1>2, <2>1
  <2>3. CASE i = k
    <3>1. Len(s) + 2 * i = Len(q) /\ SubSeq(q, 1, Len(q)) = q
      BY <1>1, <2>3
    <3> QED BY <1>2, <2>2, <2>3, <3>1 DEF Leads
  <2>4. CASE i # k
    <3>1. i \in 0..(k - 1)
      BY <2>4
    <3>2. Len(s) + 2 * i + 1 \in 1..Len(q) /\ Len(s) + 2 * i + 2 \in 1..Len(q)
      BY <1>1, <3>1
    <3>3. /\ q[Len(s) + 2 * i + 1] = Slash
          /\ q[Len(s) + 2 * i + 2] \in Seen(f, q[Len(s) + 2 * i])
          /\ Passes(f, i, SubSeq(q, 1, Len(s) + 2 * i), x)
      BY <3>1 DEF Reached
    <3> QED BY <1>2, <2>2, <3>2, <3>3
  <2> QED BY <2>3, <2>4
<1> QED BY <1>2, <1>3, <1>4, <1>5 DEF Reached, p

(* What is reached is an entry of a directory that is reached and looked    *)
(* into.                                                                    *)
LEMMA ReachedLast ==
  ASSUME NEW s \in Seq(Tokens), s # <<>>, NEW f, NEW x, NEW p \in Seq(Tokens),
         NEW k \in Nat, Reached(s, f, p, k + 1, x)
  PROVE  \E q \in Seq(Tokens) : \E e \in Tokens :
           /\ Reached(s, f, q, k, x) /\ Passes(f, k, q, x) /\ e \in Seen(f, Leads(q))
           /\ Leads(q) \in Tokens /\ p = Ent(q, e)
<1> DEFINE n == Len(s) + 2 * k
           c == SubSeq(p, 1, n)
           e == p[n + 2]
<1>1. n \in Nat /\ Len(p) = n + 2
  BY DEF Reached
<1>2. PICK l \in Nat : l = k + 1
  OBVIOUS
<1>9. k <= l /\ k # l /\ Reached(s, f, p, l, x)
  BY <1>2
<1>3. /\ c \in Seq(Tokens) /\ Leads(c) \in Tokens /\ Reached(s, f, c, k, x) /\ Passes(f, k, c, x)
      /\ p[n + 1] = Slash /\ e \in Seen(f, Leads(c))
  <2>1. /\ c \in Seq(Tokens) /\ Leads(c) \in Tokens /\ Reached(s, f, c, k, x)
    BY <1>9, ReachedCut
  <2>2. Passes(f, k, c, x) /\ p[n + 1] = Slash
    BY <1>9, ReachedCut
  <2>3. e \in Seen(f, Leads(c))
    BY <1>9, ReachedCut
  <2> QED BY <2>1, <2>2, <2>3
<1>10. Len(p) >= n + 2 /\ n + 2 \in Nat
  BY <1>1
<1>4. e \in Tokens /\ SubSeq(p, 1, n + 2) = Ent(c, e)
  BY <1>1, <1>3, <1>10, EntSplit
<1>5. p = Ent(c, e)
  BY <1>1, <1>4, CutIs
<1> QED BY <1>3, <1>4, <1>5

(* What lies under an entry: the entry, or something under one of its own. *)
LEMMA ReachedBelow ==
  ASSUME NEW s \in Seq(Tokens), s # <<>>, NEW f, NEW x, NEW p \in Seq(Tokens),
         NEW k \in Nat, Reached(s, f, p, k, x),
         NEW d \in Seq(Tokens), NEW j \in Nat, Len(d) = Len(s) + 2 * j,
         NEW e \in Tokens, Under(p, Ent(d, e))
  PROVE  /\ e \in Seen(f, Leads(d))
         /\ p # Ent(d, e) =>
              /\ Passes(f, j + 1, Ent(d, e), x)
              /\ \E m \in Tokens : m \in Seen(f, e) /\ Under(p, Ent(Ent(d, e), m))
<1> DEFINE r == Ent(d, e)
<1>1. /\ r \in Seq(Tokens) /\ Len(r) = Len(d) + 2 /\ r[Len(d) + 2] = e /\ Leads(r) = e
      /\ \A m \in 0..Len(d) : SubSeq(r, 1, m) = SubSeq(d, 1, m)
  BY EntIs
<1>2. Len(r) <= Len(p) /\ SubSeq(p, 1, Len(r)) = r
  BY DEF Under
<1> HIDE DEF r
<1>3. Len(s) \in Nat \ {0} /\ Len(p) = Len(s) + 2 * k /\ Len(d) \in Nat /\ Len(r) \in Nat
      /\ Len(r) \in 0..Len(p) /\ Len(d) \in 0..Len(r) /\ Len(d) \in 0..Len(d)
  BY <1>1, <1>2 DEF Reached
<1>4. j < k /\ j # k /\ j <= k /\ j + 1 <= k
  BY <1>1, <1>2, <1>3
<1>5. SubSeq(p, 1, Len(d)) = d
  <2>1. SubSeq(SubSeq(p, 1, Len(r)), 1, Len(d)) = SubSeq(p, 1, Len(d))
    BY <1>3, CutIs
  <2>2. SubSeq(r, 1, Len(d)) = SubSeq(d, 1, Len(d)) /\ SubSeq(d, 1, Len(d)) = d
    BY <1>1, <1>3, CutIs
  <2> QED BY <1>2, <2>1, <2>2
<1>6. p[Len(d) + 2] = e
  <2>1. Len(d) + 2 \in 1..Len(r)
    BY <1>1, <1>3
  <2>2. SubSeq(p, 1, Len(r))[Len(d) + 2] = p[Len(d) + 2]
    BY <1>3, <2>1, CutIs
  <2> QED BY <1>1, <1>2, <2>2
<1>7. e \in Seen(f, Leads(d))
  <2>1. p[Len(s) + 2 * j + 2] \in Seen(f, Leads(SubSeq(p, 1, Len(s) + 2 * j)))
    BY <1>4, ReachedCut
  <2> QED BY <1>5, <1>6, <2>1
<1>8. ASSUME p # r
      PROVE  /\ Passes(f, j + 1, r, x)
             /\ \E m \in Tokens : m \in Seen(f, e) /\ Under(p, Ent(r, m))
  <2>1. Len(s) + 2 * (j + 1) = Len(r) /\ j + 1 \in Nat
    BY <1>1, <1>3
  <2>2. j + 1 # k
    <3>1. Len(p) # Len(r)
      BY <1>2, <1>8, CutIs
    <3> QED BY <1>3, <2>1, <3>1
  <2>3. /\ Passes(f, j + 1, SubSeq(p, 1, Len(s) + 2 * (j + 1)), x)
        /\ p[Len(s) + 2 * (j + 1) + 1] = Slash
        /\ p[Len(s) + 2 * (j + 1) + 2] \in Seen(f, Leads(SubSeq(p, 1, Len(s) + 2 * (j + 1))))
    <3>1. PICK l \in Nat : l = j + 1
      BY <2>1
    <3>2. l <= k /\ l # k
      BY <1>4, <2>2, <3>1
    <3> DEFINE c == SubSeq(p, 1, Len(s) + 2 * l)
    <3>3. Passes(f, l, c, x) /\ p[Len(s) + 2 * l + 1] = Slash
      BY <3>2, ReachedCut
    <3>4. p[Len(s) + 2 * l + 2] \in Seen(f, Leads(c))
      BY <3>2, ReachedCut
    <3> QED BY <3>1, <3>3, <3>4
  <2>4. /\ Passes(f, j + 1, r, x) /\ p[Len(r) + 1] = Slash /\ p[Len(r) + 2] \in Seen(f, e)
    BY <1>1, <1>2, <2>1, <2>3
  <2>5. Len(p) >= Len(r) + 2
    BY <1>3, <1>4, <2>1, <2>2
  <2>6. p[Len(r) + 2] \in Tokens /\ SubSeq(p, 1, Len(r) + 2) = Ent(r, p[Len(r) + 2])
    BY <1>2, <1>3, <2>4, <2>5, EntSplit
  <2>7. Len(Ent(r, p[Len(r) + 2])) = Len(r) + 2
    BY <1>1, <2>6, EntIs
  <2>8. Under(p, Ent(r, p[Len(r) + 2]))
    BY <2>5, <2>6, <2>7 DEF Under
  <2> QED BY <2>4, <2>6, <2>8
<1> QED BY <1>7, <1>8 DEF r

(* What is reached under an entry, and is not the entry, is under one of    *)
(* its entries.                                                             *)
LEMMA ReachedChild ==
  ASSUME NEW s \in Seq(Tokens), s # <<>>, NEW f, NEW x, NEW p \in Seq(Tokens),
         NEW k \in Nat, Reached(s, f, p, k, x),
         NEW d \in Seq(Tokens), NEW j \in Nat, Len(d) = Len(s) + 2 * j,
         NEW e \in Tokens, Under(p, Ent(d, e)), p # Ent(d, e)
  PROVE  \E m \in Tokens : m \in Seen(f, e) /\ Under(p, Ent(Ent(d, e), m))
BY ReachedBelow

(* The same, of what lies in the tree. *)
LEMMA LiesBelow ==
  ASSUME NEW s \in Seq(Tokens), s # <<>>, NEW f, NEW x, NEW p \in Seq(Tokens), Lies(s, f, p, x),
         NEW d \in Seq(Tokens), NEW j \in Nat, Len(d) = Len(s) + 2 * j,
         NEW e \in Tokens, Under(p, Ent(d, e)), p # Ent(d, e)
  PROVE  \E m \in Entries[e] : Under(p, Ent(Ent(d, e), m))
<1>1. PICK k \in Nat : Reached(s, f, p, k, x)
  BY DEF Lies
<1>2. PICK m \in Tokens : m \in Seen(f, e) /\ Under(p, Ent(Ent(d, e), m))
  BY <1>1, ReachedChild
<1> QED BY <1>2, SeenIs

(* d is k levels below s. *)
Deep(s, d, k) == Len(d) = Len(s) + 2 * k

(* The same, of all paths at once. *)
LEMMA AllBelow ==
  ASSUME NEW s \in Seq(Tokens), s # <<>>, NEW f,
         NEW d \in Seq(Tokens), NEW k \in Nat, Deep(s, d, k), NEW e \in Tokens
  PROVE  \A p \in Seq(Tokens) : \A x :
           Lies(s, f, p, x) /\ Under(p, Ent(d, e)) /\ p # Ent(d, e)
             => \E m \in Entries[e] : Under(p, Ent(Ent(d, e), m))
BY LiesBelow DEF Deep

(* More is left out. *)
LEMMA ReachedMore ==
  ASSUME NEW s, NEW f, NEW x, NEW y, x \subseteq y, NEW p, NEW k, Reached(s, f, p, k, y)
  PROVE  Reached(s, f, p, k, x)
BY DEF Reached, Passes

(* What is left out now is not on the way. *)
LEMMA ReachedLess ==
  ASSUME NEW s \in Seq(Tokens), NEW f, NEW x, NEW y, NEW p \in Seq(Tokens), NEW k \in Nat,
         Reached(s, f, p, k, x), \A q \in y \ x : Under(p, q) => q = p
  PROVE  Reached(s, f, p, k, y)
<1>1. Len(s) \in Nat /\ Len(p) = Len(s) + 2 * k /\ SubSeq(p, 1, Len(s)) = s
  BY DEF Reached
<1>2. ASSUME NEW j \in 0..(k - 1)
      PROVE  SubSeq(p, 1, Len(s) + 2 * j) \notin y \ x
  <2> DEFINE c == SubSeq(p, 1, Len(s) + 2 * j)
  <2>1. Len(s) + 2 * j \in 0..Len(p) /\ Len(s) + 2 * j # Len(p)
    BY <1>1
  <2>2. Len(c) = Len(s) + 2 * j
    BY <2>1, CutIs
  <2>3. c # p /\ Under(p, c)
    BY <2>1, <2>2 DEF Under
  <2> QED BY <2>3
<1>3. ASSUME NEW j \in 0..(k - 1)
      PROVE  /\ p[Len(s) + 2 * j + 1] = Slash
             /\ p[Len(s) + 2 * j + 2] \in Seen(f, p[Len(s) + 2 * j])
             /\ Passes(f, j, SubSeq(p, 1, Len(s) + 2 * j), y)
  <2>1. /\ p[Len(s) + 2 * j + 1] = Slash
        /\ p[Len(s) + 2 * j + 2] \in Seen(f, p[Len(s) + 2 * j])
        /\ Passes(f, j, SubSeq(p, 1, Len(s) + 2 * j), x)
    BY DEF Reached
  <2> QED BY <1>2, <2>1 DEF Passes
<1> QED BY <1>1, <1>3 DEF Reached

(* The paths that lie in the tree are those Inside lists. *)
LEMMA TreeIs ==
  ASSUME NEW s \in Seq(Tokens), s # <<>>, NEW f, NEW x
  PROVE  Tree(s, f, x) = {<<p, Leads(p)>> : p \in {q \in Seq(Tokens) : Lies(s, f, q, x)}}
<1> DEFINE Listed(d) == {<<d[1] \o <<Slash, e>>, e>> :
                           e \in {m \in Entries[d[2]] : ~(m \in Hidden /\ "NOHIDDEN" \in f)}}
           Follows(a) ==
             a = [k \in 1..PathMax |->
                    IF k = 1 THEN Listed(<<s, s[Len(s)]>>)
                    ELSE IF "NOSUBDIR" \in f THEN {}
                    ELSE UNION {Listed(d) : d \in {u \in a[k - 1] : Kind[u[2]] = "dir"
                                                                     /\ u[1] \notin x}}]
           At == CHOOSE a : Follows(a)
           Ways(k) == {q \in Seq(Tokens) : Reached(s, f, q, k, x)}
           w == [k \in 1..PathMax |-> {<<p, Leads(p)>> : p \in Ways(k)}]
<1>1. PathMax \in Nat
  BY SizesAssumption
<1>2. Tree(s, f, x) = UNION {At[k] : k \in 1..PathMax}
  BY Zenon DEF Tree
<1>3. \A q : Listed(<<q, Leads(q)>>) = {<<Ent(q, e), e>> : e \in Seen(f, Leads(q))}
  BY DEF Seen, Ent
<1> HIDE DEF Listed
<1>4. ASSUME NEW k \in Nat
      PROVE  {<<p, Leads(p)>> : p \in Ways(k + 1)}
             = UNION {Listed(<<q, Leads(q)>>) : q \in {c \in Ways(k) : Passes(f, k, c, x)}}
  <2>1. ASSUME NEW p \in Ways(k + 1)
        PROVE  \E q \in Ways(k) : Passes(f, k, q, x) /\ <<p, Leads(p)>> \in Listed(<<q, Leads(q)>>)
    <3>1. PICK q \in Seq(Tokens), e \in Tokens :
            /\ Reached(s, f, q, k, x) /\ Passes(f, k, q, x) /\ e \in Seen(f, Leads(q))
            /\ p = Ent(q, e)
      BY ReachedLast
    <3>2. Leads(p) = e
      BY <3>1, EntIs
    <3> QED BY <1>3, <3>1, <3>2
  <2>2. ASSUME NEW q \in Ways(k), Passes(f, k, q, x), NEW u \in Listed(<<q, Leads(q)>>)
        PROVE  \E p \in Ways(k + 1) : u = <<p, Leads(p)>>
    <3>1. PICK e \in Seen(f, Leads(q)) : u = <<Ent(q, e), e>>
      BY <1>3, <2>2
    <3>2. Leads(q) \in Tokens
      <4>1. Len(q) \in 1..Len(q)
        BY DEF Reached
      <4> QED BY <4>1 DEF Leads
    <3>3. e \in Tokens
      BY <3>2, SeenIs
    <3>4. Reached(s, f, Ent(q, e), k + 1, x) /\ Ent(q, e) \in Seq(Tokens) /\ Leads(Ent(q, e)) = e
      BY <2>2, <3>3, ReachedNext, EntIs
    <3> QED BY <3>1, <3>4
  <2> HIDE DEF Ways
  <2>3. ASSUME NEW u
        PROVE  u \in {<<p, Leads(p)>> : p \in Ways(k + 1)}
               <=> u \in UNION {Listed(<<q, Leads(q)>>) : q \in {c \in Ways(k) : Passes(f, k, c, x)}}
    <3>1. u \in {<<p, Leads(p)>> : p \in Ways(k + 1)} <=> \E p \in Ways(k + 1) : u = <<p, Leads(p)>>
      OBVIOUS
    <3>2. u \in UNION {Listed(<<q, Leads(q)>>) : q \in {c \in Ways(k) : Passes(f, k, c, x)}}
          <=> \E q \in Ways(k) : Passes(f, k, q, x) /\ u \in Listed(<<q, Leads(q)>>)
      OBVIOUS
    <3> QED BY <2>1, <2>2, <3>1, <3>2
  <2> QED BY <2>3
<1>5. \A c : c \in Ways(0) <=> c = s
  BY ReachedNone
<1> HIDE DEF Ways
<1>6. ASSUME NEW k \in 1..PathMax
      PROVE  w[k] = IF k = 1 THEN Listed(<<s, s[Len(s)]>>)
                    ELSE IF "NOSUBDIR" \in f THEN {}
                    ELSE UNION {Listed(d) : d \in {u \in w[k - 1] : Kind[u[2]] = "dir"
                                                                     /\ u[1] \notin x}}
  <2>1. PICK j \in Nat : j + 1 = k /\ j = k - 1
    BY <1>1
  <2>2. w[k] = UNION {Listed(<<q, Leads(q)>>) : q \in {c \in Ways(j) : Passes(f, j, c, x)}}
    BY <1>4, <2>1
  <2>3. CASE k = 1
    <3>1. \A c : c \in {b \in Ways(j) : Passes(f, j, b, x)} <=> c = s
      BY <1>5, <2>1, <2>3 DEF Passes
    <3>2. {c \in Ways(j) : Passes(f, j, c, x)} = {s}
      BY <3>1
    <3>4. w[k] = Listed(<<s, Leads(s)>>)
      BY <2>2, <3>2
    <3> QED BY <2>3, <3>4 DEF Leads
  <2>4. CASE k # 1
    <3>1. j \in 1..PathMax /\ j > 0 /\ w[j] = {<<p, Leads(p)>> : p \in Ways(j)}
      BY <1>1, <2>1, <2>4
    <3> HIDE DEF w
    <3>2. CASE "NOSUBDIR" \in f
      <4>1. {c \in Ways(j) : Passes(f, j, c, x)} = {}
        BY <3>1, <3>2 DEF Passes
      <4>2. w[k] = {}
        BY <2>2, <4>1
      <4> QED BY <2>4, <3>2, <4>2
    <3>3. CASE "NOSUBDIR" \notin f
      <4>1. {u \in w[j] : Kind[u[2]] = "dir" /\ u[1] \notin x}
            = {<<c, Leads(c)>> : c \in {b \in Ways(j) : Passes(f, j, b, x)}}
        BY <3>1, <3>3 DEF Passes
      <4>2. w[k] = UNION {Listed(d) : d \in {u \in w[j] : Kind[u[2]] = "dir" /\ u[1] \notin x}}
        BY <2>2, <4>1
      <4> QED BY <2>1, <2>4, <3>3, <4>2
    <3> QED BY <3>2, <3>3
  <2> QED BY <2>3, <2>4
<1>7. Follows(w)
  BY <1>6
<1>8. Follows(At)
  BY <1>7, Zenon
<1> HIDE DEF At
<1>9. \A k \in 1..PathMax :
        At[k] = IF k = 1 THEN Listed(<<s, s[Len(s)]>>)
                ELSE IF "NOSUBDIR" \in f THEN {}
                ELSE UNION {Listed(d) : d \in {u \in At[k - 1] : Kind[u[2]] = "dir"
                                                                  /\ u[1] \notin x}}
  BY <1>8
<1> DEFINE S == {n \in Nat : n + 1 <= PathMax => At[n + 1] = w[n + 1]}
<1> HIDE DEF w
<1>10. 0 \in S
  <2> SUFFICES ASSUME 1 <= PathMax PROVE At[1] = w[1]
    OBVIOUS
  <2>1. 1 \in 1..PathMax
    BY <1>1
  <2> QED BY <1>6, <1>9, <2>1
<1>11. ASSUME NEW n \in Nat, n \in S PROVE n + 1 \in S
  <2> SUFFICES ASSUME (n + 1) + 1 <= PathMax PROVE At[(n + 1) + 1] = w[(n + 1) + 1]
    OBVIOUS
  <2>1. PICK k \in 1..PathMax : k = (n + 1) + 1
    BY <1>1
  <2>2. k # 1 /\ k - 1 = n + 1
    BY <2>1
  <2>3. At[k - 1] = w[k - 1]
    BY <1>1, <1>11, <2>2
  <2> DEFINE Next2(a) == IF "NOSUBDIR" \in f THEN {}
                         ELSE UNION {Listed(d) : d \in {u \in a : Kind[u[2]] = "dir" /\ u[1] \notin x}}
  <2>4. At[k] = Next2(At[k - 1])
    BY <1>9, <2>2
  <2>5. w[k] = Next2(w[k - 1])
    BY <1>6, <2>2
  <2> HIDE DEF Next2
  <2> QED BY <2>1, <2>3, <2>4, <2>5
<1> HIDE DEF S
<1>12. \A n \in Nat : n \in S
  BY <1>10, <1>11, Induction
<1>13. ASSUME NEW k \in 1..PathMax PROVE At[k] = {<<p, Leads(p)>> : p \in Ways(k)}
  <2>1. k - 1 \in Nat /\ (k - 1) + 1 = k
    BY <1>1
  <2>2. At[k] = w[k]
    BY <1>1, <1>12, <2>1 DEF S
  <2> QED BY <2>2 DEF w
<1>14. ASSUME NEW u
       PROVE  u \in Tree(s, f, x)
              <=> \E p \in Seq(Tokens) : Lies(s, f, p, x) /\ u = <<p, Leads(p)>>
  <2>1. u \in Tree(s, f, x) <=> \E k \in 1..PathMax : \E p \in Ways(k) : u = <<p, Leads(p)>>
    BY <1>2, <1>13
  <2> QED BY <2>1 DEF Lies, Ways
<1> QED BY <1>14

-----------------------------------------------------------------------------
(* The books of a walk: what is left to do is untouched, what was visited   *)
(* lies in the tree and was asked for, and what was asked for and is not    *)
(* visited or left out is left to do.                                       *)

(* Nothing that was visited or left out is in t, or below something in t.   *)
Untouched(v, x, t) == \A p \in v \cup x : \A r \in t : ~Under(p, r)

(* p is to be visited. *)
Rightly(s, f, p, x) == Lies(s, f, p, x) /\ Asks(f, Kind[Leads(p)])

(* Of a walk from s, called self to FUNC: v is visited, x left out and t    *)
(* left to do.                                                              *)
Book(s, f, self, v, x, t) ==
  /\ v \subseteq Seq(Tokens) /\ x \subseteq Seq(Tokens) /\ t \subseteq Seq(Tokens)
  /\ Untouched(v, x, t)
  /\ \A p \in v : p = self \/ Rightly(s, f, p, x)
  /\ \A p \in Seq(Tokens) : Rightly(s, f, p, x) /\ p \notin v \cup x => \E r \in t : Under(p, r)

(* A step: v2 is visited, x2 left out and t2 left to do after it. *)
LEMMA BookStep ==
  ASSUME NEW s \in Seq(Tokens), NEW f, NEW self, NEW v, NEW x, NEW t, NEW v2, NEW x2, NEW t2,
         Book(s, f, self, v, x, t), v \subseteq v2, x \subseteq x2,
         v2 \subseteq Seq(Tokens), x2 \subseteq Seq(Tokens), t2 \subseteq Seq(Tokens),
         \A r \in t2 : \E q \in t : Under(r, q),
         \A p \in (v2 \ v) \cup (x2 \ x) : \A r \in t2 : ~Under(p, r),
         \A p \in v2 \ v : Rightly(s, f, p, x2),
         \A p \in v : \A q \in x2 \ x : Under(p, q) => q = p,
         \A p \in Seq(Tokens) : \A r \in t :
           Rightly(s, f, p, x2) /\ p \notin v2 \cup x2 /\ Under(p, r)
             => \E q \in t2 : Under(p, q)
  PROVE  Book(s, f, self, v2, x2, t2)
<1>1. Untouched(v2, x2, t2)
  <2> SUFFICES ASSUME NEW p \in v2 \cup x2, NEW r \in t2, Under(p, r) PROVE FALSE
    BY DEF Untouched
  <2>1. p \in v \cup x
    OBVIOUS
  <2>2. PICK q \in t : Under(r, q)
    OBVIOUS
  <2>3. p \in Seq(Tokens) /\ q \in Seq(Tokens) /\ r \in Seq(Tokens)
    BY <2>2 DEF Book
  <2>4. Under(p, q)
    BY <2>2, <2>3, UnderTrans
  <2> QED BY <2>1, <2>4 DEF Book, Untouched
<1>2. ASSUME NEW p \in v2, p # self PROVE Rightly(s, f, p, x2)
  <2>1. CASE p \in v
    <3>1. Rightly(s, f, p, x) /\ p \in Seq(Tokens)
      BY <1>2, <2>1 DEF Book
    <3>2. \A q \in x2 \ x : Under(p, q) => q = p
      BY <2>1
    <3>3. PICK k \in 1..PathMax : Reached(s, f, p, k, x)
      BY <3>1 DEF Rightly, Lies
    <3>4. k \in Nat
      OBVIOUS
    <3>5. Reached(s, f, p, k, x2)
      BY <3>1, <3>2, <3>3, <3>4, ReachedLess
    <3> QED BY <3>1, <3>5 DEF Rightly, Lies
  <2> QED BY <2>1
<1>3. ASSUME NEW p \in Seq(Tokens), Rightly(s, f, p, x2), p \notin v2 \cup x2
      PROVE  \E r \in t2 : Under(p, r)
  <2>1. Rightly(s, f, p, x)
    BY <1>3, ReachedMore DEF Rightly, Lies
  <2>2. PICK r \in t : Under(p, r)
    BY <1>3, <2>1 DEF Book
  <2> QED BY <1>3, <2>2
<1> QED BY <1>1, <1>2, <1>3 DEF Book

(* Longer paths are left out. *)
LEMMA ReachedAbove ==
  ASSUME NEW s \in Seq(Tokens), NEW f, NEW x, NEW y, NEW p \in Seq(Tokens), NEW k \in Nat,
         Reached(s, f, p, k, x), y \subseteq Seq(Tokens), \A q \in y \ x : Len(q) > Len(p)
  PROVE  Reached(s, f, p, k, y) /\ (Passes(f, k, p, x) => Passes(f, k, p, y))
<1>1. \A q \in y \ x : ~Under(p, q) /\ q # p
  BY DEF Under
<1>2. Reached(s, f, p, k, y)
  BY <1>1, ReachedLess
<1> QED BY <1>1, <1>2 DEF Passes

(* The entries E of d are added to x. *)
Plus(x, d, E) == x \cup {Ent(d, e) : e \in E}

(* The entries R of the directory d, k levels down, are done with: E of     *)
(* them are left out, F visited.                                            *)
Off(f, d, k, x, t, t2, R, E, F) ==
  /\ R \subseteq Tokens /\ E \subseteq Tokens /\ F \subseteq Tokens
  /\ t2 \subseteq t /\ \A r \in t : r \in t2 \/ \E e \in R : r = Ent(d, e)
  /\ \A e \in E : Ent(d, e) \in t \cup x
  /\ \A e \in F : e \in Seen(f, Leads(d)) /\ k + 1 <= PathMax /\ Asks(f, Kind[e])
  /\ \A e \in E \cup F : \A r \in t2 : ~Under(Ent(d, e), r)
  /\ \A e \in R : \/ e \in E \/ e \notin Seen(f, Leads(d))
                  \/ /\ Kind[e] # "dir" \/ "NOSUBDIR" \in f
                     /\ e \in F \/ ~Asks(f, Kind[e])

(* Entries are done with. *)
LEMMA BookOff ==
  ASSUME NEW s \in Seq(Tokens), s # <<>>, NEW f, NEW self,
         NEW v, NEW x, NEW t, NEW t2, Book(s, f, self, v, x, t),
         NEW k \in Nat, NEW d \in Seq(Tokens), Reached(s, f, d, k, x), Passes(f, k, d, x),
         NEW R, NEW E, NEW F, Off(f, d, k, x, t, t2, R, E, F)
  PROVE  Book(s, f, self, Plus(v, d, F), Plus(x, d, E), t2)
<1> DEFINE v2 == v \cup {Ent(d, e) : e \in F}
           x2 == x \cup {Ent(d, e) : e \in E}
<1>0. /\ R \subseteq Tokens /\ E \subseteq Tokens /\ F \subseteq Tokens
      /\ t2 \subseteq t /\ \A r \in t : r \in t2 \/ \E e \in R : r = Ent(d, e)
      /\ \A e \in E : Ent(d, e) \in t \cup x
      /\ \A e \in F : e \in Seen(f, Leads(d)) /\ k + 1 <= PathMax /\ Asks(f, Kind[e])
      /\ \A e \in E \cup F : \A r \in t2 : ~Under(Ent(d, e), r)
      /\ \A e \in R : \/ e \in E \/ e \notin Seen(f, Leads(d))
                      \/ /\ Kind[e] # "dir" \/ "NOSUBDIR" \in f
                         /\ e \in F \/ ~Asks(f, Kind[e])
  BY DEF Off
<1>1. /\ v \subseteq Seq(Tokens) /\ x \subseteq Seq(Tokens) /\ t \subseteq Seq(Tokens)
      /\ Untouched(v, x, t)
  BY DEF Book
<1>2. \A e \in Tokens : /\ Ent(d, e) \in Seq(Tokens) /\ Len(Ent(d, e)) = Len(d) + 2
                        /\ Leads(Ent(d, e)) = e
  BY EntIs
<1>3. Len(d) \in Nat /\ Len(d) = Len(s) + 2 * k /\ k + 1 \in Nat
  BY DEF Reached
<1>4. /\ v \subseteq v2 /\ x \subseteq x2 /\ v2 \subseteq Seq(Tokens) /\ x2 \subseteq Seq(Tokens)
      /\ t2 \subseteq Seq(Tokens)
  BY <1>0, <1>1, <1>2
<1>5. \A r \in t2 : \E q \in t : Under(r, q)
  BY <1>0, <1>4, UnderSelf
<1>6. \A p \in (v2 \ v) \cup (x2 \ x) : \A r \in t2 : ~Under(p, r)
  BY <1>0
<1>7. Reached(s, f, d, k, x2) /\ Passes(f, k, d, x2)
  <2>1. \A q \in x2 \ x : Len(q) > Len(d)
    BY <1>0, <1>2, <1>3
  <2> HIDE DEF x2
  <2> QED BY <1>4, <2>1, ReachedAbove
<1>8. ASSUME NEW p \in v2 \ v PROVE Rightly(s, f, p, x2)
  <2>1. PICK e \in F : p = Ent(d, e)
    BY <1>0, <1>8
  <2> HIDE DEF x2, v2
  <2>2. Reached(s, f, Ent(d, e), k + 1, x2)
    BY <1>0, <1>7, ReachedNext
  <2>3. k + 1 \in 1..PathMax
    BY <1>0, SizesAssumption
  <2> QED BY <1>0, <1>2, <2>1, <2>2, <2>3 DEF Rightly, Lies
<1>9. ASSUME NEW p \in v, NEW q \in x2 \ x, Under(p, q) PROVE q = p
  <2>1. q \in t
    BY <1>0, <1>9
  <2> QED BY <1>1, <1>9, <2>1 DEF Untouched
<1>10. ASSUME NEW p \in Seq(Tokens), NEW r \in t,
              Rightly(s, f, p, x2), p \notin v2 \cup x2, Under(p, r)
       PROVE  \E q \in t2 : Under(p, q)
  <2>1. CASE r \in t2
    BY <1>0, <1>10, <2>1
  <2>2. CASE \E e \in R : r = Ent(d, e)
    <3>1. PICK e \in R : r = Ent(d, e)
      BY <1>0, <2>2
    <3>3. e \in Tokens /\ Under(p, Ent(d, e))
      BY <1>0, <1>10, <3>1
    <3>4. e \in E \/ e \notin E
      OBVIOUS
    <3>5. e \in E => Ent(d, e) \in x2
      OBVIOUS
    <3>6. e \in F => Ent(d, e) \in v2
      OBVIOUS
    <3> HIDE DEF x2, v2
    <3>2. PICK i \in Nat : Reached(s, f, p, i, x2)
      BY <1>0, <1>10 DEF Rightly, Lies
    <3>7. e \in Seen(f, Leads(d)) /\ (p # Ent(d, e) => Passes(f, k + 1, Ent(d, e), x2))
      BY <1>0, <1>3, <3>2, <3>3, ReachedBelow
    <3>8. p = Ent(d, e)
      BY <1>0, <1>2, <1>3, <3>3, <3>5, <3>7 DEF Passes
    <3>9. e \notin E /\ e \notin F /\ Asks(f, Kind[e])
      BY <1>0, <1>2, <1>10, <3>3, <3>5, <3>6, <3>8 DEF Rightly
    <3> QED BY <1>0, <3>7, <3>9
  <2> QED BY <1>0, <2>1, <2>2
<1> HIDE DEF v2, x2
<1>11. Book(s, f, self, v2, x2, t2)
  BY <1>0, <1>4, <1>5, <1>6, <1>8, <1>9, <1>10, BookStep
<1> QED BY <1>11 DEF v2, x2, Plus

(* An entry gives way to its own entries; F holds it when it is visited. *)
Opens(f, d, k, e, t, t2, F) ==
  /\ Ent(d, e) \in t /\ F \subseteq {e}
  /\ \A r \in t : r \in t2 \/ r = Ent(d, e)
  /\ \A m \in Entries[e] : Ent(Ent(d, e), m) \in t2
  /\ \A r \in t2 : r \in t \/ \E m \in Entries[e] : r = Ent(Ent(d, e), m)
  /\ F # {} => e \in Seen(f, Leads(d)) /\ k + 1 <= PathMax /\ Asks(f, Kind[e])
  /\ F # {} => \A r \in t2 : ~Under(Ent(d, e), r)
  /\ e \in F \/ ~Asks(f, Kind[e])

(* An entry is opened. *)
LEMMA BookOpen ==
  ASSUME NEW s \in Seq(Tokens), s # <<>>, NEW f, NEW self,
         NEW v, NEW x, NEW t, NEW t2, Book(s, f, self, v, x, t),
         NEW k \in Nat, NEW d \in Seq(Tokens), Reached(s, f, d, k, x), Passes(f, k, d, x),
         NEW e \in Tokens, NEW F, Opens(f, d, k, e, t, t2, F)
  PROVE  Book(s, f, self, Plus(v, d, F), x, t2)
<1> DEFINE v2 == v \cup {Ent(d, m) : m \in F}
           r0 == Ent(d, e)
<1>0. /\ Ent(d, e) \in t /\ F \subseteq {e}
      /\ \A r \in t : r \in t2 \/ r = Ent(d, e)
      /\ \A m \in Entries[e] : Ent(Ent(d, e), m) \in t2
      /\ \A r \in t2 : r \in t \/ \E m \in Entries[e] : r = Ent(Ent(d, e), m)
      /\ F # {} => e \in Seen(f, Leads(d)) /\ k + 1 <= PathMax /\ Asks(f, Kind[e])
      /\ F # {} => \A r \in t2 : ~Under(Ent(d, e), r)
      /\ e \in F \/ ~Asks(f, Kind[e])
  BY DEF Opens
<1>1. v \subseteq Seq(Tokens) /\ x \subseteq Seq(Tokens) /\ t \subseteq Seq(Tokens)
  BY DEF Book
<1>2. r0 \in Seq(Tokens) /\ Len(r0) = Len(d) + 2 /\ Leads(r0) = e
  BY EntIs
<1>3. Len(d) = Len(s) + 2 * k /\ k + 1 \in Nat
  BY DEF Reached
<1>4. Entries[e] \subseteq Tokens
  BY <1>0, TreeAssumption DEF Tokens
<1>5. \A m \in Entries[e] : Ent(r0, m) \in Seq(Tokens) /\ Under(Ent(r0, m), r0)
  BY <1>0, <1>2, <1>4, EntIs, UnderEnt
<1> HIDE DEF r0
<1>6. v \subseteq v2 /\ v2 \subseteq Seq(Tokens) /\ t2 \subseteq Seq(Tokens)
  BY <1>0, <1>1, <1>2, <1>5 DEF r0
<1>7. \A r \in t2 : \E q \in t : Under(r, q)
  BY <1>0, <1>5, <1>6, UnderSelf DEF r0
<1>8. \A p \in v2 \ v : p = r0 /\ F # {}
  BY <1>0 DEF r0
<1>9. e \in F => r0 \in v2
  BY <1>0 DEF r0
<1> HIDE DEF v2
<1>10. \A p \in (v2 \ v) \cup (x \ x) : \A r \in t2 : ~Under(p, r)
  BY <1>0, <1>8 DEF r0
<1>11. ASSUME NEW p \in v2 \ v PROVE Rightly(s, f, p, x)
  <2>1. e \in Seen(f, Leads(d)) /\ k + 1 <= PathMax /\ Asks(f, Kind[e]) /\ p = r0
    BY <1>0, <1>8
  <2>2. Reached(s, f, r0, k + 1, x)
    BY <1>0, <2>1, ReachedNext DEF r0
  <2>3. k + 1 \in 1..PathMax
    BY <1>0, <2>1, SizesAssumption
  <2> QED BY <1>0, <1>2, <2>1, <2>2, <2>3 DEF Rightly, Lies
<1>12. ASSUME NEW p \in Seq(Tokens), NEW r \in t,
              Rightly(s, f, p, x), p \notin v2 \cup x, Under(p, r)
       PROVE  \E q \in t2 : Under(p, q)
  <2>1. CASE r \in t2
    BY <1>0, <1>12, <2>1
  <2>2. CASE r = r0
    <3>1. p \in Seq(Tokens) /\ Lies(s, f, p, x) /\ Under(p, Ent(d, e)) /\ p # Ent(d, e)
      BY <1>0, <1>2, <1>9, <1>12, <2>2 DEF Rightly, r0
    <3>2. Deep(s, d, k)
      BY <1>0, <1>3 DEF Deep
    <3>3. PICK m \in Entries[e] : Under(p, Ent(Ent(d, e), m))
      BY <1>0, <3>1, <3>2, AllBelow, Zenon
    <3> QED BY <1>0, <3>3
  <2> QED BY <1>0, <2>1, <2>2 DEF r0
<1>13. Book(s, f, self, v2, x, t2)
  BY <1>0, <1>1, <1>6, <1>7, <1>10, <1>11, <1>12, BookStep
<1> QED BY <1>0, <1>13 DEF v2, Plus

(* The entries of an entry are left alone: it is left out, or the walk does *)
(* not look into it.                                                        *)
Shuts(f, d, e, x, x2, t, t2) ==
  /\ x2 = x \/ x2 = x \cup {Ent(d, e)}
  /\ Ent(d, e) \in x2 \/ "NOSUBDIR" \in f
  /\ \A m \in Entries[e] : Ent(Ent(d, e), m) \in t
  /\ t2 \subseteq t
  /\ \A r \in t : r \in t2 \/ \E m \in Entries[e] : r = Ent(Ent(d, e), m)
  /\ \A r \in t2 : ~Under(Ent(d, e), r)

(* An entry is shut. *)
LEMMA BookClose ==
  ASSUME NEW s \in Seq(Tokens), s # <<>>, NEW f, NEW self,
         NEW v, NEW x, NEW t, NEW t2, Book(s, f, self, v, x, t),
         self \in Seq(Tokens), Len(self) <= Len(s),
         NEW k \in Nat, NEW d \in Seq(Tokens), Deep(s, d, k),
         NEW e \in Tokens, NEW x2, Shuts(f, d, e, x, x2, t, t2)
  PROVE  Book(s, f, self, v, x2, t2)
<1> DEFINE r0 == Ent(d, e)
<1>0. /\ x2 = x \/ x2 = x \cup {Ent(d, e)}
      /\ Ent(d, e) \in x2 \/ "NOSUBDIR" \in f
      /\ \A m \in Entries[e] : Ent(Ent(d, e), m) \in t
      /\ t2 \subseteq t
      /\ \A r \in t : r \in t2 \/ \E m \in Entries[e] : r = Ent(Ent(d, e), m)
      /\ \A r \in t2 : ~Under(Ent(d, e), r)
  BY DEF Shuts
<1>1. /\ v \subseteq Seq(Tokens) /\ x \subseteq Seq(Tokens) /\ t \subseteq Seq(Tokens)
      /\ Untouched(v, x, t) /\ \A p \in v : p = self \/ Rightly(s, f, p, x)
  BY DEF Book
<1>2. r0 \in Seq(Tokens) /\ Len(r0) = Len(d) + 2 /\ Leads(r0) = e
  BY EntIs
<1>3. Entries[e] \subseteq Tokens
  BY <1>0, TreeAssumption DEF Tokens
<1>4. /\ x \subseteq x2 /\ x2 \subseteq Seq(Tokens) /\ t2 \subseteq Seq(Tokens)
      /\ \A q \in x2 \ x : q = r0
  BY <1>0, <1>1, <1>2
<1>5. \A r \in t2 : \E q \in t : Under(r, q)
  BY <1>0, <1>4, UnderSelf
<1>6. \A p \in (v \ v) \cup (x2 \ x) : \A r \in t2 : ~Under(p, r)
  BY <1>0, <1>4
<1>7. ASSUME NEW p \in v, NEW q \in x2 \ x, Under(p, q) PROVE q = p
  <2>1. q = r0
    BY <1>0, <1>4
  <2>2. CASE p = self
    BY <1>0, <1>2, <1>7, <2>1, <2>2 DEF Under, Deep
  <2>3. CASE Rightly(s, f, p, x) /\ p # r0
    <3>1. p \in Seq(Tokens) /\ Lies(s, f, p, x) /\ Under(p, Ent(d, e)) /\ p # Ent(d, e)
      BY <1>0, <1>1, <1>7, <2>1, <2>3 DEF Rightly
    <3>2. PICK m \in Entries[e] : Under(p, Ent(Ent(d, e), m))
      BY <1>0, <3>1, AllBelow, Zenon
    <3> QED BY <1>0, <1>1, <3>2 DEF Untouched
  <2> QED BY <1>0, <1>1, <2>1, <2>2, <2>3
<1>8. ASSUME NEW p \in Seq(Tokens), NEW r \in t,
             Rightly(s, f, p, x2), p \notin v \cup x2, Under(p, r)
      PROVE  \E q \in t2 : Under(p, q)
  <2>1. CASE r \in t2
    BY <1>0, <1>8, <2>1
  <2>2. CASE \E m \in Entries[e] : r = Ent(r0, m)
    <3>1. PICK m \in Entries[e] : r = Ent(r0, m)
      BY <1>0, <2>2
    <3>2. PICK i \in Nat : Reached(s, f, p, i, x2)
      BY <1>0, <1>8 DEF Rightly, Lies
    <3>3. m \in Tokens /\ Ent(r0, m) \in Seq(Tokens) /\ Len(Ent(r0, m)) = Len(r0) + 2
          /\ Under(Ent(r0, m), r0)
      BY <1>0, <1>2, <1>3, EntIs, UnderEnt
    <3>4. Under(p, r0) /\ p # r0
      <4>1. Under(p, r0)
        BY <1>0, <1>2, <1>8, <3>1, <3>3, UnderTrans
      <4>2. Len(p) >= Len(r0) + 2 /\ Len(r0) \in Nat
        BY <1>0, <1>2, <1>8, <3>1, <3>3 DEF Under
      <4> QED BY <1>0, <4>1, <4>2
    <3>5. Passes(f, k + 1, r0, x2)
      BY <1>0, <3>2, <3>4, ReachedBelow DEF Deep
    <3> QED BY <1>0, <1>2, <3>5 DEF Passes
  <2> QED BY <1>0, <2>1, <2>2
<1>9. \A p \in v \ v : Rightly(s, f, p, x2)
  BY <1>0
<1> QED BY <1>0, <1>1, <1>4, <1>5, <1>6, <1>7, <1>8, <1>9, BookStep

(* The walk begins: all entries of s are left to do. *)
LEMMA BookStart ==
  ASSUME NEW s \in Seq(Tokens), s # <<>>, NEW f, NEW self, self \in Seq(Tokens),
         Len(self) <= Len(s), NEW v, v \subseteq {self},
         NEW t, t = {Ent(s, e) : e \in Entries[Leads(s)]}
  PROVE  Book(s, f, self, v, {}, t)
<1>1. Len(s) \in Nat \ {0} /\ Leads(s) \in Tokens
  BY DEF Leads
<1>2. Entries[Leads(s)] \subseteq Tokens
  BY <1>1, TreeAssumption DEF Tokens
<1>3. \A e \in Entries[Leads(s)] : Ent(s, e) \in Seq(Tokens) /\ Len(Ent(s, e)) = Len(s) + 2
  BY <1>2, EntIs
<1>4. t \subseteq Seq(Tokens) /\ v \subseteq Seq(Tokens)
  BY <1>3
<1>5. Untouched(v, {}, t)
  BY <1>1, <1>3 DEF Untouched, Under
<1>6. ASSUME NEW p \in Seq(Tokens), Rightly(s, f, p, {}) PROVE \E r \in t : Under(p, r)
  <2>1. PICK k \in 1..PathMax : Reached(s, f, p, k, {})
    BY <1>6 DEF Rightly, Lies
  <2>2. Len(p) = Len(s) + 2 * k /\ SubSeq(p, 1, Len(s)) = s /\ 0 \in 0..(k - 1)
    BY <2>1, SizesAssumption DEF Reached
  <2>3. /\ p[Len(s) + 2 * 0 + 1] = Slash
        /\ p[Len(s) + 2 * 0 + 2] \in Seen(f, p[Len(s) + 2 * 0])
    BY <2>1, <2>2 DEF Reached
  <2>4. Len(s) \in 1..Len(s) /\ Len(s) \in 0..Len(p) /\ Len(p) >= Len(s) + 2
    BY <1>1, <2>2
  <2>5. p[Len(s)] = Leads(s)
    <3>1. SubSeq(p, 1, Len(s))[Len(s)] = p[Len(s)]
      BY <2>4, CutIs
    <3> QED BY <2>2, <3>1 DEF Leads
  <2>6. p[Len(s) + 1] = Slash /\ p[Len(s) + 2] \in Seen(f, Leads(s))
    BY <1>1, <2>3, <2>5
  <2>7. SubSeq(p, 1, Len(s) + 2) = Ent(s, p[Len(s) + 2]) /\ p[Len(s) + 2] \in Entries[Leads(s)]
    BY <1>1, <2>2, <2>4, <2>6, EntSplit, SeenIs
  <2> QED BY <1>3, <2>4, <2>7 DEF Under
<1> QED BY <1>4, <1>5, <1>6 DEF Book

-----------------------------------------------------------------------------
(* The books of this walk.                                                  *)

(* The entries the levels have left. *)
Rest == UNION {{Ent(Dir(k), e) : e \in stack[k].left} : k \in 1..Level}

(* What is left to do of the entry at hand. *)
Hand ==
  CASE pc \in {"entry", "dirfunc"} -> {PathOf(ep)}
    [] pc = "func" -> IF st = PathOf(ep) THEN {PathOf(ep)} ELSE {}
    [] pc \in {"enter", "opendir"} -> {Ent(path, e) : e \in Entries[ep]}
    [] OTHER -> {}

(* What is left to do: FUNC may still be called with these paths and those  *)
(* under them.                                                              *)
Todo == Rest \cup Hand

(* What FUNC is told DIRPATH is. *)
Self == IF IsRoot THEN <<>> ELSE Stripped

(* The books are kept. *)
Noted == Book(Stripped, call.flags, Self, visits, excused, Todo)

(* Each level is in a directory that is looked into, and has taken off the  *)
(* entry the level below it is in.                                          *)
Placed ==
  \A k \in 1..Level :
    /\ Reached(Stripped, call.flags, Dir(k), k - 1, excused)
    /\ Passes(call.flags, k - 1, Dir(k), excused)
    /\ stack[k].left \subseteq Entries[Leads(Dir(k))]
    /\ k # Level => stack[k + 1].name \notin stack[k].left

(* The entry at hand. *)
Looking ==
  pc \in {"entry", "func", "dirfunc", "enter"} \/ (pc = "opendir" /\ Level # 0) =>
    /\ ep \in Seen(call.flags, Leads(Dir(Level))) /\ ep \notin Top.left
    /\ pc \in {"dirfunc", "enter", "opendir"} => Kind[ep] = "dir"
    /\ pc = "dirfunc" => AskedFor("dir")
    /\ pc \in {"enter", "opendir"} => PathOf(ep) \notin excused
    /\ pc = "opendir" => ~Flag("NOSUBDIR")
    /\ pc = "func" => IF st = PathOf(ep) THEN Kind[ep] # "dir" /\ AskedFor(Kind[ep])
                      ELSE PathOf(ep) \in excused

(* DIRPATH is a directory, and was visited if directories are asked for. *)
SelfDone == Kind[Leads(Stripped)] = "dir" /\ (AskedFor("dir") <=> Self \in visits)

(* The steps from the first fdopendir on. *)
Walking == {"opendir", "return"} \cup Running

(* What every level relies on. *)
InStep == Placed /\ Looking /\ Noted /\ SelfDone

(* A walk that was not halted. *)
Goes ==
  /\ pc \in {"start", "root", "file"} => visits = {} /\ excused = {}
  /\ pc = "root" => Kind[ep] = "dir"
  /\ pc \in {"root", "file"} => plen = IF IsRoot THEN 0 ELSE Len(Stripped)
  /\ pc \in Walking => InStep
  /\ VisitsAll

(* A request to stop, and an error, halt the walk. *)
Halts == (stop => halted) /\ (~Flag("ACTIONRETVAL") /\ failed # {} => halted)

(* The invariant of the walk. *)
Walk == Halts /\ (~halted => Goes)

-----------------------------------------------------------------------------
(* What the steps of a level do to the books.                               *)

(* FUNC is called for the kinds the flags ask for. *)
LEMMA AsksIs == \A kind : AskedFor(kind) <=> Asks(call.flags, kind)
BY DEF AskedFor, Asks, Flag

LEMMA WantedIs == \A t \in Tokens : Wanted(Kind[t]) <=> Asks(call.flags, Kind[t])
<1>1. \A t \in Tokens : Kind[t] \in {"reg", "dir", "other"}
  BY TreeAssumption
<1> QED BY <1>1 DEF Wanted, Asks, Flag, RegOnly, DirOnly

(* Where the levels are. *)
LEMMA Places ==
  ASSUME Typed, Chain, call.dirpath # <<>>
  PROVE  /\ Stripped \in Seq(Tokens) /\ Stripped # <<>> /\ Len(Stripped) \in Nat \ {0}
         /\ Self \in Seq(Tokens) /\ Len(Self) <= Len(Stripped)
         /\ Level \in Nat /\ path \in Seq(Tokens)
         /\ \A k \in 1..Level :
              /\ Dir(k) \in Seq(Tokens) /\ Len(Dir(k)) = Len(Stripped) + 2 * (k - 1)
              /\ stack[k].at = Len(Dir(k)) /\ stack[k].left \subseteq Tokens
              /\ Leads(Dir(k)) \in Tokens
         /\ Level # 0 => /\ Level - 1 \in Nat /\ (Level - 1) + 1 = Level /\ Level \in 1..Level
                         /\ Top = stack[Level] /\ \A e : PathOf(e) = Ent(Dir(Level), e)
<1>1. Stripped \in Seq(Tokens) /\ Len(Stripped) \in Nat \ {0}
  BY StrippedType DEF Typed
<1>2. Self \in Seq(Tokens) /\ Len(Self) <= Len(Stripped)
  BY <1>1 DEF Self
<1>3. Level \in Nat /\ path \in Seq(Tokens)
  BY Frames DEF Typed
<1>4. ASSUME NEW k \in 1..Level
      PROVE  /\ Dir(k) \in Seq(Tokens) /\ Len(Dir(k)) = Len(Stripped) + 2 * (k - 1)
             /\ stack[k].at = Len(Dir(k)) /\ stack[k].left \subseteq Tokens
             /\ Leads(Dir(k)) \in Tokens
  <2>1. /\ stack[k].at = Len(Stripped) + 2 * (k - 1) /\ stack[k].at <= Len(path)
    BY DEF Chain
  <2>2. stack[k].at \in Nat \ {0} /\ stack[k].at \in 0..Len(path)
    BY <1>1, <1>3, <2>1
  <2>3. Dir(k) \in Seq(Tokens) /\ Len(Dir(k)) = stack[k].at
    BY <1>3, <2>2, CutIs DEF Dir
  <2>4. Leads(Dir(k)) \in Tokens
    BY <2>2, <2>3 DEF Leads
  <2>5. stack[k].left \subseteq Tokens
    BY Frames DEF Tokens
  <2> QED BY <2>1, <2>3, <2>4, <2>5
<1>5. ASSUME Level # 0
      PROVE  /\ Level - 1 \in Nat /\ (Level - 1) + 1 = Level /\ Level \in 1..Level
             /\ Top = stack[Level] /\ \A e : PathOf(e) = Ent(Dir(Level), e)
  BY <1>3, <1>5 DEF PathOf, Top, Dir, Ent
<1> QED BY <1>1, <1>2, <1>3, <1>4, <1>5

(* An entry of the running level is under nothing that is left but itself. *)
LEMMA Apart ==
  ASSUME Typed, Chain, Placed, Level # 0, call.dirpath # <<>>,
         NEW e \in Tokens, NEW k \in 1..Level, NEW m \in stack[k].left,
         Under(PathOf(e), Ent(Dir(k), m))
  PROVE  k = Level /\ m = e
<1> DEFINE p == PathOf(e)
           a == Dir(k)
           b == Dir(Level)
<1>1. /\ Level \in Nat /\ Level \in 1..Level /\ path \in Seq(Tokens)
      /\ a \in Seq(Tokens) /\ b \in Seq(Tokens) /\ m \in Tokens
      /\ Len(a) = Len(Stripped) + 2 * (k - 1) /\ Len(b) = Len(Stripped) + 2 * (Level - 1)
      /\ Len(Stripped) \in Nat /\ p = Ent(b, e)
  BY Places
<1> HIDE DEF p, a, b
<1>2. /\ p \in Seq(Tokens) /\ Len(p) = Len(b) + 2 /\ Leads(p) = e
      /\ \A i \in 0..Len(b) : SubSeq(p, 1, i) = SubSeq(b, 1, i)
  BY <1>1, EntIs
<1>3. /\ Ent(a, m) \in Seq(Tokens) /\ Len(Ent(a, m)) = Len(a) + 2 /\ Leads(Ent(a, m)) = m
  BY <1>1, EntIs
<1>4. CASE k = Level
  <2>1. Len(p) = Len(Ent(a, m)) /\ Under(p, Ent(a, m))
    BY <1>1, <1>2, <1>3, <1>4 DEF p, a, b
  <2>2. p = Ent(a, m)
    BY <1>2, <2>1, UnderSame
  <2> QED BY <1>2, <1>3, <1>4, <2>2
<1>5. CASE k # Level
  <2>1. k + 1 \in 1..Level /\ k + 1 # 1 /\ (k + 1) - 1 = k
    BY <1>1, <1>5
  <2>2. Dir(k + 1) = Ent(a, stack[k + 1].name)
    BY <2>1 DEF Chain, Ent, a
  <2>3. stack[k + 1].at = Len(a) + 2 /\ stack[k + 1].name \in Tokens
        /\ stack[k + 1].at \in 0..Len(b)
    <3>1. stack[k + 1].at = Len(Dir(k + 1)) /\ Len(Dir(k + 1)) = Len(Stripped) + 2 * ((k + 1) - 1)
      BY <2>1, Places
    <3>2. stack[k + 1].name \in Tokens
      BY <2>1, Frames
    <3> QED BY <1>1, <2>1, <3>1, <3>2
  <2>4. SubSeq(b, 1, stack[k + 1].at) = Dir(k + 1)
    <3>1. b = SubSeq(path, 1, stack[Level].at) /\ Dir(k + 1) = SubSeq(path, 1, stack[k + 1].at)
      BY DEF Dir, b
    <3>2. stack[Level].at = Len(b)
      BY <1>1, Places DEF b
    <3>3. stack[Level].at \in 0..Len(path)
      <4>1. stack[Level].at <= Len(path)
        BY <1>1 DEF Chain
      <4>2. stack[Level].at \in Nat /\ Len(path) \in Nat
        BY <1>1, Frames
      <4> QED BY <4>1, <4>2
    <3> QED BY <1>1, <2>3, <3>1, <3>2, <3>3, CutIs
  <2>5. SubSeq(p, 1, Len(a) + 2) = Ent(a, stack[k + 1].name)
    BY <1>2, <2>2, <2>3, <2>4
  <2>6. Ent(a, m) = Ent(a, stack[k + 1].name)
    BY <1>3, <2>5 DEF Under, p, a
  <2>7. m = stack[k + 1].name
    <3>1. Leads(Ent(a, stack[k + 1].name)) = stack[k + 1].name
      BY <1>1, <2>3, EntIs
    <3> QED BY <1>3, <2>6, <3>1
  <2> QED BY <1>5, <2>7 DEF Placed
<1> QED BY <1>4, <1>5

(* The levels that go on stay where they are. *)
LEMMA PlacedStep ==
  ASSUME Typed, Chain, Placed, Level # 0, call.dirpath # <<>>, call' = call,
         Level' \in Nat, Level' <= Level,
         \A k \in 1..Level' : /\ Dir(k)' = Dir(k) /\ stack'[k].left \subseteq stack[k].left
                              /\ stack'[k].name = stack[k].name,
         NEW E \in SUBSET Tokens, excused \subseteq Seq(Tokens),
         excused' = excused \cup {PathOf(e) : e \in E}
  PROVE  Placed' /\ Rest' \subseteq Rest
<1>1. Stripped' = Stripped /\ Level \in Nat
  BY Places DEF Stripped
<1>2. ASSUME NEW k \in 1..Level'
      PROVE  /\ Reached(Stripped, call.flags, Dir(k), k - 1, excused')
             /\ Passes(call.flags, k - 1, Dir(k), excused')
  <2>1. k \in 1..Level /\ k - 1 \in Nat
    BY <1>1
  <2>2. /\ Stripped \in Seq(Tokens) /\ Dir(k) \in Seq(Tokens)
        /\ Len(Dir(k)) = Len(Stripped) + 2 * (k - 1)
        /\ Dir(Level) \in Seq(Tokens) /\ Len(Dir(Level)) = Len(Stripped) + 2 * (Level - 1)
        /\ \A e : PathOf(e) = Ent(Dir(Level), e)
    BY <2>1, Places
  <2>3. ASSUME NEW q \in excused' \ excused
        PROVE  q \in Seq(Tokens) /\ Len(q) = Len(Dir(Level)) + 2
    <3>1. PICK e \in E : q = PathOf(e)
      OBVIOUS
    <3>2. e \in Tokens /\ q = Ent(Dir(Level), e)
      BY <2>2, <3>1
    <3> QED BY <2>2, <3>2, EntIs
  <2>4. excused' \subseteq Seq(Tokens) /\ \A q \in excused' \ excused : Len(q) > Len(Dir(k))
    BY <1>1, <2>1, <2>2, <2>3
  <2>5. Reached(Stripped, call.flags, Dir(k), k - 1, excused)
        /\ Passes(call.flags, k - 1, Dir(k), excused)
    BY <2>1 DEF Placed
  <2> DEFINE f == call.flags
             x == excused
             y == excused'
             d == Dir(k)
             s == Stripped
  <2>6. /\ s \in Seq(Tokens) /\ d \in Seq(Tokens) /\ k - 1 \in Nat /\ y \subseteq Seq(Tokens)
        /\ \A q \in y \ x : Len(q) > Len(d)
        /\ Reached(s, f, d, k - 1, x) /\ Passes(f, k - 1, d, x)
    BY <2>1, <2>2, <2>4, <2>5
  <2> HIDE DEF f, x, y, d, s
  <2>7. Reached(s, f, d, k - 1, y) /\ Passes(f, k - 1, d, y)
    BY <2>6, ReachedAbove
  <2> QED BY <2>7 DEF f, x, y, d, s
<1>3. ASSUME NEW k \in 1..Level'
      PROVE  /\ stack'[k].left \subseteq Entries[Leads(Dir(k))]
             /\ k # Level' => stack'[k + 1].name \notin stack'[k].left
  <2>1. k \in 1..Level /\ (k # Level' => k + 1 \in 1..Level' /\ k # Level)
    BY <1>1
  <2> QED BY <2>1 DEF Placed
<1>4. Placed'
  <2>1. \A k \in 1..Level' :
          /\ Reached(Stripped', call'.flags, Dir(k)', k - 1, excused')
          /\ Passes(call'.flags, k - 1, Dir(k)', excused')
          /\ stack'[k].left \subseteq Entries[Leads(Dir(k)')]
          /\ k # Level' => stack'[k + 1].name \notin stack'[k].left
    BY <1>1, <1>2, <1>3
  <2> QED BY <2>1 DEF Placed
<1>5. Rest' \subseteq Rest
  <2>1. \A k \in 1..Level' : k \in 1..Level
    BY <1>1
  <2> QED BY <2>1 DEF Rest
<1> QED BY <1>4, <1>5

(* There is an entry at hand, or to be read. *)
InDir == pc \in Running \/ (pc = "opendir" /\ Level # 0)

(* What a step in a directory starts from. *)
LEMMA Starts ==
  ASSUME IInv, Paths, InStep, InDir
  PROVE  /\ Typed /\ Chain /\ Level # 0 /\ call.dirpath # <<>> /\ Placed /\ Noted
         /\ excused \subseteq Seq(Tokens) /\ Top.left \subseteq Tokens
         /\ Top.left \subseteq Entries[Leads(Dir(Level))]
         /\ Level \in Nat /\ Level \in 1..Level /\ Level <= Level /\ Level - 1 \in Nat
         /\ Len(Dir(Level)) = Len(Stripped) + 2 * (Level - 1) /\ Dir(Level) \in Seq(Tokens)
         /\ Top = stack[Level] /\ \A e : PathOf(e) = Ent(Dir(Level), e)
         /\ \A e \in Top.left : PathOf(e) \in Rest
         /\ ep \in Tokens /\ Stripped \in Seq(Tokens)
<1>1. Typed /\ Chain /\ Level # 0 /\ call.dirpath # <<>> /\ ep \in Tokens
  BY DEF IInv, Descriptors, Running, Paths, Here, Typed, InDir
<1>2. Placed /\ Noted /\ excused \subseteq Seq(Tokens)
  BY DEF InStep, Noted, Book
<1>3. /\ Level \in Nat /\ Level \in 1..Level /\ Level - 1 \in Nat
      /\ Top = stack[Level] /\ \A e : PathOf(e) = Ent(Dir(Level), e)
      /\ Stripped \in Seq(Tokens) /\ Dir(Level) \in Seq(Tokens)
      /\ Len(Dir(Level)) = Len(Stripped) + 2 * (Level - 1)
      /\ stack[Level].left \subseteq Tokens
  BY <1>1, Places
<1>4. stack[Level].left \subseteq Entries[Leads(Dir(Level))]
  BY <1>2, <1>3 DEF Placed
<1>5. \A e \in Top.left : PathOf(e) \in Rest
  BY <1>3 DEF Rest
<1> QED BY <1>1, <1>2, <1>3, <1>4, <1>5

(* The entries R of the running level are done with: E of them are left     *)
(* out, F visited.                                                          *)
LEMMA OffStep ==
  ASSUME IInv, Paths, InStep, InDir, call' = call, NEW R, NEW E, NEW F,
         excused' = excused \cup {PathOf(e) : e \in E},
         visits' = visits \cup {PathOf(e) : e \in F},
         Off(call.flags, Dir(Level), Level - 1, excused, Todo, Todo', R, E, F)
  PROVE  Noted'
<1> DEFINE s == Stripped
           f == call.flags
           d == Dir(Level)
           k == Level - 1
           v == visits
           x == excused
           t == Todo
           t2 == Todo'
<1>1. Stripped' = Stripped /\ Self' = Self /\ call'.flags = call.flags
  BY DEF Stripped, Self, IsRoot
<1>2. /\ Typed /\ Chain /\ Level # 0 /\ call.dirpath # <<>> /\ Placed /\ Noted
      /\ Level \in 1..Level /\ \A e : PathOf(e) = Ent(d, e) /\ k \in Nat
      /\ d \in Seq(Tokens) /\ s \in Seq(Tokens) /\ k + 1 = Level /\ ep \in Tokens
  BY Starts
<1>3. s # <<>>
  BY <1>2, Places
<1>4. Reached(s, f, d, k, x) /\ Passes(f, k, d, x)
  BY <1>2 DEF Placed
<1>5. Book(s, f, Self, v, x, t)
  BY <1>2 DEF Noted
<1>6. visits' = Plus(v, d, F) /\ excused' = Plus(x, d, E)
  BY <1>2 DEF Plus
<1>7. Off(f, d, k, x, t, t2, R, E, F)
  OBVIOUS
<1>9. Noted' = Book(s, f, Self, visits', excused', t2)
  BY <1>1 DEF Noted
<1>11. s \in Seq(Tokens) /\ d \in Seq(Tokens) /\ k \in Nat /\ ep \in Tokens
  BY <1>2
<1> HIDE DEF s, f, d, k, v, x, t, t2
<1>10. Book(s, f, Self, Plus(v, d, F), Plus(x, d, E), t2)
  BY <1>3, <1>4, <1>5, <1>7, <1>11, BookOff
<1> QED BY <1>6, <1>9, <1>10

(* The entry at hand is opened. *)
LEMMA OpenStep ==
  ASSUME IInv, Paths, InStep, InDir, call' = call, NEW F, excused' = excused,
         visits' = visits \cup {PathOf(e) : e \in F},
         Opens(call.flags, Dir(Level), Level - 1, ep, Todo, Todo', F)
  PROVE  Noted'
<1> DEFINE s == Stripped
           f == call.flags
           d == Dir(Level)
           k == Level - 1
           v == visits
           x == excused
           t == Todo
           t2 == Todo'
<1>1. Stripped' = Stripped /\ Self' = Self /\ call'.flags = call.flags
  BY DEF Stripped, Self, IsRoot
<1>2. /\ Typed /\ Chain /\ Level # 0 /\ call.dirpath # <<>> /\ Placed /\ Noted
      /\ Level \in 1..Level /\ \A e : PathOf(e) = Ent(d, e) /\ k \in Nat
      /\ d \in Seq(Tokens) /\ s \in Seq(Tokens) /\ k + 1 = Level /\ ep \in Tokens
  BY Starts
<1>3. s # <<>>
  BY <1>2, Places
<1>4. Reached(s, f, d, k, x) /\ Passes(f, k, d, x)
  BY <1>2 DEF Placed
<1>5. Book(s, f, Self, v, x, t)
  BY <1>2 DEF Noted
<1>6. visits' = Plus(v, d, F)
  BY <1>2 DEF Plus
<1>7. Opens(f, d, k, ep, t, t2, F)
  OBVIOUS
<1>9. Noted' = Book(s, f, Self, visits', x, t2)
  BY <1>1 DEF Noted
<1>11. s \in Seq(Tokens) /\ d \in Seq(Tokens) /\ k \in Nat /\ ep \in Tokens
  BY <1>2
<1> HIDE DEF s, f, d, k, v, x, t, t2
<1>10. Book(s, f, Self, Plus(v, d, F), x, t2)
  BY <1>3, <1>4, <1>5, <1>7, <1>11, BookOpen
<1> QED BY <1>6, <1>9, <1>10

(* The entries of the directory at hand are left alone. *)
LEMMA ShutStep ==
  ASSUME IInv, Paths, InStep, InDir, call' = call, UNCHANGED visits,
         Shuts(call.flags, Dir(Level), ep, excused, excused', Todo, Todo')
  PROVE  Noted'
<1> DEFINE s == Stripped
           f == call.flags
           d == Dir(Level)
           k == Level - 1
           x == excused
           x2 == excused'
           t == Todo
           t2 == Todo'
<1>1. Stripped' = Stripped /\ Self' = Self /\ call'.flags = call.flags
  BY DEF Stripped, Self, IsRoot
<1>2. /\ Typed /\ Chain /\ Level # 0 /\ call.dirpath # <<>> /\ Noted
      /\ k \in Nat /\ d \in Seq(Tokens) /\ s \in Seq(Tokens) /\ ep \in Tokens
      /\ Len(d) = Len(s) + 2 * k
  BY Starts
<1>3. s # <<>> /\ Self \in Seq(Tokens) /\ Len(Self) <= Len(s)
  BY <1>2, Places
<1>4. Deep(s, d, k)
  BY <1>2 DEF Deep
<1>5. Book(s, f, Self, visits, x, t)
  BY <1>2 DEF Noted
<1>7. Shuts(f, d, ep, x, x2, t, t2)
  OBVIOUS
<1>9. Noted' = Book(s, f, Self, visits, x2, t2)
  BY <1>1 DEF Noted
<1> HIDE DEF s, f, d, k, x, x2, t, t2
<1>10. Book(s, f, Self, visits, x2, t2)
  BY <1>2, <1>3, <1>4, <1>5, <1>7, BookClose
<1> QED BY <1>9, <1>10

(* Nothing is done with. *)
LEMMA SameStep ==
  ASSUME Noted, call' = call, UNCHANGED <<visits, excused>>, Todo' = Todo
  PROVE  Noted'
<1>1. Stripped' = Stripped /\ Self' = Self
  BY DEF Stripped, Self, IsRoot
<1> QED BY <1>1 DEF Noted

(* Only entries are visited, and DIRPATH is none. *)
LEMMA SelfStep ==
  ASSUME IInv, Paths, InStep, InDir, call' = call, visits \subseteq visits',
         \A q \in visits' : q \in visits \/ \E e \in Tokens : q = PathOf(e)
  PROVE  SelfDone'
<1>1. Stripped' = Stripped /\ Self' = Self
  BY DEF Stripped, Self, IsRoot
<1>2. /\ Typed /\ Chain /\ call.dirpath # <<>> /\ Dir(Level) \in Seq(Tokens)
      /\ Len(Dir(Level)) = Len(Stripped) + 2 * (Level - 1) /\ Level - 1 \in Nat
      /\ \A e : PathOf(e) = Ent(Dir(Level), e)
  BY Starts
<1>3. Len(Self) <= Len(Stripped) /\ Len(Self) \in Nat /\ Len(Stripped) \in Nat
  BY <1>2, Places
<1>4. ASSUME NEW e \in Tokens PROVE Self # PathOf(e)
  <2>1. Len(PathOf(e)) = Len(Dir(Level)) + 2
    BY <1>2, EntIs
  <2>2. Len(PathOf(e)) > Len(Self)
    BY <1>2, <1>3, <2>1
  <2> QED BY <1>3, <2>2
<1>5. Self \in visits' <=> Self \in visits
  BY <1>4
<1> QED BY <1>1, <1>5 DEF InStep, SelfDone, AskedFor, Flag

(* An entry that is taken off is not under what is left. *)
LEMMA ApartRest ==
  ASSUME Typed, Chain, Placed, Level # 0, call.dirpath # <<>>,
         NEW e \in Tokens, NEW r \in Rest, Under(PathOf(e), r)
  PROVE  e \in Top.left /\ r = PathOf(e)
<1>1. PICK k \in 1..Level : \E m \in stack[k].left : r = Ent(Dir(k), m)
  BY DEF Rest
<1>2. PICK m \in stack[k].left : r = Ent(Dir(k), m)
  BY <1>1
<1>3. k = Level /\ m = e
  BY <1>2, Apart
<1> QED BY <1>2, <1>3, Places

(* The running level ends. *)
LEMMA LeaveStep ==
  ASSUME IInv, Paths, InStep, InDir, call' = call, path' = path,
         stack' = SubSeq(stack, 1, Level - 1),
         NEW E \in SUBSET Tokens, excused' = excused \cup {PathOf(e) : e \in E}
  PROVE  /\ Placed' /\ Rest' \subseteq Rest
         /\ \A r \in Rest : r \in Rest' \/ \E e \in Top.left : r = PathOf(e)
         /\ \A e \in Tokens : \A r \in Rest' : ~Under(PathOf(e), r)
<1>1. /\ Typed /\ Chain /\ Level # 0 /\ call.dirpath # <<>> /\ Placed /\ excused \subseteq Seq(Tokens)
      /\ Level \in Nat /\ Top = stack[Level] /\ \A e : PathOf(e) = Ent(Dir(Level), e)
  BY Starts
<1>2. /\ Level' = Level - 1 /\ Level' \in Nat
      /\ \A k \in 1..Level' : k \in 1..Level /\ stack'[k] = stack[k]
  BY <1>1, Shorter
<1>3. \A k \in 1..Level' : Dir(k)' = Dir(k)
  BY <1>2 DEF Dir
<1>4. Level' <= Level
  BY <1>1, <1>2
<1>5. Placed' /\ Rest' \subseteq Rest
  BY <1>1, <1>2, <1>3, <1>4, PlacedStep
<1>6. ASSUME NEW r \in Rest PROVE r \in Rest' \/ \E e \in Top.left : r = PathOf(e)
  <2>1. PICK k \in 1..Level : \E m \in stack[k].left : r = Ent(Dir(k), m)
    BY DEF Rest
  <2>2. CASE k = Level
    BY <1>1, <2>1, <2>2
  <2>3. CASE k # Level
    <3>1. k \in 1..Level'
      BY <1>1, <1>2, <2>3
    <3> QED BY <1>2, <1>3, <2>1, <3>1 DEF Rest
  <2> QED BY <2>2, <2>3
<1>7. ASSUME NEW e \in Tokens, NEW r \in Rest', Under(PathOf(e), r) PROVE FALSE
  <2>1. PICK k \in 1..Level' : \E m \in stack'[k].left : r = Ent(Dir(k)', m)
    BY DEF Rest
  <2>2. PICK m \in stack'[k].left : r = Ent(Dir(k)', m)
    BY <2>1
  <2>3. k \in 1..Level /\ m \in stack[k].left /\ r = Ent(Dir(k), m) /\ k # Level
    BY <1>1, <1>2, <1>3, <2>2
  <2> QED BY <1>1, <1>7, <2>3, Apart
<1> QED BY <1>5, <1>6, <1>7

(* The running level goes on. *)
LEMMA StayStep ==
  ASSUME IInv, Paths, InStep, InDir, call' = call, stack' = stack,
         path' = path \/ path' = PathOf(ep),
         NEW E \in SUBSET Tokens, excused' = excused \cup {PathOf(e) : e \in E}
  PROVE  /\ Placed' /\ Rest' = Rest /\ Level' = Level /\ Top' = Top /\ Dir(Level)' = Dir(Level)
         /\ \A x : PathOf(x)' = PathOf(x)
<1>1. /\ Typed /\ Chain /\ Level # 0 /\ call.dirpath # <<>> /\ Placed /\ excused \subseteq Seq(Tokens)
      /\ Level \in Nat /\ Level \in 1..Level /\ Level <= Level /\ ep \in Tokens
  BY Starts
<1>2. Level' = Level /\ Top' = Top
  BY DEF Level, Top
<1>3. (\A k \in 1..Level : Dir(k)' = Dir(k)) /\ \A x : PathOf(x)' = PathOf(x)
  <2>1. CASE path' = path
    BY <1>2, <2>1 DEF Dir, PathOf
  <2>2. CASE path' = PathOf(ep)
    BY <1>1, <2>2, FillKeeps
  <2> QED BY <2>1, <2>2
<1>4. Placed'
  BY <1>1, <1>2, <1>3, PlacedStep
<1>5. Rest' = Rest
  BY <1>2, <1>3 DEF Rest
<1> QED BY <1>1, <1>2, <1>3, <1>4, <1>5

(* A path that fits the buffer does not lead too deep. *)
LEMMA DepthFits ==
  ASSUME Typed, Chain, Level # 0, call.dirpath # <<>>, NEW e \in Tokens,
         Bytes(Dir(Level)) + Size[e] < PathMax
  PROVE  Level <= PathMax
<1>1. Level \in Nat /\ PathMax \in Nat /\ Level - 1 \in Nat /\ (Level - 1) + 1 = Level
      /\ Level \in 1..Level
  BY Places, SizesAssumption
<1>2. \A k \in 1..Level : Dir(k) \in Seq(Tokens) /\ Bytes(Dir(k)) \in Nat
  BY Places, BytesNat
<1> DEFINE S == {n \in Nat : n + 1 <= Level => n <= Bytes(Dir(n + 1))}
<1>3. 0 \in S
  BY <1>1, <1>2
<1>4. ASSUME NEW n \in Nat, n \in S PROVE n + 1 \in S
  <2> SUFFICES ASSUME (n + 1) + 1 <= Level PROVE n + 1 <= Bytes(Dir((n + 1) + 1))
    OBVIOUS
  <2>1. PICK k \in 1..Level : k = (n + 1) + 1
    BY <1>1
  <2>2. k # 1 /\ k - 1 = n + 1 /\ k - 1 \in 1..Level
    BY <1>1, <2>1
  <2>3. Dir(k) = Dir(k - 1) \o <<Slash, stack[k].name>>
    BY <2>2 DEF Chain
  <2>4. Bytes(Dir(k)) = Bytes(Dir(k - 1)) + Size[stack[k].name] + 1
    BY <1>2, <2>2, <2>3, BytesOfEntry, Frames
  <2>5. n <= Bytes(Dir(k - 1)) /\ Bytes(Dir(k - 1)) \in Nat /\ Size[stack[k].name] \in Nat
    BY <1>1, <1>2, <1>4, <2>2, Frames, SizeNat
  <2> QED BY <2>1, <2>4, <2>5
<1> HIDE DEF S
<1>5. \A n \in Nat : n \in S
  BY <1>3, <1>4, Induction
<1>6. Level - 1 <= Bytes(Dir(Level))
  BY <1>1, <1>5 DEF S
<1>7. Size[e] \in Nat /\ Bytes(Dir(Level)) \in Nat
  BY <1>1, <1>2, SizeNat
<1> QED BY <1>1, <1>6, <1>7

(* What is left to do of the entry at hand, before a step and after it. *)
LEMMA HandIs ==
  /\ pc \in {"entry", "dirfunc"} => Hand = {PathOf(ep)}
  /\ pc = "func" => Hand = IF st = PathOf(ep) THEN {PathOf(ep)} ELSE {}
  /\ pc \in {"enter", "opendir"} => Hand = {Ent(path, e) : e \in Entries[ep]}
  /\ pc \in {"read", "return"} => Hand = {}
BY DEF Hand

LEMMA HandThen ==
  /\ pc' \in {"entry", "dirfunc"} => Hand' = {PathOf(ep)'}
  /\ pc' = "func" => Hand' = IF st' = PathOf(ep)' THEN {PathOf(ep)'} ELSE {}
  /\ pc' \in {"enter", "opendir"} => Hand' = {Ent(path', e) : e \in Entries[ep']}
  /\ pc' \in {"read", "return"} => Hand' = {}
BY DEF Hand

(* The running level ends, and what it has left is left out. *)
LEMMA EndsLevel ==
  ASSUME IInv, Paths, InStep, pc \in Running, call' = call, path' = path, pc' = "return",
         stack' = SubSeq(stack, 1, Level - 1),
         NEW E \in SUBSET Tokens, excused' = excused \cup {PathOf(e) : e \in E},
         NEW F \in SUBSET Tokens, visits' = visits \cup {PathOf(e) : e \in F},
         Top.left \subseteq E, E \subseteq Top.left \cup {ep},
         Hand \subseteq {PathOf(e) : e \in E},
         ep \in E => Hand = {PathOf(ep)} \/ PathOf(ep) \in excused \/ ep \in Top.left,
         \A e \in F : /\ e \in Seen(call.flags, Leads(Dir(Level))) /\ Level <= PathMax
                      /\ Asks(call.flags, Kind[e])
  PROVE  InStep'
<1>0. InDir
  BY DEF InDir
<1>1. /\ Level \in Nat /\ \A e : PathOf(e) = Ent(Dir(Level), e)
      /\ \A e \in Top.left : PathOf(e) \in Rest
  BY <1>0, Starts
<1>2. /\ Placed' /\ Rest' \subseteq Rest
      /\ \A r \in Rest : r \in Rest' \/ \E e \in Top.left : r = PathOf(e)
      /\ \A e \in Tokens : \A r \in Rest' : ~Under(PathOf(e), r)
  BY <1>0, LeaveStep
<1>3. Todo = Rest \cup Hand /\ Todo' = Rest'
  BY HandThen DEF Todo
<1>4. Todo' \subseteq Todo /\ \A r \in Todo : r \in Todo' \/ \E e \in E : r = PathOf(e)
  BY <1>2, <1>3
<1>5. \A e \in E : PathOf(e) \in Todo \cup excused
  BY <1>1, <1>3
<1>6. \A e \in E \cup F : \A r \in Todo' : ~Under(PathOf(e), r)
  BY <1>2, <1>3
<1>7. \A e \in F : (Level - 1) + 1 <= PathMax
  BY <1>1
<1>8. Off(call.flags, Dir(Level), Level - 1, excused, Todo, Todo', E, E, F)
  BY <1>1, <1>4, <1>5, <1>6, <1>7 DEF Off
<1>9. Noted'
  BY <1>0, <1>8, OffStep
<1>10. SelfDone'
  BY <1>0, SelfStep
<1>11. Looking'
  BY DEF Looking
<1> QED BY <1>2, <1>9, <1>10, <1>11 DEF InStep

(* The running level is done with the entry at hand, and reads on. *)
LEMMA ReadsOn ==
  ASSUME IInv, Paths, InStep, pc \in {"entry", "func", "dirfunc"}, call' = call,
         path' = path \/ path' = PathOf(ep), stack' = stack, pc' = "read",
         NEW E \in SUBSET {ep}, excused' = excused \cup {PathOf(e) : e \in E},
         NEW F \in SUBSET {ep}, visits' = visits \cup {PathOf(e) : e \in F},
         Hand = {PathOf(ep)},
         F # {} => Level <= PathMax /\ Asks(call.flags, Kind[ep]),
         \/ ep \in E
         \/ /\ Kind[ep] # "dir" \/ "NOSUBDIR" \in call.flags
            /\ ep \in F \/ ~Asks(call.flags, Kind[ep])
  PROVE  InStep'
<1>0. InDir
  BY DEF InDir, Running
<1>1. /\ Level \in Nat /\ \A e : PathOf(e) = Ent(Dir(Level), e) /\ ep \in Tokens
      /\ Typed /\ Chain /\ Placed /\ Level # 0 /\ call.dirpath # <<>>
  BY <1>0, Starts
<1>2. ep \in Seen(call.flags, Leads(Dir(Level))) /\ ep \notin Top.left
  BY DEF InStep, Looking
<1>3. Placed' /\ Rest' = Rest
  BY <1>0, <1>1, StayStep
<1>4. Todo = Rest \cup {PathOf(ep)} /\ Todo' = Rest
  BY <1>3, HandThen DEF Todo
<1>5. \A r \in Todo' : ~Under(PathOf(ep), r)
  BY <1>1, <1>2, <1>4, ApartRest
<1>6. (Level - 1) + 1 = Level
  BY <1>1
<1>7. Off(call.flags, Dir(Level), Level - 1, excused, Todo, Todo', {ep}, E, F)
  <2>1. {ep} \subseteq Tokens /\ E \subseteq Tokens /\ F \subseteq Tokens
    BY <1>1
  <2>2. Todo' \subseteq Todo /\ \A r \in Todo : r \in Todo' \/ \E e \in {ep} : r = Ent(Dir(Level), e)
    BY <1>1, <1>4
  <2>3. \A e \in E : Ent(Dir(Level), e) \in Todo \cup excused
    BY <1>1, <1>4
  <2>4. \A e \in E \cup F : \A r \in Todo' : ~Under(Ent(Dir(Level), e), r)
    BY <1>1, <1>5
  <2> QED BY <1>2, <1>6, <2>1, <2>2, <2>3, <2>4 DEF Off
<1>8. Noted'
  BY <1>0, <1>7, OffStep
<1>9. SelfDone'
  BY <1>0, <1>1, SelfStep
<1>10. Looking'
  BY DEF Looking
<1> QED BY <1>3, <1>8, <1>9, <1>10 DEF InStep

(* Each step keeps the books. *)
LEMMA ReadEndWalk == ASSUME IInv, Paths, InStep, ReadEnd PROVE InStep'
<1>1. /\ pc = "read" /\ call' = call /\ path' = path /\ pc' = "return" /\ visits' = visits
      /\ stack' = SubSeq(stack, 1, Level - 1)
      /\ excused' = excused \cup {PathOf(e) : e \in Top.left}
  BY DEF ReadEnd, Leave, Excuse, buffer
<1>2. pc \in Running /\ Top.left \subseteq Tokens
  BY <1>1, Starts DEF Running, InDir
<1> DEFINE E == Top.left
           F == {}
<1>3. /\ E \in SUBSET Tokens /\ excused' = excused \cup {PathOf(e) : e \in E}
      /\ F \in SUBSET Tokens /\ visits' = visits \cup {PathOf(e) : e \in F}
      /\ Top.left = E /\ F = {}
  BY <1>1, <1>2
<1>4. Hand = {}
  BY <1>1, HandIs
<1> HIDE DEF E, F
<1> QED BY <1>1, <1>2, <1>3, <1>4, EndsLevel

LEMMA ReadFailsWalk == ASSUME IInv, Paths, InStep, ReadFails PROVE InStep'
<1>1. /\ pc = "read" /\ call' = call /\ path' = path /\ pc' = "return" /\ visits' = visits
      /\ stack' = SubSeq(stack, 1, Level - 1)
      /\ excused' = excused \cup {PathOf(e) : e \in Top.left}
  BY DEF ReadFails, Leave, Excuse, buffer
<1>2. pc \in Running /\ Top.left \subseteq Tokens
  BY <1>1, Starts DEF Running, InDir
<1> DEFINE E == Top.left
           F == {}
<1>3. /\ E \in SUBSET Tokens /\ excused' = excused \cup {PathOf(e) : e \in E}
      /\ F \in SUBSET Tokens /\ visits' = visits \cup {PathOf(e) : e \in F}
      /\ Top.left = E /\ F = {}
  BY <1>1, <1>2
<1>4. Hand = {}
  BY <1>1, HandIs
<1> HIDE DEF E, F
<1> QED BY <1>1, <1>2, <1>3, <1>4, EndsLevel

(* What is left to do has neither been visited nor left out. *)
LEMMA NotYet ==
  ASSUME Noted, NEW r \in Todo
  PROVE  r \notin visits \cup excused
<1>1. Untouched(visits, excused, Todo) /\ Todo \subseteq Seq(Tokens)
  BY DEF Noted, Book
<1>2. Under(r, r)
  BY <1>1, UnderSelf
<1> QED BY <1>1, <1>2 DEF Untouched

(* When entry e is taken off, it alone is left to do no more. *)
LEMMA TakeStep ==
  ASSUME IInv, Paths, InStep, pc = "read", call' = call, path' = path,
         NEW e \in Top.left, stack' = [stack EXCEPT ![Level].left = @ \ {e}],
         NEW E \in SUBSET {e}, excused' = excused \cup {PathOf(m) : m \in E}
  PROVE  /\ Placed' /\ Rest' \subseteq Rest
         /\ \A r \in Rest : r \in Rest' \/ r = PathOf(e)
         /\ \A r \in Rest' : ~Under(PathOf(e), r)
         /\ PathOf(e) \in Rest /\ e \in Tokens
         /\ Level' = Level /\ Dir(Level)' = Dir(Level) /\ e \notin Top'.left
         /\ \A x : PathOf(x)' = PathOf(x)
<1>0. InDir
  BY DEF InDir, Running
<1>1. /\ Typed /\ Chain /\ Level # 0 /\ call.dirpath # <<>> /\ Placed /\ excused \subseteq Seq(Tokens)
      /\ Level \in Nat /\ Level \in 1..Level /\ Level <= Level /\ Top = stack[Level]
      /\ \A x : PathOf(x) = Ent(Dir(Level), x)
      /\ Top.left \subseteq Tokens /\ \A x \in Top.left : PathOf(x) \in Rest
  BY <1>0, Starts
<1>2. /\ Level' = Level
      /\ \A k \in 1..Level : /\ stack'[k].at = stack[k].at /\ stack'[k].name = stack[k].name
                             /\ stack'[k].left = IF k = Level THEN stack[k].left \ {e}
                                                 ELSE stack[k].left
  BY <1>1, Takes
<1>3. \A k \in 1..Level : Dir(k)' = Dir(k)
  BY <1>2 DEF Dir
<1>4. Top' = stack'[Level] /\ Top'.at = Top.at /\ e \notin Top'.left
  <2>1. Top' = stack'[Level]
    BY <1>2 DEF Top
  <2>2. stack'[Level].at = Top.at /\ stack'[Level].left = Top.left \ {e}
    BY <1>1, <1>2
  <2> QED BY <2>1, <2>2
<1>5. \A x : PathOf(x)' = PathOf(x)
  BY <1>4 DEF PathOf
<1>6. E \in SUBSET Tokens
  BY <1>1
<1>7. \A k \in 1..Level' : /\ Dir(k)' = Dir(k) /\ stack'[k].left \subseteq stack[k].left
                           /\ stack'[k].name = stack[k].name
  BY <1>2, <1>3
<1>8. Placed' /\ Rest' \subseteq Rest
  BY <1>1, <1>2, <1>6, <1>7, PlacedStep
<1>9. ASSUME NEW r \in Rest PROVE r \in Rest' \/ r = PathOf(e)
  <2>1. PICK k \in 1..Level : \E m \in stack[k].left : r = Ent(Dir(k), m)
    BY DEF Rest
  <2>2. PICK m \in stack[k].left : r = Ent(Dir(k), m)
    BY <2>1
  <2>3. CASE m \in stack'[k].left
    BY <1>2, <1>3, <2>2, <2>3 DEF Rest
  <2>4. CASE m \notin stack'[k].left
    <3>1. k = Level /\ m = e
      BY <1>2, <2>4
    <3> QED BY <1>1, <2>2, <3>1
  <2> QED BY <2>3, <2>4
<1>10. ASSUME NEW r \in Rest', Under(PathOf(e), r) PROVE FALSE
  <2>1. PICK k \in 1..Level' : \E m \in stack'[k].left : r = Ent(Dir(k)', m)
    BY DEF Rest
  <2>2. PICK m \in stack'[k].left : r = Ent(Dir(k)', m)
    BY <2>1
  <2>3. k \in 1..Level /\ m \in stack[k].left /\ r = Ent(Dir(k), m) /\ (k = Level => m # e)
    BY <1>2, <1>3, <2>2
  <2> QED BY <1>1, <1>10, <2>3, Apart
<1> QED BY <1>1, <1>2, <1>3, <1>4, <1>5, <1>8, <1>9, <1>10

(* An entry that is taken off is left out, or not seen. *)
LEMMA TakenOff ==
  ASSUME IInv, Paths, InStep, pc = "read", call' = call, path' = path, visits' = visits,
         NEW e \in Top.left, stack' = [stack EXCEPT ![Level].left = @ \ {e}],
         NEW E \in SUBSET {e}, excused' = excused \cup {PathOf(m) : m \in E},
         e \in E \/ e \notin Seen(call.flags, Leads(Dir(Level))), Hand' = {}
  PROVE  Noted'
<1>0. InDir
  BY DEF InDir, Running
<1>1. \A x : PathOf(x) = Ent(Dir(Level), x)
  BY <1>0, Starts
<1>2. /\ Rest' \subseteq Rest /\ \A r \in Rest : r \in Rest' \/ r = PathOf(e)
      /\ \A r \in Rest' : ~Under(PathOf(e), r)
      /\ PathOf(e) \in Rest /\ e \in Tokens
  BY TakeStep
<1>3. Todo = Rest /\ Todo' = Rest'
  BY HandIs DEF Todo
<1> DEFINE R == {e}
           F == {}
<1>4. visits' = visits \cup {PathOf(m) : m \in F}
  OBVIOUS
<1>5. Off(call.flags, Dir(Level), Level - 1, excused, Todo, Todo', R, E, F)
  BY <1>1, <1>2, <1>3 DEF Off
<1> HIDE DEF R, F
<1> QED BY <1>0, <1>4, <1>5, OffStep

LEMMA ReadEntryWalk == ASSUME IInv, Paths, InStep, ReadEntry PROVE InStep'
<1>1. PICK e \in Top.left :
        /\ ep' = e /\ stack' = [stack EXCEPT ![Level].left = @ \ {e}]
        /\ \/ e \in Hidden /\ Flag("NOHIDDEN") /\ UNCHANGED <<pc, st, excused>>
           \/ ~(e \in Hidden /\ Flag("NOHIDDEN")) /\ st' = PathOf(e) /\ pc' = "entry" /\ UNCHANGED excused
           \/ /\ ~(e \in Hidden /\ Flag("NOHIDDEN"))
              /\ excused' = excused \cup {PathOf(m) : m \in {e}}
              /\ pc' \in {"read", "func"} /\ UNCHANGED st
  BY DEF ReadEntry, Excuse
<1>2. pc = "read" /\ UNCHANGED <<call, path, visits>>
  BY DEF ReadEntry, buffer
<1>0. InDir
  BY <1>2 DEF InDir, Running
<1>3. /\ Noted /\ \A x : PathOf(x) = Ent(Dir(Level), x)
      /\ Top.left \subseteq Entries[Leads(Dir(Level))] /\ Level \in 1..Level /\ Top = stack[Level]
  BY <1>0, Starts
<1>4. SelfDone'
  BY <1>0, <1>2, SelfStep
<1>5. call'.flags = call.flags
  BY <1>2
<1>6. CASE e \in Hidden /\ Flag("NOHIDDEN") /\ UNCHANGED <<pc, st, excused>>
  <2> DEFINE E == {}
  <2>1. E \in SUBSET {e} /\ excused' = excused \cup {PathOf(m) : m \in E}
    BY <1>6
  <2>2. e \notin Seen(call.flags, Leads(Dir(Level)))
    BY <1>6 DEF Seen, Flag
  <2>3. pc' = "read"
    BY <1>2, <1>6
  <2>4. Hand' = {}
    BY <2>3, HandThen
  <2> HIDE DEF E
  <2>5. Noted'
    BY <1>1, <1>2, <2>1, <2>2, <2>4, TakenOff
  <2>6. Placed'
    BY <1>1, <1>2, <2>1, TakeStep
  <2>7. Looking'
    BY <2>3 DEF Looking
  <2> QED BY <1>4, <2>5, <2>6, <2>7 DEF InStep
<1>7. CASE ~(e \in Hidden /\ Flag("NOHIDDEN")) /\ st' = PathOf(e) /\ pc' = "entry" /\ UNCHANGED excused
  <2> DEFINE E == {}
  <2>1. E \in SUBSET {e} /\ excused' = excused \cup {PathOf(m) : m \in E}
    BY <1>7
  <2> HIDE DEF E
  <2>2. /\ Placed' /\ Rest' \subseteq Rest
        /\ \A r \in Rest : r \in Rest' \/ r = PathOf(e)
        /\ PathOf(e) \in Rest /\ Level' = Level /\ Dir(Level)' = Dir(Level) /\ e \notin Top'.left
        /\ \A x : PathOf(x)' = PathOf(x)
    BY <1>1, <1>2, <2>1, TakeStep
  <2>3. Hand = {} /\ Hand' = {PathOf(e)}
    <3>1. PathOf(ep)' = PathOf(e)
      BY <1>1, <2>2 DEF PathOf
    <3> QED BY <1>2, <1>7, <3>1, HandIs, HandThen
  <2>4. Todo' = Todo
    BY <2>2, <2>3 DEF Todo
  <2>5. Noted'
    BY <1>2, <1>3, <1>7, <2>4, SameStep
  <2>6. e \in Seen(call.flags, Leads(Dir(Level)))
    BY <1>3, <1>7 DEF Seen, Flag
  <2>7. ep' \in Seen(call'.flags, Leads(Dir(Level)')) /\ ep' \notin Top'.left
    BY <1>1, <1>5, <2>2, <2>6
  <2>9. Leads(Dir(Level))' = Leads(Dir(Level)')
    BY DEF Leads
  <2>8. Looking'
    BY <1>7, <2>2, <2>7 DEF Looking
  <2> QED BY <1>4, <2>2, <2>5, <2>8 DEF InStep
<1>8. CASE /\ ~(e \in Hidden /\ Flag("NOHIDDEN"))
           /\ excused' = excused \cup {PathOf(m) : m \in {e}}
           /\ pc' \in {"read", "func"} /\ UNCHANGED st
  <2> DEFINE E == {e}
  <2>1. E \in SUBSET {e} /\ excused' = excused \cup {PathOf(m) : m \in E} /\ e \in E
        /\ PathOf(e) \in excused'
    BY <1>8
  <2> HIDE DEF E
  <2>2. /\ Placed' /\ Level' = Level /\ Dir(Level)' = Dir(Level) /\ e \notin Top'.left
        /\ \A x : PathOf(x)' = PathOf(x)
    BY <1>1, <1>2, <2>1, TakeStep
  <2>3. PathOf(ep)' = PathOf(e)
    BY <1>1, <2>2 DEF PathOf
  <2>4. st' # PathOf(e)
    BY <1>3, <1>8 DEF Paths, Unseen, Ent
  <2>5. Hand' = {}
    BY <1>8, <2>3, <2>4, HandThen
  <2>6. Noted'
    BY <1>1, <1>2, <2>1, <2>5, TakenOff
  <2>7. e \in Seen(call.flags, Leads(Dir(Level)))
    BY <1>3, <1>8 DEF Seen, Flag
  <2>8. Looking'
    BY <1>1, <1>5, <1>8, <2>1, <2>2, <2>3, <2>4, <2>7 DEF Looking
  <2> QED BY <1>4, <2>2, <2>6, <2>8 DEF InStep
<1> QED BY <1>1, <1>6, <1>7, <1>8

(* A path at hand fits the buffer, so it is not too deep. *)
LEMMA HandFits ==
  ASSUME IInv, Paths, InStep, InDir, AtHand
  PROVE  Level <= PathMax
<1>1. /\ Typed /\ Chain /\ Level # 0 /\ call.dirpath # <<>> /\ ep \in Tokens
      /\ Dir(Level) \in Seq(Tokens) /\ PathOf(ep) = Ent(Dir(Level), ep)
  BY Starts
<1>2. Bytes(path) <= PathMax /\ path = Dir(Level) \o <<Slash, ep>>
  BY <1>1 DEF Paths, Here, AtHand, Ent
<1>3. Bytes(path) = Bytes(Dir(Level)) + Size[ep] + 1
  BY <1>1, <1>2, BytesOfEntry
<1>4. Bytes(Dir(Level)) \in Nat /\ Size[ep] \in Nat /\ PathMax \in Nat
  BY <1>1, BytesNat, SizesAssumption
<1>5. Bytes(Dir(Level)) + Size[ep] < PathMax
  BY <1>2, <1>3, <1>4
<1> QED BY <1>1, <1>5, DepthFits

(* The path of the entry at hand is written, and the entry looked at.       *)
LEMMA LooksOn ==
  ASSUME IInv, Paths, InStep, pc = "entry", call' = call, stack' = stack, ep' = ep,
         st' = st, path' = PathOf(ep), UNCHANGED <<visits, excused>>,
         AskedFor(Kind[ep]),
         \/ pc' = "func" /\ Kind[ep] # "dir"
         \/ pc' = "dirfunc" /\ Kind[ep] = "dir"
  PROVE  InStep'
<1>0. InDir
  BY DEF InDir, Running
<1> DEFINE E == {}
<1>1. E \in SUBSET Tokens /\ excused' = excused \cup {PathOf(e) : e \in E}
  OBVIOUS
<1> HIDE DEF E
<1>2. /\ Placed' /\ Rest' = Rest /\ Level' = Level /\ Top' = Top /\ Dir(Level)' = Dir(Level)
      /\ \A x : PathOf(x)' = PathOf(x)
  BY <1>0, <1>1, StayStep
<1>3. st = PathOf(ep)
  BY DEF Paths, Here
<1>4. PathOf(ep)' = PathOf(ep)
  BY <1>2 DEF PathOf
<1>5. Hand = {PathOf(ep)} /\ Hand' = {PathOf(ep)}
  BY <1>3, <1>4, HandIs, HandThen
<1>6. Todo' = Todo
  BY <1>2, <1>5 DEF Todo
<1>7. Noted'
  BY <1>6, SameStep DEF InStep
<1>8. SelfDone'
  BY <1>0, SelfStep
<1>9. /\ ep \in Seen(call.flags, Leads(Dir(Level))) /\ ep \notin Top.left
  BY DEF InStep, Looking
<1>10. Leads(Dir(Level))' = Leads(Dir(Level))
  BY <1>2 DEF Leads
<1>11. \A kind : AskedFor(kind)' <=> AskedFor(kind)
  BY DEF AskedFor, Flag
<1>12. Looking'
  BY <1>2, <1>3, <1>4, <1>9, <1>10, <1>11 DEF Looking, AskedFor, Flag
<1> QED BY <1>2, <1>7, <1>8, <1>12 DEF InStep

(* The walk goes into the directory at hand. *)
LEMMA GoesIn ==
  ASSUME IInv, Paths, InStep, pc \in {"entry", "dirfunc"}, pc' = "enter",
         call' = call, stack' = stack, ep' = ep, path' = PathOf(ep), excused' = excused,
         Kind[ep] = "dir", NEW F \in SUBSET {ep},
         visits' = visits \cup {PathOf(e) : e \in F},
         F # {} => Level <= PathMax /\ Asks(call.flags, Kind[ep]),
         ep \in F \/ ~Asks(call.flags, Kind[ep])
  PROVE  InStep'
<1>0. InDir
  BY DEF InDir, Running
<1>1. /\ Level \in Nat /\ \A e : PathOf(e) = Ent(Dir(Level), e) /\ ep \in Tokens
      /\ Typed /\ Chain /\ Placed /\ Level # 0 /\ call.dirpath # <<>> /\ (Level - 1) + 1 = Level
      /\ Dir(Level) \in Seq(Tokens)
  BY <1>0, Starts
<1>2. ep \in Seen(call.flags, Leads(Dir(Level))) /\ ep \notin Top.left
  BY DEF InStep, Looking
<1> DEFINE E == {}
<1>3. E \in SUBSET Tokens /\ excused' = excused \cup {PathOf(e) : e \in E}
  OBVIOUS
<1> HIDE DEF E
<1>4. /\ Placed' /\ Rest' = Rest /\ Level' = Level /\ Top' = Top /\ Dir(Level)' = Dir(Level)
      /\ \A x : PathOf(x)' = PathOf(x)
  BY <1>0, <1>3, StayStep
<1>5. PathOf(ep)' = PathOf(ep)
  BY <1>4 DEF PathOf
<1>6. Hand = {PathOf(ep)} /\ Hand' = {Ent(PathOf(ep), m) : m \in Entries[ep]}
  BY HandIs, HandThen
<1>7. Todo = Rest \cup {PathOf(ep)} /\ Todo' = Rest \cup {Ent(PathOf(ep), m) : m \in Entries[ep]}
  BY <1>4, <1>6 DEF Todo
<1>8. ASSUME NEW r \in Todo' PROVE ~Under(PathOf(ep), r)
  <2>1. CASE r \in Rest
    BY <1>1, <1>2, <2>1, ApartRest
  <2>2. CASE \E m \in Entries[ep] : r = Ent(PathOf(ep), m)
    <3>1. PICK m \in Entries[ep] : r = Ent(PathOf(ep), m)
      BY <2>2
    <3>2. m \in Tokens
      BY <1>1, TreeAssumption DEF Tokens
    <3>3. PathOf(ep) \in Seq(Tokens)
      BY <1>1, EntIs
    <3>4. Len(Ent(PathOf(ep), m)) = Len(PathOf(ep)) + 2
      BY <3>2, <3>3, EntIs
    <3>5. Len(PathOf(ep)) \in Nat
      BY <3>3
    <3> QED BY <3>1, <3>4, <3>5 DEF Under
  <2> QED BY <1>7, <2>1, <2>2
<1>9. Opens(call.flags, Dir(Level), Level - 1, ep, Todo, Todo', F)
  <2>1. Ent(Dir(Level), ep) = PathOf(ep)
    BY <1>1
  <2>2. PathOf(ep) \in Todo /\ \A r \in Todo : r \in Todo' \/ r = PathOf(ep)
    BY <1>7
  <2>3. /\ \A m \in Entries[ep] : Ent(PathOf(ep), m) \in Todo'
        /\ \A r \in Todo' : r \in Todo \/ \E m \in Entries[ep] : r = Ent(PathOf(ep), m)
    BY <1>7
  <2> QED BY <1>1, <1>2, <1>8, <2>1, <2>2, <2>3 DEF Opens
<1>10. Noted'
  BY <1>0, <1>9, OpenStep
<1>11. SelfDone'
  BY <1>0, <1>1, SelfStep
<1>12. PathOf(ep) \notin excused
  BY <1>7, NotYet DEF InStep
<1>13. Leads(Dir(Level))' = Leads(Dir(Level))
  BY <1>4 DEF Leads
<1>14. Looking'
  BY <1>2, <1>4, <1>5, <1>12, <1>13 DEF Looking
<1> QED BY <1>4, <1>10, <1>11, <1>14 DEF InStep

LEMMA ClassifyWalk == ASSUME IInv, Paths, InStep, Classify PROVE InStep'
<1>1. /\ pc = "entry" /\ UNCHANGED <<call, stack, ep, st, visits>>
      /\ path' = path \/ path' = PathOf(ep)
      /\ \/ /\ pc' = "read" /\ UNCHANGED excused
            /\ \/ Kind[ep] # "dir" /\ ~Wanted(Kind[ep])
               \/ Kind[ep] = "dir" /\ Flag("NOSUBDIR") /\ RegOnly
         \/ /\ pc' = "read" /\ excused' = excused \cup {PathOf(m) : m \in {ep}}
         \/ /\ pc' = "func" /\ Kind[ep] # "dir" /\ Wanted(Kind[ep])
            /\ path' = PathOf(ep) /\ UNCHANGED excused
         \/ /\ pc' = (IF Wanted("dir") THEN "dirfunc" ELSE "enter") /\ Kind[ep] = "dir"
            /\ path' = PathOf(ep) /\ UNCHANGED excused
  BY DEF Classify, Fill, Excuse, buffer
<1>2. InDir /\ Hand = {PathOf(ep)}
  BY <1>1, HandIs DEF InDir, Running
<1>3. ep \in Tokens
  BY <1>2, Starts
<1>4. Wanted(Kind[ep]) <=> Asks(call.flags, Kind[ep])
  BY <1>3, WantedIs
<1> DEFINE E == {}
           F == {}
<1>5. /\ E \in SUBSET {ep} /\ F \in SUBSET {ep} /\ visits' = visits \cup {PathOf(m) : m \in F}
      /\ excused' = excused => excused' = excused \cup {PathOf(m) : m \in E}
      /\ F = {}
  BY <1>1
<1> HIDE DEF E, F
<1>6. CASE /\ pc' = "read" /\ UNCHANGED excused
           /\ \/ Kind[ep] # "dir" /\ ~Wanted(Kind[ep])
              \/ Kind[ep] = "dir" /\ Flag("NOSUBDIR") /\ RegOnly
  <2>1. /\ Kind[ep] # "dir" \/ "NOSUBDIR" \in call.flags
        /\ ~Asks(call.flags, Kind[ep])
    BY <1>4, <1>6 DEF Asks, Flag, RegOnly
  <2>2. excused' = excused \cup {PathOf(m) : m \in E}
    BY <1>5, <1>6
  <2> QED BY <1>1, <1>2, <1>5, <1>6, <2>1, <2>2, ReadsOn
<1>7. CASE pc' = "read" /\ excused' = excused \cup {PathOf(m) : m \in {ep}}
  <2> DEFINE G == {ep}
  <2>1. G \in SUBSET {ep} /\ ep \in G /\ excused' = excused \cup {PathOf(m) : m \in G}
    BY <1>7
  <2> HIDE DEF G
  <2> QED BY <1>1, <1>2, <1>5, <1>7, <2>1, ReadsOn
<1>8. CASE /\ pc' = "func" /\ Kind[ep] # "dir" /\ Wanted(Kind[ep])
           /\ path' = PathOf(ep) /\ UNCHANGED excused
  BY <1>1, <1>4, <1>8, AsksIs, LooksOn
<1>9. CASE /\ pc' = (IF Wanted("dir") THEN "dirfunc" ELSE "enter") /\ Kind[ep] = "dir"
           /\ path' = PathOf(ep) /\ UNCHANGED excused
  <2>1. CASE Wanted("dir")
    BY <1>1, <1>4, <1>9, <2>1, AsksIs, LooksOn
  <2>2. CASE ~Wanted("dir")
    BY <1>1, <1>4, <1>5, <1>9, <2>2, GoesIn
  <2> QED BY <2>1, <2>2
<1> QED BY <1>1, <1>6, <1>7, <1>8, <1>9

(* FUNC was called, and the walk was not halted: it goes on, or leaves the  *)
(* rest of the directory out.                                               *)
LEMMA EndLevelIs ==
  ASSUME NEW r, EndLevel(r), ~halted'
  PROVE  /\ SkipsSiblings(r) /\ pc' = "return" /\ stack' = SubSeq(stack, 1, Level - 1)
         /\ excused' = excused \cup {PathOf(e) : e \in Top.left \cup {ep}}
<1>1. SkipsSiblings(r) /\ Leave(SUCC) /\ Excuse(Top.left \cup {ep})
  BY DEF EndLevel, Fatal
<1> QED BY <1>1 DEF Leave, Excuse

LEMMA FuncWalk == ASSUME IInv, Paths, InStep, Func, ~halted' PROVE InStep'
<1>1. /\ pc = "func" /\ UNCHANGED <<call, path, plen, ep, st>>
      /\ IF st = PathOf(ep) THEN Visit ELSE UNCHANGED visits
      /\ \/ pc' = "read" /\ UNCHANGED <<stack, excused>>
         \/ /\ pc' = "return" /\ stack' = SubSeq(stack, 1, Level - 1)
            /\ excused' = excused \cup {PathOf(e) : e \in Top.left \cup {ep}}
  BY EndLevelIs DEF Func, buffer
<1>0. InDir /\ pc \in Running
  BY <1>1 DEF InDir, Running
<1>2. Top.left \subseteq Tokens /\ ep \in Tokens /\ Noted
  BY <1>0, Starts
<1>3. ep \in Seen(call.flags, Leads(Dir(Level)))
  BY <1>1 DEF InStep, Looking
<1> DEFINE A == Top.left \cup {ep}
           N == {}
<1>4. /\ A \in SUBSET Tokens /\ Top.left \subseteq A /\ A \subseteq Top.left \cup {ep} /\ ep \in A
      /\ {PathOf(e) : e \in Top.left \cup {ep}} = {PathOf(e) : e \in A}
      /\ PathOf(ep) \in {PathOf(e) : e \in A}
      /\ N \in SUBSET Tokens /\ N = {} /\ visits = visits \cup {PathOf(e) : e \in N}
      /\ N \in SUBSET {ep} /\ excused = excused \cup {PathOf(e) : e \in N}
  BY <1>2
<1> HIDE DEF A, N
<1>5. CASE st = PathOf(ep)
  <2>1. AtHand /\ Hand = {PathOf(ep)}
    BY <1>1, <1>5, HandIs DEF Paths, Here, LeftOver
  <2>2. Visit
    BY <1>1, <1>5
  <2>3. SubSeq(path, 1, plen) = PathOf(ep)
    <3>1. path = PathOf(ep) /\ plen = Len(path) /\ path \in Seq(Tokens)
      BY <2>1 DEF AtHand, Paths, Typed
    <3>2. SubSeq(path, 1, Len(path)) = path
      BY <3>1
    <3> QED BY <3>1, <3>2
  <2> DEFINE F == {ep}
  <2>4. /\ F \in SUBSET Tokens /\ F \in SUBSET {ep} /\ ep \in F /\ \A e \in F : e = ep
        /\ visits' = visits \cup {PathOf(e) : e \in F}
    BY <1>2, <2>2, <2>3 DEF Visit
  <2> HIDE DEF F
  <2>5. Level <= PathMax
    BY <1>0, <2>1, HandFits
  <2>6. Kind[ep] # "dir" /\ Asks(call.flags, Kind[ep])
    BY <1>1, <1>5, AsksIs DEF InStep, Looking
  <2>7. CASE pc' = "read" /\ UNCHANGED <<stack, excused>>
    BY <1>1, <1>4, <2>1, <2>4, <2>5, <2>6, <2>7, ReadsOn
  <2>8. CASE /\ pc' = "return" /\ stack' = SubSeq(stack, 1, Level - 1)
             /\ excused' = excused \cup {PathOf(e) : e \in Top.left \cup {ep}}
    <3>1. excused' = excused \cup {PathOf(e) : e \in A}
      BY <1>4, <2>8
    <3>2. Hand \subseteq {PathOf(e) : e \in A}
      BY <1>4, <2>1
    <3>3. \A e \in F : /\ e \in Seen(call.flags, Leads(Dir(Level))) /\ Level <= PathMax
                       /\ Asks(call.flags, Kind[e])
      BY <1>3, <2>4, <2>5, <2>6
    <3>4. /\ pc \in Running /\ call' = call /\ path' = path /\ pc' = "return"
          /\ stack' = SubSeq(stack, 1, Level - 1)
      BY <1>0, <1>1, <2>8
    <3>5. /\ A \in SUBSET Tokens /\ Top.left \subseteq A /\ A \subseteq Top.left \cup {ep}
          /\ F \in SUBSET Tokens /\ visits' = visits \cup {PathOf(e) : e \in F}
      BY <1>4, <2>4
    <3> QED BY <2>1, <3>1, <3>2, <3>3, <3>4, <3>5, EndsLevel
  <2> QED BY <1>1, <2>7, <2>8
<1>6. CASE st # PathOf(ep)
  <2>1. Hand = {} /\ PathOf(ep) \in excused /\ visits' = visits
    BY <1>1, <1>6, HandIs DEF InStep, Looking
  <2>2. CASE pc' = "read" /\ UNCHANGED <<stack, excused>>
    <3>1. N \in SUBSET Tokens /\ excused' = excused \cup {PathOf(e) : e \in N}
      BY <1>4, <2>2
    <3>2. Placed' /\ Rest' = Rest
      BY <1>0, <1>1, <2>2, <3>1, StayStep
    <3>3. Todo' = Todo
      BY <2>1, <2>2, <3>2, HandThen DEF Todo
    <3>4. Noted'
      BY <1>1, <1>2, <2>1, <2>2, <3>3, SameStep
    <3>5. SelfDone'
      BY <1>0, <1>1, <2>1, SelfStep
    <3>6. Looking'
      BY <2>2 DEF Looking
    <3> QED BY <3>2, <3>4, <3>5, <3>6 DEF InStep
  <2>3. CASE /\ pc' = "return" /\ stack' = SubSeq(stack, 1, Level - 1)
             /\ excused' = excused \cup {PathOf(e) : e \in Top.left \cup {ep}}
    <3>1. excused' = excused \cup {PathOf(e) : e \in A}
      BY <1>4, <2>3
    <3>2. Hand \subseteq {PathOf(e) : e \in A}
      BY <2>1
    <3>4. /\ pc \in Running /\ call' = call /\ path' = path /\ pc' = "return"
          /\ stack' = SubSeq(stack, 1, Level - 1)
      BY <1>0, <1>1, <2>3
    <3>5. /\ A \in SUBSET Tokens /\ Top.left \subseteq A /\ A \subseteq Top.left \cup {ep}
          /\ N \in SUBSET Tokens /\ visits' = visits \cup {PathOf(e) : e \in N} /\ N = {}
      BY <1>4, <2>1
    <3> QED BY <2>1, <3>1, <3>2, <3>4, <3>5, EndsLevel
  <2> QED BY <1>1, <2>2, <2>3
<1> QED BY <1>5, <1>6

LEMMA DirFuncWalk == ASSUME IInv, Paths, InStep, DirFunc, ~halted' PROVE InStep'
<1>1. /\ pc = "dirfunc" /\ UNCHANGED <<call, path, plen, ep, st>> /\ Visit
      /\ \/ pc' = "read" /\ UNCHANGED stack /\ excused' = excused \cup {PathOf(e) : e \in {ep}}
         \/ pc' = "enter" /\ UNCHANGED <<stack, excused>>
         \/ /\ pc' = "return" /\ stack' = SubSeq(stack, 1, Level - 1)
            /\ excused' = excused \cup {PathOf(e) : e \in Top.left \cup {ep}}
  BY EndLevelIs DEF DirFunc, Excuse, buffer
<1>0. InDir /\ pc \in Running
  BY <1>1 DEF InDir, Running
<1>2. Top.left \subseteq Tokens /\ ep \in Tokens /\ Noted
  BY <1>0, Starts
<1>3. /\ ep \in Seen(call.flags, Leads(Dir(Level))) /\ Kind[ep] = "dir"
      /\ Asks(call.flags, Kind[ep])
  BY <1>1, AsksIs DEF InStep, Looking
<1> DEFINE A == Top.left \cup {ep}
           B == {ep}
           F == {ep}
<1>4. /\ A \in SUBSET Tokens /\ Top.left \subseteq A /\ A \subseteq Top.left \cup {ep} /\ ep \in A
      /\ {PathOf(e) : e \in Top.left \cup {ep}} = {PathOf(e) : e \in A}
      /\ PathOf(ep) \in {PathOf(e) : e \in A}
      /\ B \in SUBSET {ep} /\ ep \in B /\ {PathOf(e) : e \in {ep}} = {PathOf(e) : e \in B}
  BY <1>2
<1>5. AtHand /\ Hand = {PathOf(ep)} /\ path' = PathOf(ep)
  BY <1>1, HandIs DEF Paths, Here, AtHand
<1>6. SubSeq(path, 1, plen) = PathOf(ep)
  <2>1. path = PathOf(ep) /\ plen = Len(path) /\ path \in Seq(Tokens)
    BY <1>5 DEF AtHand, Paths, Typed
  <2>2. SubSeq(path, 1, Len(path)) = path
    BY <2>1
  <2> QED BY <2>1, <2>2
<1>7. /\ F \in SUBSET Tokens /\ F \in SUBSET {ep} /\ ep \in F /\ \A e \in F : e = ep
      /\ visits' = visits \cup {PathOf(e) : e \in F}
  BY <1>1, <1>2, <1>6 DEF Visit
<1> HIDE DEF A, B, F
<1>8. Level <= PathMax
  BY <1>0, <1>5, HandFits
<1>9. CASE pc' = "read" /\ UNCHANGED stack /\ excused' = excused \cup {PathOf(e) : e \in {ep}}
  <2>1. excused' = excused \cup {PathOf(e) : e \in B}
    BY <1>4, <1>9
  <2> QED BY <1>1, <1>3, <1>4, <1>5, <1>7, <1>8, <1>9, <2>1, ReadsOn
<1>10. CASE pc' = "enter" /\ UNCHANGED <<stack, excused>>
  BY <1>1, <1>3, <1>5, <1>7, <1>8, <1>10, GoesIn
<1>11. CASE /\ pc' = "return" /\ stack' = SubSeq(stack, 1, Level - 1)
            /\ excused' = excused \cup {PathOf(e) : e \in Top.left \cup {ep}}
  <2>1. excused' = excused \cup {PathOf(e) : e \in A}
    BY <1>4, <1>11
  <2>2. Hand \subseteq {PathOf(e) : e \in A}
    BY <1>4, <1>5
  <2>3. \A e \in F : /\ e \in Seen(call.flags, Leads(Dir(Level))) /\ Level <= PathMax
                     /\ Asks(call.flags, Kind[e])
    BY <1>3, <1>7, <1>8
  <2>4. /\ pc \in Running /\ call' = call /\ path' = path /\ pc' = "return"
        /\ stack' = SubSeq(stack, 1, Level - 1)
    BY <1>0, <1>1, <1>11
  <2>5. /\ A \in SUBSET Tokens /\ Top.left \subseteq A /\ A \subseteq Top.left \cup {ep}
        /\ F \in SUBSET Tokens /\ visits' = visits \cup {PathOf(e) : e \in F}
    BY <1>4, <1>7
  <2> QED BY <1>5, <2>1, <2>2, <2>3, <2>4, <2>5, EndsLevel
<1> QED BY <1>1, <1>9, <1>10, <1>11

(* The directory at hand is not looked into.                                *)
LEMMA StaysOut ==
  ASSUME IInv, Paths, InStep, pc \in {"enter", "opendir"}, Level # 0, call' = call,
         path' = path, stack' = stack, pc' \in {"read", "return"}, visits' = visits,
         NEW E \in SUBSET {ep}, excused' = excused \cup {PathOf(e) : e \in E},
         ep \in E \/ "NOSUBDIR" \in call.flags
  PROVE  InStep'
<1>0. InDir
  BY DEF InDir, Running
<1>1. /\ \A e : PathOf(e) = Ent(Dir(Level), e) /\ ep \in Tokens
      /\ Typed /\ Chain /\ Placed /\ call.dirpath # <<>>
  BY <1>0, Starts
<1>2. ep \notin Top.left
  BY DEF InStep, Looking
<1>3. E \in SUBSET Tokens
  BY <1>1
<1>4. Placed' /\ Rest' = Rest
  BY <1>0, <1>3, StayStep
<1>5. path = PathOf(ep)
  BY DEF Paths, Here, AtHand
<1>6. Hand = {Ent(PathOf(ep), m) : m \in Entries[ep]} /\ Hand' = {}
  BY <1>5, HandIs, HandThen
<1>7. Todo = Rest \cup {Ent(PathOf(ep), m) : m \in Entries[ep]} /\ Todo' = Rest
  BY <1>4, <1>6 DEF Todo
<1>8. \A r \in Todo' : ~Under(PathOf(ep), r)
  BY <1>1, <1>2, <1>7, ApartRest
<1>9. excused' = excused \/ excused' = excused \cup {PathOf(ep)}
  <2>1. E = {} \/ E = {ep}
    OBVIOUS
  <2>2. CASE E = {}
    BY <2>2
  <2>3. CASE E = {ep}
    BY <2>3
  <2> QED BY <2>1, <2>2, <2>3
<1>10. PathOf(ep) \in excused' \/ "NOSUBDIR" \in call.flags
  OBVIOUS
<1>11. Shuts(call.flags, Dir(Level), ep, excused, excused', Todo, Todo')
  <2>1. /\ Todo' \subseteq Todo
        /\ \A m \in Entries[ep] : Ent(PathOf(ep), m) \in Todo
        /\ \A r \in Todo : r \in Todo' \/ \E m \in Entries[ep] : r = Ent(PathOf(ep), m)
    BY <1>7
  <2>2. Ent(Dir(Level), ep) = PathOf(ep)
    BY <1>1
  <2> QED BY <1>8, <1>9, <1>10, <2>1, <2>2 DEF Shuts
<1>12. Noted'
  BY <1>0, <1>11, ShutStep
<1>13. SelfDone'
  BY <1>0, SelfStep
<1>14. Looking'
  BY DEF Looking
<1> QED BY <1>4, <1>12, <1>13, <1>14 DEF InStep

LEMMA EnterWalk == ASSUME IInv, Paths, InStep, Enter PROVE InStep'
<1>1. /\ pc = "enter" /\ UNCHANGED <<call, stack, path, ep, st, visits>>
      /\ \/ Flag("NOSUBDIR") /\ pc' = "read" /\ UNCHANGED excused
         \/ ~Flag("NOSUBDIR") /\ pc' = "opendir" /\ UNCHANGED excused
         \/ pc' = "read" /\ excused' = excused \cup {PathOf(e) : e \in {ep}}
  BY DEF Enter, Excuse, buffer
<1>0. InDir
  BY <1>1 DEF InDir, Running
<1>2. Level # 0 /\ ep \in Tokens /\ Noted
  BY <1>0, Starts
<1> DEFINE N == {}
           B == {ep}
<1>3. /\ N \in SUBSET Tokens /\ N \in SUBSET {ep} /\ excused = excused \cup {PathOf(e) : e \in N}
      /\ B \in SUBSET {ep} /\ ep \in B /\ {PathOf(e) : e \in {ep}} = {PathOf(e) : e \in B}
  OBVIOUS
<1> HIDE DEF N, B
<1>4. CASE Flag("NOSUBDIR") /\ pc' = "read" /\ UNCHANGED excused
  <2>1. "NOSUBDIR" \in call.flags /\ excused' = excused \cup {PathOf(e) : e \in N}
    BY <1>3, <1>4 DEF Flag
  <2> QED BY <1>1, <1>2, <1>3, <1>4, <2>1, StaysOut
<1>5. CASE pc' = "read" /\ excused' = excused \cup {PathOf(e) : e \in {ep}}
  <2>1. excused' = excused \cup {PathOf(e) : e \in B}
    BY <1>3, <1>5
  <2> QED BY <1>1, <1>2, <1>3, <1>5, <2>1, StaysOut
<1>6. CASE ~Flag("NOSUBDIR") /\ pc' = "opendir" /\ UNCHANGED excused
  <2>1. excused' = excused \cup {PathOf(e) : e \in N}
    BY <1>3, <1>6
  <2>2. /\ Placed' /\ Rest' = Rest /\ Level' = Level /\ Top' = Top /\ Dir(Level)' = Dir(Level)
        /\ \A x : PathOf(x)' = PathOf(x)
    BY <1>0, <1>1, <1>3, <2>1, StayStep
  <2>3. PathOf(ep)' = PathOf(ep)
    BY <1>1, <2>2 DEF PathOf
  <2>4. Hand' = Hand
    BY <1>1, <1>6, HandIs, HandThen
  <2>5. Noted'
    BY <1>1, <1>2, <1>6, <2>2, <2>4, SameStep DEF Todo
  <2>6. SelfDone'
    BY <1>0, <1>1, SelfStep
  <2>7. Leads(Dir(Level))' = Leads(Dir(Level))
    BY <2>2 DEF Leads
  <2>8. /\ ep \in Seen(call.flags, Leads(Dir(Level))) /\ ep \notin Top.left
        /\ Kind[ep] = "dir" /\ PathOf(ep) \notin excused
    BY <1>1 DEF InStep, Looking
  <2>9. Looking'
    BY <1>1, <1>6, <2>2, <2>3, <2>7, <2>8 DEF Looking, Flag
  <2> QED BY <2>2, <2>5, <2>6, <2>9 DEF InStep
<1> QED BY <1>1, <1>4, <1>5, <1>6

(* DIRPATH stays visited. *)
LEMMA SelfSame ==
  ASSUME SelfDone, call' = call, visits' = visits PROVE SelfDone'
<1>1. Stripped' = Stripped /\ Self' = Self
  BY DEF Stripped, Self, IsRoot
<1> QED BY <1>1 DEF SelfDone, AskedFor, Flag

(* The entries of a directory that is read are those that were left to do;  *)
(* it is left out when it cannot be read.                                   *)
LEMMA OpenDirWalk == ASSUME IInv, Paths, InStep, OpenDir, ~halted' PROVE InStep'
<1>1. /\ pc = "opendir" /\ UNCHANGED <<call, path, ep, visits>>
      /\ \/ pc' = "read" /\ UNCHANGED excused
         \/ /\ pc' = "return" /\ stack' = stack /\ Fatal(Level + 1)
            /\ excused' = excused \cup {path}
  BY DEF OpenDir, buffer
<1>2. Typed /\ Chain /\ call.dirpath # <<>> /\ ep \in Tokens
  BY <1>1 DEF Paths, Here, Typed
<1>3. CASE /\ pc' = "return" /\ stack' = stack /\ Fatal(Level + 1)
           /\ excused' = excused \cup {path}
  <2>1. Level # 0
    <3>1. ~(Level + 1 <= 1)
      BY <1>3 DEF Fatal
    <3>2. 0 + 1 <= 1
      OBVIOUS
    <3> QED BY <3>1, <3>2
  <2>2. path = PathOf(ep)
    BY <1>1, <2>1 DEF Paths, Here, AtHand
  <2> DEFINE E == {ep}
  <2>3. E \in SUBSET {ep} /\ ep \in E /\ excused' = excused \cup {PathOf(e) : e \in E}
    BY <1>3, <2>2
  <2> HIDE DEF E
  <2> QED BY <1>1, <1>3, <2>1, <2>3, StaysOut
<1>4. CASE pc' = "read" /\ UNCHANGED excused
  <2>1. PICK l \in Nat : l = Level + 1
    BY <1>2, Places
  <2> DEFINE s == Stripped
             f == call.flags
             x == excused
  <2>2. /\ Level \in Nat /\ Level' = l
        /\ \A k \in 1..Level : stack'[k] = stack[k] /\ Dir(k)' = Dir(k)
        /\ stack'[l] = [name |-> ep, left |-> Entries[ep], at |-> Len(path)]
        /\ Dir(l)' = path
    BY <1>4, <2>1, Begins
  <2>3. stack'[l].name = ep /\ stack'[l].left = Entries[ep]
    BY <2>2
  <2>4. Stripped' = Stripped
    BY <1>1 DEF Stripped
  <2>5. /\ s \in Seq(Tokens) /\ s # <<>>
        /\ \A k \in 1..Level : Dir(k) \in Seq(Tokens)
    BY <1>2, Places
  <2>6. Reached(s, f, path, l - 1, x) /\ Passes(f, l - 1, path, x) /\ Leads(path) = ep
    <3>1. CASE Level = 0
      <4>1. path = s /\ Leads(path) = ep /\ l - 1 = 0
        BY <1>1, <2>1, <3>1 DEF Paths, Here, AtDirpath, Leads
      <4>2. Reached(s, f, path, 0, x)
        BY <2>5, <4>1, ReachedNone
      <4> QED BY <4>1, <4>2 DEF Passes
    <3>2. CASE Level # 0
      <4>0. InDir
        BY <1>1, <3>2 DEF InDir
      <4>1. /\ Level \in 1..Level /\ Level - 1 \in Nat /\ (Level - 1) + 1 = l - 1
            /\ Dir(Level) \in Seq(Tokens) /\ PathOf(ep) = Ent(Dir(Level), ep)
        BY <2>1, <4>0, Starts
      <4>2. /\ ep \in Seen(f, Leads(Dir(Level))) /\ Kind[ep] = "dir"
            /\ PathOf(ep) \notin x /\ "NOSUBDIR" \notin f
        BY <1>1, <3>2 DEF InStep, Looking, Flag
      <4>3. path = Ent(Dir(Level), ep)
        BY <1>1, <3>2, <4>1 DEF Paths, Here, AtHand
      <4>4. Reached(s, f, Dir(Level), Level - 1, x) /\ Passes(f, Level - 1, Dir(Level), x)
        BY <4>1 DEF InStep, Placed
      <4>5. Leads(path) = ep
        BY <1>2, <4>1, <4>3, EntIs
      <4>6. Reached(s, f, path, (Level - 1) + 1, x)
        BY <1>2, <2>5, <4>1, <4>2, <4>3, <4>4, ReachedNext
      <4>7. Passes(f, l - 1, path, x)
        BY <4>1, <4>2, <4>3, <4>5 DEF Passes
      <4> QED BY <4>1, <4>5, <4>6, <4>7
    <3> QED BY <3>1, <3>2
  <2>7. \A k \in 1..l : k \in 1..Level \/ k = l
    BY <2>1, <2>2
  <2>8. ASSUME NEW k \in 1..l
        PROVE  /\ Reached(s, f, Dir(k)', k - 1, x) /\ Passes(f, k - 1, Dir(k)', x)
               /\ stack'[k].left \subseteq Entries[Leads(Dir(k)')]
               /\ k # l => stack'[k + 1].name \notin stack'[k].left
    <3>1. CASE k = l
      BY <2>2, <2>3, <2>6, <3>1
    <3>2. CASE k \in 1..Level
      <4>1. /\ Reached(s, f, Dir(k), k - 1, x) /\ Passes(f, k - 1, Dir(k), x)
            /\ stack[k].left \subseteq Entries[Leads(Dir(k))]
            /\ k # Level => stack[k + 1].name \notin stack[k].left
        BY <3>2 DEF InStep, Placed
      <4>2. CASE k = Level
        <5>1. ep \notin stack[k].left
          BY <1>1, <3>2, <4>2 DEF InStep, Looking, Top
        <5> QED BY <2>1, <2>2, <2>3, <3>2, <4>1, <4>2, <5>1
      <4>3. CASE k # Level
        <5>1. k + 1 \in 1..Level
          BY <2>2, <3>2, <4>3
        <5> QED BY <2>2, <3>2, <4>1, <4>3, <5>1
      <4> QED BY <4>2, <4>3
    <3> QED BY <2>7, <3>1, <3>2
  <2>9. Placed'
    BY <1>1, <1>4, <2>2, <2>4, <2>8 DEF Placed
  <2>10. Rest' = Rest \cup {Ent(path, e) : e \in Entries[ep]}
    <3>1. \A k \in 1..Level : k \in 1..l
      BY <2>1, <2>2
    <3>2. Rest' = UNION {{Ent(Dir(k)', e) : e \in stack'[k].left} : k \in 1..l}
      BY <2>2 DEF Rest
    <3>3. l \in 1..l
      BY <2>1, <2>2
    <3>4. ASSUME NEW r
          PROVE  r \in Rest' <=> r \in Rest \/ \E e \in Entries[ep] : r = Ent(path, e)
      <4>1. r \in Rest' <=> \E k \in 1..l : \E e \in stack'[k].left : r = Ent(Dir(k)', e)
        BY <3>2
      <4>2. r \in Rest <=> \E k \in 1..Level : \E e \in stack[k].left : r = Ent(Dir(k), e)
        BY DEF Rest
      <4>3. (\E e \in Entries[ep] : r = Ent(path, e))
            <=> \E e \in stack'[l].left : r = Ent(Dir(l)', e)
        BY <2>2, <2>3
      <4> QED BY <2>2, <2>7, <3>1, <3>3, <4>1, <4>2, <4>3
    <3> QED BY <3>4
  <2>11. Todo' = Todo
    BY <1>1, <1>4, <2>10, HandIs, HandThen DEF Todo
  <2>12. Noted'
    BY <1>1, <1>4, <2>11, SameStep DEF InStep
  <2>13. SelfDone'
    BY <1>1, SelfSame DEF InStep
  <2>14. Looking'
    BY <1>4 DEF Looking
  <2> QED BY <2>9, <2>12, <2>13, <2>14 DEF InStep
<1> QED BY <1>1, <1>3, <1>4

(* A level that ended on its own lets the level above read on.              *)
LEMMA ResumeWalk ==
  ASSUME IInv, Paths, Halts, InStep, Resume, ~halted'
  PROVE  InStep'
<1>1. pc = "return" /\ Level # 0 /\ UNCHANGED <<call, path, visits, excused, halted>>
  BY DEF Resume, buffer, history
<1>2. pc' = "read" /\ UNCHANGED stack
  <2>1. ~(Flag("ACTIONRETVAL") /\ stop)
    BY <1>1 DEF Halts
  <2>2. ~(~Flag("ACTIONRETVAL") /\ tmp = ERR)
    BY <1>1 DEF Halts, IInv, Handed
  <2> QED BY <2>1, <2>2 DEF Resume
<1>3. Typed /\ Chain /\ call.dirpath # <<>> /\ Placed /\ Noted /\ excused \subseteq Seq(Tokens)
  BY <1>1 DEF Paths, Here, InStep, Noted, Book
<1>4. Level \in Nat /\ Level' = Level /\ Level <= Level
  <2>1. Level \in Nat
    BY <1>3, Places
  <2> QED BY <1>2, <2>1 DEF Level
<1>5. \A k \in 1..Level : Dir(k)' = Dir(k) /\ stack'[k] = stack[k]
  BY <1>1, <1>2 DEF Dir
<1> DEFINE E == {}
<1>6. E \in SUBSET Tokens /\ excused' = excused \cup {PathOf(e) : e \in E}
  BY <1>1
<1> HIDE DEF E
<1>7. Placed'
  BY <1>1, <1>3, <1>4, <1>5, <1>6, PlacedStep
<1>8. Rest' = Rest
  BY <1>4, <1>5 DEF Rest
<1>9. Todo' = Todo
  BY <1>1, <1>2, <1>8, HandIs, HandThen DEF Todo
<1>10. Noted'
  BY <1>1, <1>3, <1>9, SameStep
<1>11. SelfDone'
  BY <1>1, SelfSame DEF InStep
<1>12. Looking'
  BY <1>2 DEF Looking
<1> QED BY <1>7, <1>10, <1>11, <1>12 DEF InStep

(* DIRPATH is visited, unless only files are asked for.                     *)
LEMMA RootWalk == ASSUME IInv, Paths, Goes, Root, ~halted' PROVE InStep'
<1>1. /\ pc = "root" /\ UNCHANGED <<call, path, plen, stack, ep, excused>> /\ pc' = "opendir"
      /\ IF RegOnly THEN visits' = visits ELSE Visit
  BY DEF Root, buffer
<1>2. /\ visits = {} /\ excused = {} /\ Kind[ep] = "dir"
      /\ plen = IF IsRoot THEN 0 ELSE Len(Stripped)
  BY <1>1 DEF Goes
<1>3. /\ Typed /\ Chain /\ call.dirpath # <<>> /\ path = Stripped /\ ep = Leads(Stripped)
      /\ Level = 0
  BY <1>1 DEF Paths, Here, AtDirpath, Leads, IInv, Descriptors
<1>4. /\ Stripped \in Seq(Tokens) /\ Stripped # <<>>
      /\ Self \in Seq(Tokens) /\ Len(Self) <= Len(Stripped)
  BY <1>3, Places
<1>5. SubSeq(path, 1, plen) = Self
  <2>1. CASE IsRoot
    <3>1. SubSeq(path, 1, 0) = <<>>
      BY <1>3, <1>4
    <3> QED BY <1>2, <2>1, <3>1 DEF Self
  <2>2. CASE ~IsRoot
    <3>1. SubSeq(path, 1, Len(path)) = path
      BY <1>3, <1>4
    <3> QED BY <1>2, <1>3, <2>2, <3>1 DEF Self
  <2> QED BY <2>1, <2>2
<1>6. visits' = IF RegOnly THEN {} ELSE {Self}
  BY <1>1, <1>2, <1>5 DEF Visit
<1>7. AskedFor("dir") <=> ~RegOnly
  BY DEF AskedFor, RegOnly
<1>8. Stripped' = Stripped /\ Self' = Self /\ Level' = 0
  BY <1>1, <1>3 DEF Stripped, Self, IsRoot, Level
<1>9. SelfDone'
  <2>1. AskedFor("dir")' <=> AskedFor("dir")
    BY <1>1 DEF AskedFor, Flag
  <2>2. Kind[Leads(Stripped')] = "dir" /\ (AskedFor("dir")' <=> Self' \in visits')
    BY <1>2, <1>3, <1>6, <1>7, <1>8, <2>1
  <2> QED BY <2>2 DEF SelfDone, AskedFor, Flag, Leads
<1>10. Placed' /\ Looking'
  BY <1>1, <1>8 DEF Placed, Looking
<1>11. Todo' = {Ent(Stripped, e) : e \in Entries[Leads(Stripped)]}
  <2>1. Rest' = {}
    BY <1>8 DEF Rest
  <2>2. Hand' = {Ent(Stripped, e) : e \in Entries[Leads(Stripped)]}
    BY <1>1, <1>3, HandThen
  <2> QED BY <2>1, <2>2 DEF Todo
<1>12. Noted'
  <2> DEFINE s == Stripped
             f == call.flags
             t == Todo'
             v == visits'
             self == Self
  <2>1. /\ s \in Seq(Tokens) /\ s # <<>> /\ self \in Seq(Tokens) /\ Len(self) <= Len(s)
        /\ v \subseteq {self} /\ t = {Ent(s, e) : e \in Entries[Leads(s)]}
    BY <1>4, <1>6, <1>11
  <2>2. Noted' = Book(s, f, self, v, {}, t)
    BY <1>1, <1>2, <1>8 DEF Noted
  <2> HIDE DEF s, f, t, v, self
  <2>3. Book(s, f, self, v, {}, t)
    BY <2>1, BookStart
  <2> QED BY <2>2, <2>3
<1> QED BY <1>9, <1>10, <1>12 DEF InStep

(* The steps before the walk, and after it. *)
LEMMA InitWalk == ASSUME Init PROVE Walk
BY DEF Init, Walk, Halts, Goes, VisitsAll, Walking, Running

(* An error before the first directory is read ends the walk.               *)
LEMMA FatalEnds ==
  ASSUME NEW l, Fatal(l)
  PROVE  (halted => halted') /\ (l = 0 \/ ~Flag("ACTIONRETVAL") => halted')
<1>1. 0 <= 1
  OBVIOUS
<1>2. CASE l = 0
  BY <1>1, <1>2, Zenon DEF Fatal
<1>3. CASE l # 0
  BY <1>3 DEF Fatal
<1> QED BY <1>2, <1>3

(* Nothing takes the end of the walk back.                                  *)
LEMMA HaltsKeeps ==
  ASSUME Halts, Next
  PROVE  Halts' /\ (halted => halted')
<1> USE DEF Halts
<1>1. CASE Refuse
  BY <1>1 DEF Refuse, Fatal, Flag
<1>2. CASE OpenRoot
  BY <1>2, FatalEnds DEF OpenRoot, Flag
<1>3. CASE File
  BY <1>3, FatalEnds DEF File, Flag
<1>4. CASE Root
  BY <1>4 DEF Root, Flag
<1>5. CASE OpenDir
  BY <1>5, FatalEnds DEF OpenDir, Flag
<1>6. CASE ReadEnd \/ ReadEntry \/ Classify \/ Enter
  BY <1>6 DEF ReadEnd, ReadEntry, Classify, Enter, Flag
<1>7. CASE ReadFails
  BY <1>7 DEF ReadFails, Fatal, Flag
<1>8. CASE Func \/ DirFunc
  <2>1. UNCHANGED <<call>>
    BY <1>8 DEF Func, DirFunc
  <2>2. \/ UNCHANGED <<stop, halted, failed>>
        \/ halted'
    BY <1>8 DEF Func, DirFunc, EndLevel, Fatal
  <2>3. \/ UNCHANGED <<stop, failed>> \/ halted'
    BY <2>2
  <2> QED BY <2>1, <2>2 DEF Flag
<1>9. CASE Resume \/ Finish
  BY <1>9 DEF Resume, Finish, history, Flag
<1> QED BY <1>1, <1>2, <1>3, <1>4, <1>5, <1>6, <1>7, <1>8, <1>9 DEF Next

LEMMA RefuseWalk == ASSUME Refuse PROVE halted'
BY FatalEnds DEF Refuse

LEMMA OpenRootWalk == ASSUME Goes, OpenRoot, ~halted' PROVE Goes'
<1>1. /\ pc = "start" /\ UNCHANGED <<call, visits, excused>>
      /\ plen' = IF IsRoot THEN 0 ELSE Len(Stripped)
      /\ pc' = IF Kind[ep'] = "dir" THEN "root" ELSE "file"
  BY FatalEnds DEF OpenRoot
<1>2. visits = {} /\ excused = {}
  BY <1>1 DEF Goes
<1>3. Stripped' = Stripped
  BY <1>1 DEF Stripped
<1>4. IsRoot' <=> IsRoot
  BY <1>3 DEF IsRoot
<1> QED BY <1>1, <1>2, <1>3, <1>4 DEF Goes, Walking, Running, VisitsAll

(* A single file is visited, unless it is left out.                         *)
LEMMA FileWalk == ASSUME Paths, Goes, File, ~halted' PROVE Goes'
<1>1. /\ pc = "file" /\ pc' = "done" /\ UNCHANGED <<call, path, plen, ep>>
      /\ \/ visits' = visits /\ excused' = excused \cup {path}
         \/ ~FileLeftOut /\ Visit /\ excused' = excused
  BY FatalEnds DEF File, Return, buffer
<1>2. visits = {} /\ excused = {} /\ plen = IF IsRoot THEN 0 ELSE Len(Stripped)
  BY <1>1 DEF Goes
<1>3. /\ path = Stripped /\ ep = Stripped[Len(Stripped)] /\ Kind[ep] # "dir"
      /\ Stripped \in Seq(Tokens)
  BY <1>1 DEF Paths, Typed, Here, AtDirpath
<1>4. ~IsRoot
  <2> SUFFICES ASSUME IsRoot PROVE FALSE
    OBVIOUS
  <2>1. ep = Slash
    BY <1>3 DEF IsRoot
  <2> QED BY <1>3, <2>1, TreeAssumption
<1>5. SubSeq(path, 1, plen) = Stripped
  <2>1. SubSeq(Stripped, 1, Len(Stripped)) = Stripped
    BY <1>3
  <2> QED BY <1>2, <1>3, <1>4, <2>1
<1>6. \/ visits' = {} /\ excused' = {Stripped}
      \/ ~FileLeftOut /\ visits' = {Stripped} /\ excused' = {}
  BY <1>1, <1>2, <1>3, <1>5 DEF Visit
<1>7. Stripped' = Stripped
  BY <1>1 DEF Stripped
<1>8. IsRoot' = IsRoot /\ FileLeftOut' = FileLeftOut
  BY <1>1, <1>7 DEF IsRoot, FileLeftOut, Flag
<1>9. Kind[Stripped'[Len(Stripped')]] # "dir"
  BY <1>3, <1>7
<1>10. VisitsAll'
  BY <1>4, <1>6, <1>7, <1>8, <1>9 DEF VisitsAll
<1> QED BY <1>1, <1>10 DEF Goes, Walking, Running

(* At the end nothing is left to do.                                        *)
LEMMA FinishWalk == ASSUME IInv, Paths, InStep, Finish PROVE Goes'
<1>1. pc = "return" /\ Level = 0 /\ pc' = "done" /\ UNCHANGED <<call, ep, visits, excused>>
  BY DEF Finish, Return, history
<1>2. Todo = {}
  BY <1>1, HandIs DEF Todo, Rest
<1>3. /\ Book(Stripped, call.flags, Self, visits, excused, {})
      /\ Kind[Leads(Stripped)] = "dir" /\ (AskedFor("dir") <=> Self \in visits)
  BY <1>2 DEF InStep, Noted, SelfDone
<1>4. Stripped \in Seq(Tokens) /\ Stripped # <<>>
  BY <1>1, Places DEF Paths, Here
<1> DEFINE s == Stripped
           f == call.flags
           x == excused
<1>5. \A u : u \in Inside <=> \E p \in Seq(Tokens) : Lies(s, f, p, x) /\ u = <<p, Leads(p)>>
  <2>1. Inside = Tree(s, f, x)
    BY InsideIsTree
  <2>2. Tree(s, f, x) = {<<p, Leads(p)>> : p \in {q \in Seq(Tokens) : Lies(s, f, q, x)}}
    BY <1>4, TreeIs
  <2> QED BY <2>1, <2>2
<1>6. \A kind : AskedFor(kind) <=> Asks(f, kind)
  BY AsksIs
<1> DEFINE W == {u[1] : u \in {v \in Inside : AskedFor(Kind[v[2]])}}
<1>7. \A p : p \in W <=> p \in Seq(Tokens) /\ Rightly(s, f, p, x)
  <2>1. ASSUME NEW p \in W PROVE p \in Seq(Tokens) /\ Rightly(s, f, p, x)
    <3>1. PICK u \in Inside : p = u[1] /\ AskedFor(Kind[u[2]])
      OBVIOUS
    <3>2. PICK q \in Seq(Tokens) : Lies(s, f, q, x) /\ u = <<q, Leads(q)>>
      BY <1>5
    <3> QED BY <1>6, <3>1, <3>2 DEF Rightly
  <2>2. ASSUME NEW p \in Seq(Tokens), Rightly(s, f, p, x) PROVE p \in W
    <3>1. <<p, Leads(p)>> \in Inside /\ AskedFor(Kind[Leads(p)])
      BY <1>5, <1>6, <2>2 DEF Rightly
    <3>2. PICK u \in Inside : u = <<p, Leads(p)>>
      BY <3>1
    <3> QED BY <3>1, <3>2
  <2> QED BY <2>1, <2>2
<1> DEFINE self == IF AskedFor("dir") THEN {Self} ELSE {}
<1> HIDE DEF W, self
<1>8. visits \subseteq self \cup W /\ (self \cup W) \ excused \subseteq visits
  <2>1. \A p : p \in self <=> p = Self /\ p \in visits
    BY <1>3 DEF self
  <2>2. /\ visits \subseteq Seq(Tokens) /\ \A p \in visits : p = Self \/ Rightly(s, f, p, x)
        /\ \A p \in Seq(Tokens) : Rightly(s, f, p, x) => p \in visits \cup excused
    BY <1>3 DEF Book
  <2> QED BY <1>7, <2>1, <2>2
<1>9. /\ Stripped' = Stripped /\ Inside' = Inside /\ \A kind : AskedFor(kind)' <=> AskedFor(kind)
  <2>1. Stripped' = Stripped
    BY <1>1 DEF Stripped
  <2>2. Inside' = Inside
    BY <1>1, <2>1, InsideIsTree, InsideIsTreeThen
  <2> QED BY <1>1, <2>1, <2>2 DEF AskedFor, Flag
<1>10. VisitsAll'
  <2>1. Self' = Self
    BY <1>9 DEF Self, IsRoot
  <2>2. {u[1] : u \in {v \in Inside' : AskedFor(Kind[v[2]])'}} = W
    BY <1>9 DEF W
  <2> QED
    BY <1>1, <1>3, <1>8, <1>9, <2>1, <2>2 DEF VisitsAll, self, Self, Leads
<1> QED BY <1>1, <1>10 DEF Goes, Walking, Running

(* The invariant is about the variables alone. *)
LEMMA SameWalk == ASSUME Walk, UNCHANGED vars PROVE Walk'
<1>1. UNCHANGED <<call, pc, stack, path, plen, ep, st, stop, visits, excused, halted, failed>>
  BY DEF vars, buffer, history
<1>2. Stripped' = Stripped
  BY <1>1 DEF Stripped
<1>3. Self' = Self /\ IsRoot' = IsRoot /\ Level' = Level /\ Top' = Top
  BY <1>1, <1>2 DEF Self, IsRoot, Level, Top
<1>4. (\A k : Dir(k)' = Dir(k)) /\ \A e : PathOf(e)' = PathOf(e)
  BY <1>1, <1>3 DEF Dir, PathOf
<1>5. Rest' = Rest
  BY <1>1, <1>3, <1>4 DEF Rest
<1>6. Todo' = Todo
  BY <1>1, <1>4, <1>5 DEF Todo, Hand
<1>7. Noted' = Noted
  BY <1>1, <1>2, <1>3, <1>6 DEF Noted
<1>8. Inside' = Inside
  BY <1>1, <1>2, InsideIsTree, InsideIsTreeThen
<1>9. Placed' = Placed
  BY <1>1, <1>2, <1>3, <1>4 DEF Placed
<1>10. \A kind : AskedFor(kind)' <=> AskedFor(kind)
  BY <1>1 DEF AskedFor, Flag
<1>11. Looking' = Looking
  BY <1>1, <1>3, <1>4, <1>10 DEF Looking, Flag, Leads, AskedFor
<1>12. SelfDone' = SelfDone
  BY <1>1, <1>2, <1>3, <1>10 DEF SelfDone, AskedFor, Flag, Leads
<1>13. VisitsAll' = VisitsAll
  BY <1>1, <1>2, <1>3, <1>8, <1>10 DEF VisitsAll, FileLeftOut, Flag, AskedFor
<1>14. InStep' = InStep
  BY <1>7, <1>9, <1>11, <1>12 DEF InStep
<1>15. Goes' = Goes
  BY <1>1, <1>2, <1>3, <1>13, <1>14 DEF Goes
<1>16. Halts' = Halts
  BY <1>1 DEF Halts, Flag
<1> QED BY <1>1, <1>15, <1>16 DEF Walk

(* A walk that is under way has not ended.                                  *)
LEMMA OnTheWay ==
  ASSUME InStep', pc' \in Walking
  PROVE  Goes'
BY DEF Goes, Walking, Running, VisitsAll

(* Every step keeps the invariant of the walk. *)
LEMMA NextWalk == ASSUME IInv, Paths, Walk, [Next]_vars PROVE Walk'
<1>1. CASE UNCHANGED vars
  BY <1>1, SameWalk
<1>2. CASE Next
  <2>1. Halts' /\ (halted => halted')
    BY <1>2, HaltsKeeps DEF Walk
  <2> SUFFICES ASSUME ~halted' PROVE Goes'
    BY <2>1 DEF Walk
  <2>2. Halts /\ Goes /\ ~halted
    BY <2>1 DEF Walk
  <2>3. pc \in Walking => InStep
    BY <2>2 DEF Goes
  <2>4. CASE Refuse \/ OpenRoot \/ File
    BY <2>2, <2>4, RefuseWalk, OpenRootWalk, FileWalk
  <2>5. CASE Root
    <3>1. pc' \in Walking
      BY <2>5 DEF Root, Walking
    <3> QED BY <2>2, <2>5, <3>1, RootWalk, OnTheWay
  <2>6. CASE OpenDir
    <3>1. pc \in Walking /\ pc' \in Walking
      BY <2>6 DEF OpenDir, Walking, Running
    <3> QED BY <2>3, <2>6, <3>1, OpenDirWalk, OnTheWay
  <2>7. CASE ReadEnd
    <3>1. pc \in Walking /\ pc' \in Walking
      BY <2>7 DEF ReadEnd, Leave, Walking, Running
    <3> QED BY <2>3, <2>7, <3>1, ReadEndWalk, OnTheWay
  <2>8. CASE ReadEntry
    <3>1. pc \in Walking /\ pc' \in Walking
      BY <2>8 DEF ReadEntry, Walking, Running
    <3> QED BY <2>3, <2>8, <3>1, ReadEntryWalk, OnTheWay
  <2>9. CASE ReadFails
    <3>1. pc \in Walking /\ pc' \in Walking
      BY <2>9 DEF ReadFails, Leave, Walking, Running
    <3> QED BY <2>3, <2>9, <3>1, ReadFailsWalk, OnTheWay
  <2>10. CASE Classify
    <3>1. pc \in Walking /\ pc' \in Walking
      BY <2>10 DEF Classify, Walking, Running
    <3> QED BY <2>3, <2>10, <3>1, ClassifyWalk, OnTheWay
  <2>11. CASE Func
    <3>1. pc \in Walking /\ pc' \in Walking
      BY <2>11 DEF Func, EndLevel, Leave, Walking, Running
    <3> QED BY <2>3, <2>11, <3>1, FuncWalk, OnTheWay
  <2>12. CASE DirFunc
    <3>1. pc \in Walking /\ pc' \in Walking
      BY <2>12 DEF DirFunc, EndLevel, Leave, Walking, Running
    <3> QED BY <2>3, <2>12, <3>1, DirFuncWalk, OnTheWay
  <2>13. CASE Enter
    <3>1. pc \in Walking /\ pc' \in Walking
      BY <2>13 DEF Enter, Walking, Running
    <3> QED BY <2>3, <2>13, <3>1, EnterWalk, OnTheWay
  <2>14. CASE Resume
    <3>1. pc \in Walking /\ pc' \in Walking
      BY <2>14 DEF Resume, Leave, Walking, Running
    <3> QED BY <2>2, <2>3, <2>14, <3>1, ResumeWalk, OnTheWay
  <2>15. CASE Finish
    <3>1. pc \in Walking
      BY <2>15 DEF Finish, Walking
    <3> QED BY <2>3, <2>15, <3>1, FinishWalk
  <2> QED BY <1>2, <2>4, <2>5, <2>6, <2>7, <2>8, <2>9, <2>10, <2>11, <2>12, <2>13, <2>14, <2>15
          DEF Next
<1> QED BY <1>1, <1>2

(* Until a walk is halted, everything it is asked to visit is visited,      *)
(* left out, or at or under something that is left to do.                   *)
THEOREM WalkInductive == Spec => []Walk
<1>1. Init => Walk
  BY InitWalk
<1>2. IInv /\ Paths /\ Walk /\ [Next]_vars => Walk'
  BY NextWalk
<1> QED BY <1>1, <1>2, Inductive, PathsInductive, PTL DEF Spec

(* A walk that was not halted has called FUNC for everything below DIRPATH  *)
(* its flags ask for, but what it was told to leave out or could not look   *)
(* at, and for nothing else, whatever the tree and however many links lead  *)
(* back into it.                                                            *)
THEOREM EverythingVisited == Spec => []VisitsAll
<1>1. Walk => VisitsAll
  BY DEF Walk, Goes, VisitsAll
<1> QED BY <1>1, WalkInductive, PTL
=============================================================================
