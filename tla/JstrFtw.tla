------------------------------- MODULE JstrFtw -------------------------------
(***************************************************************************)
(* include/io.h, jstr_io_ftw_len: a walk through a directory tree, with    *)
(* its flags, the callbacks FUNC and FUNC_MATCH, the one buffer all levels *)
(* of the walk write their paths to, and the descriptors they hold.  The   *)
(* build is the one with openat, fdopendir and fstatat and without d_type. *)
(*                                                                         *)
(* The path buffer is a sequence of names and slashes.  A level of the     *)
(* recursion is a frame of the stack; the last one is running.             *)
(***************************************************************************)
EXTENDS Naturals, Integers, Sequences

CONSTANTS
  Names,     (* the names of the entries *)
  Slash,     (* '/', and the directory it names *)
  Kind,      (* what a name leads to: "reg", "dir" or "other" *)
  Entries,   (* the names in the directory a name leads to *)
  Hidden,    (* the names that begin with a dot *)
  Size,      (* the length of each name *)
  DirPaths,  (* the paths a walk is called with *)
  PathMax,   (* JSTR_IO_PATH_MAX *)
  MaxLevels  (* bound: no walk is deeper *)

Tokens == Names \cup {Slash}

ASSUME TreeAssumption ==
  /\ Slash \notin Names /\ Hidden \subseteq Names
  /\ Kind \in [Tokens -> {"reg", "dir", "other"}]
  /\ Entries \in [Tokens -> SUBSET Names]
  /\ Kind[Slash] = "dir"

(* There is a slash between two names of a path. *)
ASSUME PathsAssumption ==
  /\ DirPaths \subseteq Seq(Tokens)
  /\ \A p \in DirPaths : \A k \in 1..(Len(p) - 1) : Slash \in {p[k], p[k + 1]}

ASSUME SizesAssumption ==
  /\ Size \in [Tokens -> Nat] /\ Size[Slash] = 1
  /\ {PathMax, MaxLevels} \subseteq Nat

VARIABLES
  call,     (* the path, the flags, and whether there is a FUNC_MATCH *)
  pc,       (* where the running level is *)
  stack,    (* the levels: directory, its name, length of its path, entries left *)
  path,     (* the path buffer *)
  plen,     (* ftw.dirpath_len *)
  ep,       (* the name of ftw.ep, or of DIRPATH *)
  st,       (* the path of what ftw.st describes *)
  tmp,      (* what the level that ended returned *)
  stop,     (* action_stop *)
  open,     (* the levels that have an open descriptor *)
  ret,      (* what the call returned *)
  visits,   (* history: the paths FUNC was called with *)
  excused,  (* history: the paths the walk was told to skip, or could not look at *)
  halted,   (* history: FUNC, or an error, has ended the walk *)
  failed    (* history: the levels at which an error other than EACCES and ENOENT was met *)

buffer == <<path, plen>>
history == <<visits, excused, halted, failed>>
vars == <<call, pc, stack, buffer, ep, st, tmp, stop, open, ret, history>>

SUCC == 0
ERR == -1

(* jstr_io_ftw_actionretval_ty: STOP is 0, as is success. *)
STOP == 0
CONTINUE == 1
SKIP_SIBLINGS == 2
SKIP_SUBTREE == 3
FuncRets == {ERR, STOP, CONTINUE, SKIP_SIBLINGS, SKIP_SUBTREE}

(* NOSTAT and STATREG make no difference in a build without d_type. *)
Flags == {"MATCHPATH", "REG", "DIR", "NOSUBDIR", "NOHIDDEN", "ACTIONRETVAL"}
Flag(f) == f \in call.flags

(* JSTR_IO_FTW_REG without JSTR_IO_FTW_DIR, and the other way round. *)
RegOnly == Flag("REG") /\ ~Flag("DIR")
DirOnly == Flag("DIR") /\ ~Flag("REG")

Init ==
  /\ call \in [dirpath : DirPaths, flags : SUBSET Flags, match : BOOLEAN]
  /\ Flag("MATCHPATH") => call.match
  /\ pc = "start"
  /\ stack = <<>>
  /\ path = <<>> /\ plen = 0
  /\ ep = Slash /\ st = <<>>
  /\ tmp = SUCC /\ ret = SUCC
  /\ stop = FALSE
  /\ open = {}
  /\ visits = {} /\ excused = {} /\ failed = {}
  /\ halted = FALSE

(* The length in bytes of a path. *)
Bytes(p) == LET sum[k \in 0..Len(p)] == IF k = 0 THEN 0 ELSE sum[k - 1] + Size[p[k]]
            IN  sum[Len(p)]

Level == Len(stack)
Top == stack[Level]

(***************************************************************************)
(* jstr_io_ftw_len, before the walk.                                       *)
(***************************************************************************)

(* The trailing slashes are left out. *)
Stripped ==
  LET kept == {k \in 1..Len(call.dirpath) : k = 1 \/ call.dirpath[k] # Slash}
  IN  SubSeq(call.dirpath, 1, CHOOSE k \in kept : \A q \in kept : q <= k)

Return(r) == pc' = "done" /\ ret' = r

(* Errors that end the level, or the call, with JSTR_RET_ERR. *)
Fatal(l) ==
  /\ failed' = failed \cup {l}
  /\ halted' = (halted \/ ~Flag("ACTIONRETVAL") \/ l <= 1)

Refuse ==
  /\ pc = "start"
  /\ call.dirpath = <<>> \/ Bytes(call.dirpath) >= PathMax
  /\ Return(ERR)
  /\ Fatal(0)
  /\ UNCHANGED <<call, stack, buffer, ep, st, tmp, stop, open, visits, excused>>

IsRoot == Stripped = <<Slash>>

(* "/" is not looked at: its length is told as 0, and ftw.st is filled only *)
(* by the first entry.                                                      *)
OpenRoot ==
  /\ pc = "start"
  /\ call.dirpath # <<>> /\ Bytes(call.dirpath) < PathMax
  /\ path' = Stripped
  /\ plen' = IF IsRoot THEN 0 ELSE Len(Stripped)
  /\ ep' = Stripped[Len(Stripped)]
  /\ \/ (* open or fstat fails *)
        Return(ERR) /\ Fatal(0) /\ UNCHANGED <<st, open>>
     \/ /\ open' = {1}
        /\ st' = IF IsRoot THEN <<>> ELSE path'
        /\ pc' = (IF Kind[ep'] = "dir" THEN "root" ELSE "file")
        /\ UNCHANGED <<ret, halted, failed>>
  /\ UNCHANGED <<call, stack, tmp, stop, visits, excused>>

(* FUNC is called, of an entry whose type is known. *)
Visit == visits' = visits \cup {SubSeq(path, 1, plen)}

(* The length FUNC_MATCH is given with the name of a file behind a slash:   *)
(* it is taken from the slash, as if that were the start of the path.       *)
FileNameLen ==
  IF \E k \in DOMAIN path : path[k] = Slash THEN Bytes(path) - 1 ELSE Bytes(path)

FileLeftOut == Flag("REG") /\ Kind[ep] # "reg"

(* DIRPATH is no directory: the descriptor is not needed.  What FUNC        *)
(* returns is returned.                                                     *)
File ==
  /\ pc = "file"
  /\ open' = {}
  /\ \/ (* close fails *)
        Return(ERR) /\ Fatal(0) /\ UNCHANGED <<visits, excused>>
     \/ /\ FileLeftOut \/ call.match
        /\ Return(SUCC)
        /\ excused' = excused \cup {path}
        /\ UNCHANGED <<visits, halted, failed>>
     \/ /\ ~FileLeftOut
        /\ Visit
        /\ \E r \in FuncRets :
             /\ Return(r)
             /\ IF r = ERR THEN Fatal(0) ELSE UNCHANGED <<halted, failed>>
        /\ UNCHANGED excused
  /\ UNCHANGED <<call, stack, buffer, ep, st, tmp, stop>>

(* DIRPATH is a directory: it is visited before its entries. *)
Root ==
  /\ pc = "root"
  /\ \/ RegOnly /\ pc' = "opendir" /\ UNCHANGED <<open, ret, visits, halted, failed>>
     \/ /\ ~RegOnly
        /\ Visit
        /\ \E r \in FuncRets :
             IF r = ERR \/ (r = STOP /\ Flag("ACTIONRETVAL"))
             THEN /\ open' = {}
                  /\ halted' = TRUE
                  /\ failed' = IF r = ERR THEN {0} ELSE {}
                  /\ Return(r)
             ELSE pc' = "opendir" /\ UNCHANGED <<open, ret, halted, failed>>
  /\ UNCHANGED <<call, stack, buffer, ep, st, tmp, stop, excused>>

(***************************************************************************)
(* jstr_internal_io_ftw_len: the entries of one directory.                 *)
(***************************************************************************)

(* fdopendir, of the descriptor the caller has opened.  None of its errors  *)
(* is EACCES or ENOENT, so the branch for those is not reached.             *)
OpenDir ==
  /\ pc = "opendir"
  /\ Level < MaxLevels
  /\ \/ /\ stack' = Append(stack, [name |-> ep, left |-> Entries[ep],
                                   at |-> IF Level = 0 THEN Len(path) ELSE plen])
        /\ pc' = "read"
        /\ UNCHANGED <<tmp, open, excused, halted, failed>>
     \/ /\ open' = open \ {Level + 1}
        /\ tmp' = ERR
        /\ pc' = "return"
        /\ Fatal(Level + 1)
        /\ excused' = excused \cup {path}
        /\ UNCHANGED stack
  /\ UNCHANGED <<call, buffer, ep, st, stop, ret, visits>>

(* Mutated form: the directory is not closed. *)
LeaveOpen(r) ==
  /\ open' = open
  /\ stack' = SubSeq(stack, 1, Level - 1)
  /\ tmp' = r
  /\ pc' = "return"

(* Mutated form: errors are not returned. *)
LeaveSilently(r) ==
  /\ open' = open \ {Level}
  /\ stack' = SubSeq(stack, 1, Level - 1)
  /\ tmp' = SUCC
  /\ pc' = "return"

(* closedir, and r is returned to the level above. *)
Leave(r) ==
  /\ open' = open \ {Level}
  /\ stack' = SubSeq(stack, 1, Level - 1)
  /\ tmp' = r
  /\ pc' = "return"

(* The path of an entry of the running level. *)
PathOf(e) == SubSeq(path, 1, Top.at) \o <<Slash, e>>

(* The entries S are not looked at, nor what is below them. *)
Excuse(S) == excused' = excused \cup {PathOf(e) : e \in S}

(* readdir has no more, or an error that is taken for the end. *)
ReadEnd ==
  /\ pc = "read"
  /\ Excuse(Top.left)
  /\ Leave(SUCC)
  /\ UNCHANGED <<call, buffer, ep, st, stop, ret, visits, halted, failed>>

(* Mutated form: the length of the path is not looked at. *)
TooLongNever(e) == FALSE

TooLong(e) == Bytes(SubSeq(path, 1, Top.at)) + Size[e] >= PathMax

(* Mutated form: the name is appended to the last path. *)
FillOn(e) ==
  /\ path' = SubSeq(path, 1, plen) \o <<Slash, e>>
  /\ plen' = Len(path')

Fill(e) ==
  /\ path' = PathOf(e)
  /\ plen' = Top.at + 2

(* readdir and fstatat: an entry that is left out is only taken off. *)
ReadEntry ==
  /\ pc = "read"
  /\ \E e \in Top.left :
       /\ ep' = e
       /\ stack' = [stack EXCEPT ![Level].left = @ \ {e}]
       /\ \/ /\ (e \in Hidden /\ Flag("NOHIDDEN"))
             /\ UNCHANGED <<pc, st, excused>>
          \/ /\ ~(e \in Hidden /\ Flag("NOHIDDEN"))
             /\ ~TooLong(e)
             /\ \/ st' = PathOf(e) /\ pc' = "entry" /\ UNCHANGED excused
                \/ (* EACCES, ENOENT *)
                   /\ Excuse({e})
                   /\ pc' = (IF Flag("DIR") \/ Flag("REG") THEN "read" ELSE "func")
                   /\ UNCHANGED st
  /\ UNCHANGED <<call, buffer, tmp, stop, open, ret, visits, halted, failed>>

(* The path would be too long, or fstatat fails otherwise. *)
ReadFails ==
  /\ pc = "read"
  /\ \E e \in Top.left :
       /\ ~(e \in Hidden /\ Flag("NOHIDDEN"))
       /\ ep' = e
  /\ Excuse(Top.left)
  /\ Fatal(Level)
  /\ Leave(ERR)
  /\ UNCHANGED <<call, buffer, st, stop, ret, visits>>

(* Mutated form: directories are visited when only files are asked for. *)
WantedDirs(kind) ==
  CASE kind = "reg" -> ~DirOnly
    [] kind = "dir" -> TRUE
    [] OTHER -> ~Flag("DIR") /\ ~Flag("REG")

(* Whether FUNC is to be called on something of this kind. *)
Wanted(kind) ==
  CASE kind = "reg" -> ~DirOnly
    [] kind = "dir" -> ~RegOnly
    [] OTHER -> ~Flag("DIR") /\ ~Flag("REG")

(* What is to be done with an entry is decided by its type.  Directories    *)
(* are not matched.                                                         *)
Classify ==
  /\ pc = "entry"
  /\ \/ /\ Kind[ep] # "dir" /\ ~Wanted(Kind[ep])
        /\ pc' = "read"
        /\ UNCHANGED <<buffer, excused>>
     \/ /\ Kind[ep] # "dir" /\ Wanted(Kind[ep])
        /\ pc' = "func"
        /\ Fill(ep)
        /\ UNCHANGED excused
     \/ (* FUNC_MATCH says no *)
        /\ Kind[ep] # "dir" /\ Wanted(Kind[ep]) /\ call.match
        /\ pc' = "read"
        /\ IF Flag("MATCHPATH") THEN Fill(ep) ELSE UNCHANGED buffer
        /\ Excuse({ep})
     \/ /\ Kind[ep] = "dir" /\ Flag("NOSUBDIR") /\ RegOnly
        /\ pc' = "read"
        /\ UNCHANGED <<buffer, excused>>
     \/ /\ Kind[ep] = "dir" /\ ~(Flag("NOSUBDIR") /\ RegOnly)
        /\ pc' = (IF Wanted("dir") THEN "dirfunc" ELSE "enter")
        /\ Fill(ep)
        /\ UNCHANGED excused
  /\ UNCHANGED <<call, stack, ep, st, tmp, stop, open, ret, visits, halted, failed>>

(* Mutated form: the request to stop is told by the return value alone. *)
StopLost == UNCHANGED stop

StopRecorded == stop' = TRUE

(* What FUNC returned lets the level go on, ends it, or ends the walk. *)
GoesOn(r) == IF Flag("ACTIONRETVAL") THEN r \in {CONTINUE, SKIP_SUBTREE} ELSE r # ERR

SkipsSiblings(r) == Flag("ACTIONRETVAL") /\ r = SKIP_SIBLINGS

Stops(r) == Flag("ACTIONRETVAL") /\ r \in {STOP, ERR}

EndLevel(r) ==
  \/ /\ SkipsSiblings(r)
     /\ Leave(SUCC)
     /\ Excuse(Top.left \cup {ep})
     /\ UNCHANGED <<stop, halted, failed>>
  \/ /\ Stops(r)
     /\ StopRecorded
     /\ Leave(SUCC)
     /\ halted' = TRUE
     /\ UNCHANGED <<excused, failed>>
  \/ /\ ~Flag("ACTIONRETVAL") /\ r = ERR
     /\ Leave(ERR)
     /\ Fatal(Level)
     /\ UNCHANGED <<stop, excused>>

(* FUNC, of anything but a directory.  When fstatat has failed the buffers  *)
(* are those of an earlier entry.                                           *)
Func ==
  /\ pc = "func"
  /\ IF st = PathOf(ep) THEN Visit ELSE UNCHANGED visits
  /\ \E r \in FuncRets :
       \/ /\ GoesOn(r)
          /\ pc' = "read"
          /\ UNCHANGED <<stack, tmp, stop, open, excused, halted, failed>>
       \/ EndLevel(r)
  /\ UNCHANGED <<call, buffer, ep, st, ret>>

DirFunc ==
  /\ pc = "dirfunc"
  /\ Visit
  /\ \E r \in FuncRets :
       \/ /\ GoesOn(r)
          /\ IF Flag("ACTIONRETVAL") /\ r = SKIP_SUBTREE
             THEN pc' = "read" /\ Excuse({ep})
             ELSE pc' = "enter" /\ UNCHANGED excused
          /\ UNCHANGED <<stack, tmp, stop, open, halted, failed>>
       \/ EndLevel(r)
  /\ UNCHANGED <<call, buffer, ep, st, ret>>

(* openat; a directory that cannot be opened is left out. *)
Enter ==
  /\ pc = "enter"
  /\ \/ /\ Flag("NOSUBDIR")
        /\ pc' = "read"
        /\ UNCHANGED <<open, excused>>
     \/ /\ ~Flag("NOSUBDIR")
        /\ pc' = "opendir"
        /\ open' = open \cup {Level + 1}
        /\ UNCHANGED excused
     \/ /\ ~Flag("NOSUBDIR")
        /\ pc' = "read"
        /\ Excuse({ep})
        /\ UNCHANGED open
  /\ UNCHANGED <<call, stack, buffer, ep, st, tmp, stop, ret, visits, halted, failed>>

(* The level above looks at the request to stop, or at what was returned,   *)
(* but not at both.                                                         *)
Resume ==
  /\ pc = "return"
  /\ Level # 0
  /\ \/ /\ Flag("ACTIONRETVAL") /\ stop
        /\ Leave(SUCC)
     \/ /\ ~Flag("ACTIONRETVAL") /\ tmp = ERR
        /\ Leave(ERR)
     \/ /\ IF Flag("ACTIONRETVAL") THEN ~stop ELSE tmp # ERR
        /\ pc' = "read"
        /\ UNCHANGED <<stack, tmp, open>>
  /\ UNCHANGED <<call, buffer, ep, st, stop, ret, history>>

Finish ==
  /\ pc = "return"
  /\ Level = 0
  /\ Return(tmp)
  /\ UNCHANGED <<call, stack, buffer, ep, st, tmp, stop, open, history>>

Next ==
  \/ Refuse \/ OpenRoot \/ File \/ Root
  \/ OpenDir \/ ReadEnd \/ ReadEntry \/ ReadFails \/ Classify
  \/ Func \/ DirFunc \/ Enter \/ Resume \/ Finish

(* The walk runs: the callbacks return. *)
Spec == Init /\ [][Next]_vars /\ WF_vars(Next)

(***************************************************************************)
(* Properties.                                                             *)
(***************************************************************************)

(* The path of the directory the running level is in, by the names the      *)
(* levels were entered through.                                             *)
Trail ==
  LET t[k \in 1..Level] ==
        IF k = 1 THEN Stripped ELSE t[k - 1] \o <<Slash, stack[k].name>>
  IN  t[Level]

(* However deep the walk has been since, FUNC is called with the path, its  *)
(* length and the status of the entry at hand, in a path that fits its      *)
(* buffer.  There are four exceptions, all in the source: an entry whose    *)
(* status could not be had, when neither REG nor DIR is asked for, comes    *)
(* with what the entry before it has left; the paths below "/" begin with   *)
(* two slashes; the terminator of a path of PATH_MAX bytes is one byte      *)
(* beyond the buffer; and the name of a single file behind a slash is given *)
(* to FUNC_MATCH with the length of a longer one.                           *)
OwnPath ==
  /\ pc \in {"func", "dirfunc"} =>
       \/ path = Trail \o <<Slash, ep>> /\ plen = Len(path) /\ st = path
       \/ pc = "func" /\ st # PathOf(ep) /\ ~Flag("REG") /\ ~Flag("DIR")
  /\ Bytes(path) <= PathMax
  /\ pc = "file" /\ FileNameLen # Size[ep] => \E k \in 2..Len(path) : path[k] = Slash

(* Every level that is running holds one descriptor, and no other is open:  *)
(* whichever call fails or ends the walk, each directory is closed.         *)
Closes ==
  /\ pc \in {"read", "entry", "func", "dirfunc", "enter", "return"} => open = 1..Level
  /\ pc = "opendir" => open = 1..(Level + 1)
  /\ pc = "done" => open = {}

(* Once FUNC has asked to stop, or an error ends the walk, the levels only  *)
(* close what they have open: FUNC is called no more and nothing is opened. *)
StopsAtOnce ==
  [][halted => visits' = visits /\ open' \subseteq open /\ pc' \in {"return", "done"}]_vars

(* "JSTR_RET_ERR on error."  The call returns it for no other reason, and   *)
(* for every error but those below the first directory of a walk with       *)
(* ACTIONRETVAL: the level above does not look at what it is returned.      *)
Reports ==
  pc = "done" =>
    (ret = ERR) = (failed \cap {0, 1} # {} \/ (failed # {} /\ ~Flag("ACTIONRETVAL")))

(* What is in DIRPATH as deep as the flags, and what the walk was told to   *)
(* leave out, let it go: paths, with the names they lead to.                *)
Inside ==
  LET Listed(d) == {<<d[1] \o <<Slash, e>>, e>> :
                      e \in {m \in Entries[d[2]] : ~(m \in Hidden /\ Flag("NOHIDDEN"))}}
      At[k \in 1..PathMax] ==
        IF k = 1 THEN Listed(<<Stripped, Stripped[Len(Stripped)]>>)
        ELSE IF Flag("NOSUBDIR") THEN {}
        ELSE UNION {Listed(d) : d \in {u \in At[k - 1] : Kind[u[2]] = "dir"
                                                          /\ u[1] \notin excused}}
  IN  UNION {At[k] : k \in 1..PathMax}

(* What the flags say: REG and DIR each ask for a type, neither for all. *)
AskedFor(kind) ==
  \/ ~Flag("REG") /\ ~Flag("DIR")
  \/ Flag("REG") /\ kind = "reg"
  \/ Flag("DIR") /\ kind = "dir"

(* A walk that was not halted has called FUNC for everything its flags ask  *)
(* for and it was not told to leave out, what is behind links to            *)
(* directories included, and for nothing else.  DIRPATH itself is visited   *)
(* also when it is a file and only directories are asked for.               *)
VisitsAll ==
  pc = "done" /\ ~halted =>
    LET dir == Kind[Stripped[Len(Stripped)]] = "dir"
        self == IF IF dir THEN AskedFor("dir") ELSE ~FileLeftOut
                THEN {IF IsRoot THEN <<>> ELSE Stripped} ELSE {}
        wanted == self \cup
                  IF dir THEN {u[1] : u \in {v \in Inside : AskedFor(Kind[v[2]])}} ELSE {}
    IN  visits \subseteq wanted /\ wanted \ excused \subseteq visits

(* Every walk ends, also in a tree that a link makes endless: the paths     *)
(* grow until one is too long.                                              *)
Returns == <>(pc = "done")
=============================================================================
