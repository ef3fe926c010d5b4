------------------------------ MODULE JstrRegex ------------------------------
(***************************************************************************)
(* include/regex.h: removing and replacing what a compiled expression       *)
(* matches.  regexec is outside the library: a search may give any match    *)
(* the class of the pattern allows, or none, or fail.                       *)
(*                                                                          *)
(* Removal compacts the string inside its block while it is searched.       *)
(* Replacement builds the result behind the string and moves it down in     *)
(* the end.  A pointer is its offset into the block, and the offset of an   *)
(* unread character is its index in the string the call was given.          *)
(***************************************************************************)
EXTENDS JstrMem, FiniteSets

CONSTANTS
  Texts,       (* the strings the calls work on *)
  Rplcs,       (* replacements, with references to groups *)
  Counts,      (* how many matches a call is to treat *)
  All,         (* (size_t)-1, a count that is not used up *)
  Backslash,   (* the character that begins a reference *)
  Digits,      (* the digits among the characters *)
  Value,       (* [Digits -> Nat] *)
  Slacks,      (* bound: how many bytes more than needed a block has *)
  MaxSearches  (* bound: no call searches more often *)

ASSUME StringsAssumption == Texts \cup Rplcs \subseteq Seq(Char)
ASSUME CountsAssumption == Counts \subseteq Nat /\ Slacks \subseteq Nat
ASSUME AllAssumption == All \in Nat /\ \A c \in Counts \cup {1} : c < All
ASSUME DigitsAssumption == Digits \subseteq Char /\ Backslash \in Char \ Digits
ASSUME ValueAssumption == Value \in [Digits -> Nat] /\ MaxSearches \in Nat

VARIABLES
  data,      (* the block *)
  alloc,     (* its true size in bytes *)
  size,      (* jstr_ty.size *)
  capacity,  (* jstr_ty.capacity *)
  call,      (* the call: its operation, arguments, pattern and string *)
  pc,        (* the loop the call is in *)
  i,         (* jstr_internal_inplace_ty *)
  dst_s,     (* where the result is built *)
  end,       (* the end of the text the loop reads *)
  n,         (* matches left to treat *)
  refs,      (* rplc_backref1 and rplc_backref1_e, when there is a reference *)
  prev_zero, (* the previous match was empty *)
  searches,  (* history: what regexec was asked, and answered *)
  ret,       (* what the call returned *)
  overrun    (* it has accessed memory outside the block or the replacement *)

string == <<data, alloc, size, capacity>>
loop == <<i, dst_s, end, n, refs, prev_zero>>
vars == <<string, call, pc, loop, searches, ret, overrun>>

Ops == {"rm", "rmn", "rplc", "rplcn"}

(* What regexec can match: a "nullable" pattern matches wherever it is      *)
(* tried, perhaps nothing; a "solid" one something or is not found; "any"   *)
(* is a pattern with anchors, which the calls on many matches are not to    *)
(* be given.                                                                *)
Patterns == {"nullable", "solid", "any"}

(* -errcode: an error of regexec, and JSTR_RE_RET_ESPACE; and no outcome at *)
(* all, once a scan has left the replacement.                               *)
ExecError == -1
ESpace == -12
Undefined == -99

(* A terminated string, in which at most one character is a newline, and a  *)
(* call on it.                                                              *)
Init ==
  /\ \E text \in Texts, slack \in Slacks :
       /\ size = Len(text)
       /\ alloc = Len(text) + 1 + slack
       /\ data = StrCpy([k \in 0..(alloc - 1) |-> Junk], 0, text)
       /\ capacity = alloc
       /\ \E op \in Ops, start \in 0..(Len(text) + 1), cnt \in Counts \cup {All},
             rplc \in Rplcs, backref \in BOOLEAN, nmatch \in 1..2,
             pattern \in Patterns, cf_newline \in BOOLEAN,
             newlines \in {{}} \cup {{text[k]} : k \in DOMAIN text} :
            /\ op \in {"rm", "rmn"} => rplc = <<>>
            /\ op \in {"rm", "rplc"} => cnt = 1
            /\ backref => op = "rplcn"
            /\ (nmatch = 2) = backref
            /\ pattern = "any" => cnt = 1
            /\ ~cf_newline => newlines = {}
            /\ call = [op |-> op, start |-> start, n |-> cnt, rplc |-> rplc,
                       backref |-> backref, nmatch |-> nmatch, pattern |-> pattern,
                       cf_newline |-> cf_newline, newlines |-> newlines,
                       text |-> text]
            /\ n = (IF size = 0 /\ cnt # 0 THEN 1 ELSE cnt)
            /\ i = [dst |-> start, src |-> start, src_e |-> start]
  /\ pc = "entry"
  /\ dst_s = 0 /\ end = size
  /\ refs = <<>>
  /\ prev_zero = TRUE
  /\ searches = <<>>
  /\ ret = 0
  /\ overrun = FALSE

rplc_len == Len(call.rplc)

Buffer == [data |-> data, alloc |-> alloc, cap |-> capacity]

Touch(b, extent) == overrun' = (overrun \/ extent > b.alloc)

Works(b, d, sz) ==
  /\ data' = d
  /\ alloc' = b.alloc
  /\ capacity' = b.cap
  /\ size' = sz

Done(r) == pc' = "done" /\ ret' = r

(***************************************************************************)
(* regexec, as jstr_re_exec_len calls it.                                   *)
(***************************************************************************)

(* Mutated form: a line begins wherever the copied text ended. *)
NotBolAtDst(p) ==
  i.dst # 0 /\ ~(call.cf_newline /\ data[i.dst - 1] \in call.newlines)

(* jstr_internal_re_notbol: the block is asked for the character before. *)
NotBol(p) == p # 0 /\ ~(call.cf_newline /\ data[p - 1] \in call.newlines)

(* What a match may be between the offsets from and to. *)
Spans(from, to) ==
  CASE call.pattern = "nullable" -> {<<from, eo>> : eo \in from..to}
    [] call.pattern = "solid" -> {s \in (from..to) \X (from..to) : s[1] < s[2]}
    [] OTHER -> {s \in (from..to) \X (from..to) : s[1] <= s[2]}

(* Group 1, when the call asks for it: unset, or part of the match. *)
Groups(s) ==
  {<<>>} \cup IF call.nmatch < 2 THEN {}
              ELSE {g \in (s[1]..s[2]) \X (s[1]..s[2]) : g[1] <= g[2]}

Asked(from, answer, s, g) ==
  /\ Len(searches) < MaxSearches
  /\ searches' = Append(searches, [from |-> from, notbol |-> NotBol(from),
                                   answer |-> answer, span |-> s, group |-> g])

Found(from, s, g) ==
  /\ s \in Spans(from, end) /\ g \in Groups(s)
  /\ Asked(from, "match", s, g)

NotFound(from) == call.pattern # "nullable" /\ Asked(from, "nomatch", <<>>, <<>>)

ExecFails(from) == Asked(from, "error", <<>>, <<>>)

(***************************************************************************)
(* References to groups in a replacement.                                   *)
(***************************************************************************)

IsDigit(p) == call.rplc[p] \in Digits

(* memchr of a backslash within the positions p..(e - 1), or 0. *)
MemChr(p, e) ==
  LET found == {q \in p..(e - 1) : call.rplc[q] = Backslash}
  IN  IF found = {} THEN 0 ELSE CHOOSE q \in found : \A r \in found : q <= r

(* jstr_internal_re_rplcbackreffirst: the first reference, 0 when there is  *)
(* none, -1 when the scan has stepped over the end: it then goes on in what *)
(* memory follows.                                                          *)
Wild == -1
RefFirst ==
  LET Scan[p \in 1..(rplc_len + 1)] ==
        IF p = rplc_len + 1 THEN Wild
        ELSE LET q == MemChr(p, rplc_len)
             IN  IF q = 0 \/ IsDigit(q + 1) THEN q ELSE Scan[q + 2]
  IN  IF rplc_len < 2 THEN 0 ELSE Scan[1]

(* jstr_internal_re_rplcbackreflast: past the last backslash with a digit. *)
RefLast(first) ==
  LET pairs == {q \in (first + 2)..(rplc_len - 1) :
                  call.rplc[q] = Backslash /\ IsDigit(q + 1)}
  IN  IF pairs = {} THEN first + 2
      ELSE 2 + CHOOSE q \in pairs : \A r \in pairs : r <= q

HasRefs == call.backref /\ RefFirst # 0

(* rm[c] of a match s with the group g, <<>> when it is none. *)
Group(c, s, g) ==
  CASE Value[c] = 0 -> s
    [] Value[c] = 1 /\ call.nmatch > 1 -> g
    [] OTHER -> <<>>

(* What the backslash at q refers to, <<>> when it is stored as it stands. *)
Referred(q, s, g) == IF IsDigit(q + 1) THEN Group(call.rplc[q + 1], s, g) ELSE <<>>

(* Mutated form: a reference that is stored literally counts as none. *)
StrLenOfNone(s, g) ==
  LET More[p \in 1..(rplc_len + 1)] ==
        LET q == MemChr(p, refs[2])
        IN  IF q = 0 THEN 0
            ELSE LET grp == Referred(q, s, g)
                 IN  More[q + 2] + (IF grp = <<>> THEN 0 ELSE grp[2] - grp[1]) - 2
  IN  rplc_len + More[refs[1]]

(* jstr_internal_re_rplcbackrefstrlen: what the replacement of s will take. *)
(* refs[2] follows a digit, so the backslash looked at is never the last    *)
(* character: the error return for that is not reached.                     *)
StrLen(s, g) ==
  LET More[p \in 1..(rplc_len + 1)] ==
        LET q == MemChr(p, refs[2])
        IN  IF q = 0 THEN 0
            ELSE LET grp == Referred(q, s, g)
                 IN  More[q + 2] + (IF grp = <<>> THEN 0 ELSE grp[2] - grp[1] - 2)
  IN  rplc_len + More[refs[1]]

(* jstr_internal_re_rplcbackrefcpy: what it stores. *)
Cpy(s, g) ==
  LET Rest[p \in 1..(rplc_len + 1)] ==
        LET q == MemChr(p, rplc_len + 1)
        IN  IF q = 0 \/ q = rplc_len THEN SubSeq(call.rplc, p, rplc_len)
            ELSE LET grp == Referred(q, s, g)
                 IN  SubSeq(call.rplc, p, q - 1)
                       \o (IF grp = <<>> THEN SubSeq(call.rplc, q, q + 1)
                           ELSE [k \in 1..(grp[2] - grp[1]) |-> data[grp[1] + k - 1]])
                       \o Rest[q + 2]
  IN  Rest[1]

(***************************************************************************)
(* One match.                                                               *)
(***************************************************************************)

TooFar == call.start > size \/ (call.start = size /\ call.start # 0)

Unchanged(r) == Done(r) /\ UNCHANGED <<string, overrun>>

Nothing ==
  /\ pc = "entry"
  /\ TooFar \/ n = 0
  /\ Unchanged(0)
  /\ UNCHANGED <<call, loop, searches>>

Called == pc = "entry" /\ ~TooFar /\ n # 0

Removing == call.op \in {"rm", "rmn"} \/ (call.op = "rplcn" /\ rplc_len = 0)

(* jstr_re_rm_from_exec, to which the others fall back for one match. *)
RmOne ==
  /\ Called
  /\ Removing
  /\ n = 1
  /\ \/ \E s \in Spans(call.start, end) :
          LET rest == size - s[2]
          IN  /\ Found(call.start, s, <<>>)
              /\ Works(Buffer, StrMove(data, s[1], s[2], rest), s[1] + rest)
              /\ Touch(Buffer, s[1] + rest + 1)
              /\ Done(1)
     \/ NotFound(call.start) /\ Unchanged(0)
     \/ ExecFails(call.start) /\ Unchanged(ExecError)
  /\ UNCHANGED <<call, loop>>

(* jstr_rplcat_len *)
RplcAt(s) ==
  LET need == size + rplc_len - (s[2] - s[1]) + 1
      rest == size - s[2]
      same == rplc_len = s[2] - s[1]
  IN  \/ \E b \in Reserved(Buffer, need) :
           LET moved == IF same THEN b.data
                        ELSE StrMove(b.data, s[1] + rplc_len, s[2], rest)
           IN  /\ Works(b, Copy(moved, s[1], call.rplc), need - 1)
               /\ Touch(b, IF same THEN s[1] + rplc_len ELSE need)
               /\ Done(1)
      \/ ReserveFails(Buffer, need) /\ Unchanged(ESpace)

(* jstr_re_rplc_len_from_exec *)
RplcOne ==
  /\ Called
  /\ \/ call.op = "rplc"
     \/ call.op = "rplcn" /\ n = 1 /\ rplc_len # 0 /\ ~HasRefs
  /\ \/ \E s \in Spans(call.start, end) : Found(call.start, s, <<>>) /\ RplcAt(s)
     \/ NotFound(call.start) /\ Unchanged(0)
     \/ ExecFails(call.start) /\ Unchanged(ExecError)
  /\ UNCHANGED <<call, loop>>

(***************************************************************************)
(* What the two loops share.                                                *)
(***************************************************************************)

(* The end is searched only once, and only after an empty match. *)
Searching == n # 0 /\ (i.src_e < end \/ (i.src_e = end /\ prev_zero))

Less(k) == IF k = All THEN All ELSE k - 1

(* Mutated form: a match at the end does not stop the loop. *)
AfterMatchOn(b, d, p, s) ==
  LET step == s[1] = s[2] /\ s[2] < end
      k == IF step THEN 1 ELSE 0
  IN  /\ i' = [dst |-> p + k, src |-> s[2] + k, src_e |-> s[2] + k]
      /\ n' = Less(n)
      /\ prev_zero' = (s[1] = s[2])
      /\ Works(b, IF step THEN Move(d, p, s[2], 1) ELSE d, size)

(* d has been written up to p for the match s.  After an empty match one    *)
(* character is stepped over, and copied.  A match at the end is the last:  *)
(* the code breaks there, here prev_zero says so.                           *)
AfterMatch(b, d, p, s) ==
  LET step == s[1] = s[2] /\ s[2] < end
      k == IF step THEN 1 ELSE 0
  IN  /\ i' = [dst |-> p + k, src |-> s[2] + k, src_e |-> s[2] + k]
      /\ n' = Less(n)
      /\ prev_zero' = (i.src_e # end /\ s[1] = s[2])
      /\ Works(b, IF step THEN Move(d, p, s[2], 1) ELSE d, size)

Stops == ~Searching /\ UNCHANGED searches

LoopFails(p) ==
  /\ pc = p
  /\ Searching
  /\ ExecFails(i.src_e)
  /\ Unchanged(ExecError)
  /\ UNCHANGED <<call, loop>>

(***************************************************************************)
(* jstr_re_rmn_from_exec                                                    *)
(***************************************************************************)

RmnStart ==
  /\ Called
  /\ Removing
  /\ n # 1
  /\ pc' = "rmn"
  /\ UNCHANGED <<string, call, loop, searches, ret, overrun>>

RmnStep ==
  /\ pc = "rmn"
  /\ Searching
  /\ \E s \in Spans(i.src_e, end) :
       LET prev_len == s[1] - i.src
       IN  /\ Found(i.src_e, s, <<>>)
           /\ AfterMatch(Buffer, Move(data, i.dst, i.src, prev_len), i.dst + prev_len, s)
           /\ Touch(Buffer, i'.dst)
  /\ UNCHANGED <<call, pc, dst_s, end, refs, ret>>

Changed == Cardinality({k \in DOMAIN searches : searches[k].answer = "match"})

RmnEnd ==
  /\ pc = "rmn"
  /\ Stops \/ (Searching /\ NotFound(i.src_e))
  /\ LET rest == end - i.src
     IN  /\ Works(Buffer, StrMove(data, i.dst, i.src, rest), i.dst + rest)
         /\ Touch(Buffer, i.dst + rest + 1)
  /\ Done(Changed)
  /\ UNCHANGED <<call, loop>>

RmnFails == LoopFails("rmn")

(***************************************************************************)
(* jstr_internal_re_rplcn_backref_len_from_exec                             *)
(***************************************************************************)

RplcnCalled ==
  /\ Called
  /\ call.op = "rplcn"
  /\ rplc_len # 0
  /\ HasRefs \/ n # 1

(* The scan for the first reference does not end in the replacement. *)
RplcnScansPast ==
  /\ RplcnCalled
  /\ call.backref
  /\ RefFirst = Wild
  /\ overrun' = TRUE
  /\ Done(Undefined)
  /\ UNCHANGED <<string, call, loop, searches>>

(* Mutated form: the result is built over the text. *)
BuildInPlace == 0

Build == size + 1

RplcnStart ==
  /\ RplcnCalled
  /\ call.backref => RefFirst # Wild
  /\ LET need == 2 * size + 2
     IN  \/ /\ \E b \in Reserved(Buffer, need) :
                 /\ Works(b, Move(b.data, Build, 0, size), size)
                 /\ Touch(b, Build + size)
            /\ i' = [dst |-> Build, src |-> 0, src_e |-> call.start]
            /\ refs' = IF HasRefs THEN <<RefFirst, RefLast(RefFirst)>> ELSE <<>>
            /\ dst_s' = Build
            /\ pc' = "rplcn"
            /\ UNCHANGED <<ret>>
         \/ ReserveFails(Buffer, need) /\ Unchanged(ESpace) /\ UNCHANGED <<i, dst_s, refs>>
  /\ UNCHANGED <<call, end, n, prev_zero, searches>>

(* Mutated form: the text after the match is not counted. *)
new_cap_short(rlen, find_len) ==
  i.dst + 2 + (IF rlen > find_len THEN rlen - find_len ELSE 0)

new_cap(rlen, find_len) ==
  i.dst + (end - i.src) + 2 + (IF rlen > find_len THEN rlen - find_len ELSE 0)

(* When the block cannot grow, the size is that of the unfinished result. *)
RplcnStep ==
  /\ pc = "rplcn"
  /\ Searching
  /\ \E s \in Spans(i.src_e, end) : \E g \in Groups(s) :
       LET prev_len == s[1] - i.src
           at == i.dst + prev_len
       IN  /\ Found(i.src_e, s, g)
           /\ \E rlen \in {IF refs # <<>> THEN StrLen(s, g) ELSE rplc_len},
                 text \in {IF refs # <<>> THEN Cpy(s, g) ELSE call.rplc} :
                LET need == new_cap(rlen, s[2] - s[1])
                IN  \/ \E b \in Reserved(Buffer, need) :
                         /\ AfterMatch(b, Copy(Move(b.data, i.dst, i.src, prev_len), at, text),
                                       at + rlen, s)
                         /\ Touch(b, IF rlen < Len(text) THEN at + Len(text) ELSE i'.dst)
                         /\ UNCHANGED <<pc, ret>>
                    \/ /\ ReserveFails(Buffer, need)
                       /\ size' = i.dst
                       /\ Done(ESpace)
                       /\ UNCHANGED <<data, alloc, capacity, i, n, prev_zero, overrun>>
  /\ UNCHANGED <<call, dst_s, end, refs>>

RplcnEnd ==
  /\ pc = "rplcn"
  /\ Stops \/ (Searching /\ NotFound(i.src_e))
  /\ LET rest == end - i.src
         sz == i.dst + rest - dst_s
     IN  /\ Works(Buffer, StrMove(Move(data, i.dst, i.src, rest), 0, dst_s, sz), sz)
         /\ Touch(Buffer, i.dst + rest)
  /\ Done(Changed)
  /\ UNCHANGED <<call, loop>>

RplcnFails == LoopFails("rplcn")

Next ==
  \/ Nothing \/ RmOne \/ RplcOne
  \/ RmnStart \/ RmnStep \/ RmnEnd \/ RmnFails
  \/ RplcnScansPast \/ RplcnStart \/ RplcnStep \/ RplcnEnd \/ RplcnFails

(* The loops run: nothing but the call itself can delay it. *)
Spec == Init /\ [][Next]_vars /\ WF_vars(Next)

(***************************************************************************)
(* Properties.                                                              *)
(***************************************************************************)

(* No loop touches a byte outside the block, whatever the matches are: the  *)
(* room is computed match by match.  Only the scan for the first reference  *)
(* can leave the replacement: when this ends with a backslash and one more  *)
(* character and has no reference, and no capacity was ever asked for.      *)
InBounds ==
  overrun =>
    /\ ret = Undefined
    /\ call.backref
    /\ call.rplc[rplc_len - 1] = Backslash
    /\ call.rplc[rplc_len] \notin Digits

(* Every search of a loop is given the text as it was, terminator included, *)
(* though the loop writes into the same block; and it is told that a line   *)
(* begins there when that is so in the original string, not in what the     *)
(* loop has made of it.                                                     *)
SearchesOriginal ==
  /\ pc \in {"rmn", "rplcn"} =>
       /\ \A k \in i.src..(end - 1) : data[k] = call.text[k + 1]
       /\ data[end] = NUL
  /\ \A k \in DOMAIN searches :
       LET from == searches[k].from
       IN  searches[k].notbol
             = (from > 0 /\ (call.cf_newline => call.text[from] \notin call.newlines))

(* What a call that failed leaves: the string it was given, but for two     *)
(* cases.  A removal that regexec broke off has compacted a part, below the *)
(* unread text, and keeps the old size; a replacement that could not grow   *)
(* its block has the size of all it has written, past the terminator.       *)
FailureLeaves ==
  pc = "done" /\ ret \in {ExecError, ESpace} =>
    /\ data[Len(call.text)] = NUL
    /\ size # Len(call.text) => ret = ESpace /\ size >= dst_s /\ dst_s > Len(call.text)
    /\ size < alloc
    /\ \A k \in 0..(Len(call.text) - 1) :
         data[k] # call.text[k + 1] => Removing /\ i.dst < i.src /\ k < i.src

(* A backslash begins an escape when an even number of them comes before it. *)
Escapes(p) ==
  LET r == call.rplc
  IN  /\ p \in 1..(rplc_len - 1)
      /\ \E q \in 1..p : /\ \A k \in q..p : r[k] = Backslash
                         /\ q > 1 => r[q - 1] # Backslash
                         /\ (p - q) % 2 = 0

Refers(p, a) == Escapes(p) /\ Referred(p, a.span, a.group) # <<>>

(* What the character at p stands for in the replacement of the match a. *)
Piece(p, a) ==
  IF Refers(p - 1, a) THEN <<>>
  ELSE IF Refers(p, a)
       THEN LET grp == Referred(p, a.span, a.group)
            IN  SubSeq(call.text, grp[1] + 1, grp[2])
       ELSE <<call.rplc[p]>>

Expanded(a) ==
  LET Rest[p \in 1..(rplc_len + 1)] ==
        IF p = rplc_len + 1 THEN <<>> ELSE Piece(p, a) \o Rest[p + 1]
  IN  IF call.backref THEN Rest[1] ELSE call.rplc

(* Where the k-th match ends, and where the search after it is to begin. *)
LastEnd(k) == IF k = 0 THEN 0 ELSE searches[k].span[2]

NextFrom(k) ==
  LET s == searches[k].span IN IF s[1] = s[2] /\ s[2] < end THEN s[2] + 1 ELSE s[2]

(* The text up to the end of the k-th match, with the matches replaced. *)
Rewritten ==
  LET Upto[k \in 0..Changed] ==
        IF k = 0 THEN <<>>
        ELSE Upto[k - 1] \o SubSeq(call.text, LastEnd(k - 1) + 1, searches[k].span[1])
                         \o Expanded(searches[k])
  IN  Upto

Expected == Rewritten[Changed] \o SubSeq(call.text, LastEnd(Changed) + 1, Len(call.text))

(* A call that succeeds leaves the terminated string in which the matches   *)
(* regexec reported, and nothing else, are replaced; it returns how many.   *)
(* Each search begins where the match before it ended, or one character on  *)
(* when that was empty, and the call stops early only when there is nothing *)
(* left to match.                                                           *)
Rewrites ==
  pc = "done" /\ ret >= 0 =>
    /\ \A k \in 1..Changed : searches[k].answer = "match"
    /\ Prefix(data, size) = Expected
    /\ data[size] = NUL
    /\ ret = Changed
    /\ call.n # All => ret <= call.n
    /\ \A k \in DOMAIN searches :
         searches[k].from = IF k = 1 THEN call.start ELSE NextFrom(k - 1)
    /\ \/ call.start # 0 /\ call.start >= end
       \/ ret = call.n
       \/ i.src_e = end
       \/ searches[Len(searches)].answer = "nomatch"

(* Every call returns, whatever matches the empty string. *)
Returns == <>(pc = "done")
==============================================================================
