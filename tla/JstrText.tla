------------------------------ MODULE JstrText ------------------------------
(***************************************************************************)
(* The functions of string.h that reverse, trim, split, repeat, group or   *)
(* unescape a text, in place or into another buffer, and the functions of  *)
(* io.h that expand and extend a path.  One action is one step of a loop.  *)
(***************************************************************************)
EXTENDS JstrBuffer

CONSTANT MaxTokens    \* how often the caller asks for a token

Minus == 45
Separator == 44
Slash == 47
Tilde == 126
Backslash == 92

-----------------------------------------------------------------------------
(* Reversing.  The loop that swaps is that of jstr_ulltoa_p as well.       *)

Rev ==
  /\ Called({"rev_len", "rev_p"})
  /\ Goto("rev", [s |-> 0, e |-> n - 1, end |-> n])
  /\ Unwritten /\ Unsized

RevSwap ==
  /\ In("rev") /\ l.s < l.e
  /\ mem' = [mem EXCEPT ![l.s] = mem[l.e], ![l.e] = mem[l.s]]
  /\ Goto("rev", [l EXCEPT !.s = @ + 1, !.e = @ - 1])
  /\ far' = Later(far, l.e)
  /\ Unsized

RevDone ==
  /\ In("rev") /\ l.s >= l.e
  /\ call.op \in {"rev_len", "rev_p"}
  /\ Return(l.end)
  /\ Unwritten /\ Unsized

RevCpy ==
  /\ Called({"revcpy_len", "revcpy_p"})
  /\ Goto("revcpy", [s |-> n - 1, d |-> 0])
  /\ Unwritten /\ Unsized

RevCpyByte ==
  /\ In("revcpy") /\ l.s >= 0
  /\ Store(l.d, call.text[l.s + 1])
  /\ Goto("revcpy", [s |-> l.s - 1, d |-> l.d + 1])
  /\ Unsized

RevCpyDone ==
  /\ In("revcpy") /\ l.s < 0
  /\ Store(l.d, Nul)
  /\ Return(l.d)
  /\ Unsized

-----------------------------------------------------------------------------
(* Trimming.  The functions without a length stop at the terminator, which *)
(* is no space.                                                            *)

TrimsEnd == {"trimend_len_p", "trim_len_p"}

TrimsStart == {"trimstart_len_p", "trimstart_p", "trimstart"}

TrimNothing ==
  /\ Called(TrimsEnd \union TrimsStart) /\ n = 0
  /\ Return(0)
  /\ Unwritten /\ Unsized

Trim ==
  /\ Called(TrimsEnd \union TrimsStart) /\ n > 0
  /\ IF call.op \in TrimsEnd THEN Goto("trimend", [p |-> n])
     ELSE Goto("trimstart", [p |-> 0, sz |-> n])
  /\ Unwritten /\ Unsized

TrimEndSpace ==
  /\ In("trimend") /\ l.p > 0 /\ IsSpace(mem[l.p - 1])
  /\ Goto("trimend", [p |-> l.p - 1])
  /\ Unwritten /\ Unsized

TrimEndDone ==
  /\ In("trimend")
  /\ ~ (l.p > 0 /\ IsSpace(mem[l.p - 1]))
  /\ Store(l.p, Nul)
  /\ IF call.op = "trim_len_p" /\ l.p > 0 THEN Goto("trimstart", [p |-> 0, sz |-> l.p])
     ELSE Return(l.p)
  /\ Unsized

SpaceAhead == (call.op \in {"trimstart_p", "trimstart"} \/ l.sz > 0) /\ IsSpace(mem[l.p])

TrimStartSpace ==
  /\ In("trimstart") /\ SpaceAhead
  /\ Goto("trimstart", [p |-> l.p + 1, sz |-> l.sz - 1])
  /\ Unwritten /\ Unsized

TrimStartDone ==
  /\ In("trimstart") /\ ~SpaceAhead
  /\ LET left == IF call.op \in {"trimstart_p", "trimstart"} THEN StrLenFrom(l.p) ELSE l.sz
     IN  IF l.p > 0
         THEN mem' = Moved(0, l.p, left) /\ far' = Later(far, left) /\ Return(left)
         ELSE Unwritten /\ Return(l.p + left)
  /\ Unsized

-----------------------------------------------------------------------------
(* Tokens.  The caller keeps the pointer the function has saved and finds  *)
(* the length of the token with it.                                        *)

Splitting == {"strtok_ne_len", "strtok_ne", "strtok"}

OccursAt(ne, i) == i + Len(ne) <= n /\ \A k \in DOMAIN ne : mem[i + k - 1] = ne[k]

Least(S, none) == IF S = {} THEN none ELSE CHOOSE i \in S : \A j \in S : i <= j

(* jstr_strstrnul_len and jstr_strstrnul: they differ for an empty needle. *)
StrStrNul(ne, i) ==
  IF ne = <<>> /\ call.op = "strtok_ne" THEN n ELSE Least({j \in i..n : OccursAt(ne, j)}, n)

InSet(c) == \E k \in DOMAIN call.arg : call.arg[k] = c

(* strspn and strcspn from i. *)
Spans(i) == Least({j \in i..(n - 1) : ~InSet(mem[j])}, n)

SpansNot(i) == Least({j \in i..(n - 1) : InSet(mem[j])}, n)

Split ==
  /\ Called(Splitting)
  /\ Goto("token", [save |-> 0, tokens |-> <<>>])
  /\ Unwritten /\ Unsized

(* What a call leaves behind: a token from s up to the pointer it saves. *)
Token(s, save) ==
  /\ Goto("token", [save |-> save, tokens |-> Append(l.tokens, <<s, save>>)])
  /\ Unwritten /\ Unsized

AsksAgain == In("token") /\ Len(l.tokens) < MaxTokens /\ mem[l.save] # Nul

TokenNe ==
  /\ AsksAgain /\ call.op \in {"strtok_ne_len", "strtok_ne"}
  /\ LET p == StrStrNul(call.arg, l.save)
     IN  Token(l.save, IF p = n THEN n ELSE p + Len(call.arg))

TokenSet ==
  /\ AsksAgain /\ call.op = "strtok" /\ Spans(l.save) < n
  /\ Token(Spans(l.save), SpansNot(Spans(l.save)))

NoToken ==
  /\ In("token")
  /\ ~ AsksAgain \/ (call.op = "strtok" /\ Spans(l.save) = n)
  /\ Return(l.tokens)
  /\ Unwritten /\ Unsized

-----------------------------------------------------------------------------
(* Repeating.                                                              *)

RepeatCpy ==
  /\ Called({"repeatcpy_len_p"})
  /\ Goto("repeatcpy", [d |-> 0, k |-> IF n = 0 THEN 0 ELSE call.k])
  /\ Unwritten /\ Unsized

RepeatCpyOnce ==
  /\ In("repeatcpy") /\ l.k > 0
  /\ mem' = [i \in DOMAIN mem |-> IF i \in l.d..(l.d + n - 1) THEN call.text[i - l.d + 1] ELSE mem[i]]
  /\ far' = Later(far, l.d + n - 1)
  /\ Goto("repeatcpy", [d |-> l.d + n, k |-> l.k - 1])
  /\ Unsized

RepeatCpyDone ==
  /\ In("repeatcpy") /\ l.k = 0
  /\ Store(l.d, Nul)
  /\ Return(l.d)
  /\ Unsized

-----------------------------------------------------------------------------
(* Thousand separators: in place from the last digit backwards, or copied  *)
(* from the first on.                                                      *)

Signed == n > 0 /\ call.text[1] = Minus

start == IF Signed THEN 1 ELSE 0

digits == n - start

ThousepFew ==
  /\ Called({"thousep_len_p"}) /\ digits < 4
  /\ Return(n)
  /\ Unwritten /\ Unsized

ThousepMany ==
  /\ Called({"thousep_len_p"}) /\ digits >= 4
  /\ LET dif == (digits - 1) \div 3
     IN  Goto("thousep", [p |-> n - 1, dif |-> dif, k |-> 0, end |-> n + dif])
  /\ Unwritten /\ Unsized

(* Mutated form: the separator is stored before the digit has moved away. *)
MovedLate(digit, sep) ==
  LET separated == [mem EXCEPT ![sep] = Separator] IN [separated EXCEPT ![digit] = separated[l.p]]

MovedAndSeparated(digit, sep) == [mem EXCEPT ![digit] = mem[l.p], ![sep] = Separator]

ThousepMove ==
  /\ In("thousep") /\ l.p >= start /\ l.dif > 0
  /\ far' = Later(far, l.p + l.dif)
  /\ IF l.k < 2
     THEN /\ mem' = [mem EXCEPT ![l.p + l.dif] = mem[l.p]]
          /\ Goto("thousep", [l EXCEPT !.p = @ - 1, !.k = @ + 1])
     ELSE /\ mem' = MovedAndSeparated(l.p + l.dif, l.p + l.dif - 1)
          /\ Goto("thousep", [l EXCEPT !.p = @ - 1, !.k = 0, !.dif = @ - 1])
  /\ Unsized

ThousepDone ==
  /\ In("thousep")
  /\ l.p < start \/ l.dif = 0
  /\ Store(l.end, Nul)
  /\ Return(l.end)
  /\ Unsized

ThousepCpyFew ==
  /\ Called({"thousepcpy_len_p"}) /\ digits < 4
  /\ StrCpyAt(0, call.text)
  /\ Return(n)
  /\ Unsized

(* The digits before the first separator, and it. *)
ThousepCpyHead ==
  /\ Called({"thousepcpy_len_p"}) /\ digits >= 4
  /\ LET head == SubSeq(call.text, 1, start + (digits % 3))
         text == IF digits % 3 = 0 THEN head ELSE Append(head, Separator)
     IN  /\ mem' = [i \in DOMAIN mem |-> IF i < Len(text) THEN text[i + 1] ELSE mem[i]]
         /\ far' = Later(far, Len(text) - 1)
         /\ Goto("thousepcpy", [s |-> Len(head), d |-> Len(text), i |-> 0])
  /\ Unsized

ThousepCpyDigit ==
  /\ In("thousepcpy") /\ l.s < n
  /\ LET c == call.text[l.s + 1]
     IN  IF l.i = 3
         THEN /\ mem' = [mem EXCEPT ![l.d] = Separator, ![l.d + 1] = c]
              /\ far' = Later(far, l.d + 1)
              /\ Goto("thousepcpy", [s |-> l.s + 1, d |-> l.d + 2, i |-> 1])
         ELSE /\ Store(l.d, c)
              /\ Goto("thousepcpy", [s |-> l.s + 1, d |-> l.d + 1, i |-> l.i + 1])
  /\ Unsized

ThousepCpyDone ==
  /\ In("thousepcpy") /\ l.s = n
  /\ Store(l.d, Nul)
  /\ Return(l.d)
  /\ Unsized

-----------------------------------------------------------------------------
(* Unescaping: jstr_unescape_p copies the text over itself from its first  *)
(* backslash on.                                                           *)

Unescaping == {"unescape_p", "unescapecpy_p"}

Escapes(c) ==
  CASE c = 98 -> 8
    [] c = 102 -> 12
    [] c = 110 -> 10
    [] c = 114 -> 13
    [] c = 116 -> 9
    [] c = 118 -> 11
    [] OTHER -> c

IsOctal(c) == c \in 48..55

Src(i) ==
  IF call.op = "unescape_p" THEN mem[i] ELSE IF i < n THEN call.text[i + 1] ELSE Nul

Unescape ==
  /\ Called(Unescaping)
  /\ LET first == Least({i \in 0..(n - 1) : mem[i] = Backslash}, n)
     IN  IF call.op = "unescapecpy_p" THEN Goto("unescape", [d |-> 0, s |-> 0])
         ELSE IF first = n THEN Return(n)
         ELSE Goto("unescape", [d |-> first, s |-> first])
  /\ Unwritten /\ Unsized

UnescapeTo(c, s) ==
  /\ Store(l.d, c)
  /\ Goto("unescape", [d |-> l.d + 1, s |-> s])
  /\ Unsized

UnescapePlain ==
  /\ In("unescape") /\ Src(l.s) \notin {Nul, Backslash}
  /\ UnescapeTo(Src(l.s), l.s + 1)

UnescapeLetter ==
  /\ In("unescape") /\ Src(l.s) = Backslash
  /\ Src(l.s + 1) # Nul /\ ~IsOctal(Src(l.s + 1))
  /\ UnescapeTo(Escapes(Src(l.s + 1)), l.s + 2)

(* The digits of an octal escape: at most three, as an unsigned char. *)
OctalEnd(s) ==
  CHOOSE e \in (s + 2)..(s + 4) :
    /\ \A i \in (s + 1)..(e - 1) : IsOctal(Src(i))
    /\ e = s + 4 \/ ~IsOctal(Src(e))

Octal(s, e) ==
  LET value[i \in s..(e - 1)] == IF i = s THEN 0 ELSE (value[i - 1] * 8 + Src(i) - 48) % 256
  IN  value[e - 1]

EscapesOctal == In("unescape") /\ Src(l.s) = Backslash /\ IsOctal(Src(l.s + 1))

UnescapeOctal ==
  /\ EscapesOctal
  /\ LET e == OctalEnd(l.s) IN Octal(l.s, e) # Nul /\ UnescapeTo(Octal(l.s, e), e)

(* The end of the text, a backslash at the end, or an escaped NUL. *)
UnescapeDone ==
  /\ In("unescape")
  /\ \/ Src(l.s) = Nul
     \/ Src(l.s) = Backslash /\ Src(l.s + 1) = Nul
     \/ EscapesOctal /\ Octal(l.s, OctalEnd(l.s)) = Nul
  /\ Store(l.d, Nul)
  /\ Return(l.d)
  /\ Unsized

-----------------------------------------------------------------------------
(* Paths.  arg is the home directory, or the name to append.               *)

Expanding == {"expandtildefirst", "expandtildefirst_len_unsafe_p"}

Appending == {"appendpath", "appendpath_p"}

Home == call.arg

StartsWithTilde == mem[0] = Tilde

NoTilde ==
  /\ Called(Expanding) /\ ~StartsWithTilde
  /\ Return(IF call.op = "expandtildefirst" THEN Succ ELSE n)
  /\ Unwritten /\ Unsized

(* HOME is not set, or jstr_reserve fails. *)
PathFails ==
  /\ \/ Called(Expanding) /\ StartsWithTilde
     \/ Called({"appendpath"})
  /\ Return(IF call.op = "expandtildefirst_len_unsafe_p" THEN Null ELSE Err)
  /\ Unwritten /\ Unsized

(* The text behind the tilde moves, then the home directory is copied in.  *)
Expanded(k) ==
  [i \in DOMAIN mem |-> IF i < Len(Home) THEN Home[i + 1] ELSE Moved(Len(Home), 1, k)[i]]

ExpandUnsafe ==
  /\ Called({"expandtildefirst_len_unsafe_p"}) /\ StartsWithTilde
  /\ LET remaining == StrLenFrom(1) + 1
     IN  /\ mem' = Expanded(remaining)
         /\ far' = Later(far, Len(Home) + remaining)
         /\ Return(Len(Home) + remaining - 1)
  /\ Unsized

Expand ==
  /\ Called({"expandtildefirst"}) /\ StartsWithTilde
  /\ room' = Later(room, size + Len(Home) + 1)
  /\ mem' = Expanded(size - 1)
  /\ far' = Later(far, Len(Home) + size - 1)
  /\ size' = size + Len(Home)
  /\ Return(Succ)

AppendPath ==
  /\ Called(Appending)
  /\ StrCpyAt(n, <<Slash>> \o call.arg)
  /\ IF call.op = "appendpath"
     THEN /\ room' = Later(room, size + Len(call.arg) + 2)
          /\ size' = size + 1 + Len(call.arg)
          /\ Return(Succ)
     ELSE Unsized /\ Return(n + 1 + Len(call.arg))

TextNext ==
  \/ Rev \/ RevSwap \/ RevDone \/ RevCpy \/ RevCpyByte \/ RevCpyDone
  \/ TrimNothing \/ Trim \/ TrimEndSpace \/ TrimEndDone \/ TrimStartSpace \/ TrimStartDone
  \/ Split \/ TokenNe \/ TokenSet \/ NoToken
  \/ RepeatCpy \/ RepeatCpyOnce \/ RepeatCpyDone
  \/ ThousepFew \/ ThousepMany \/ ThousepMove \/ ThousepDone
  \/ ThousepCpyFew \/ ThousepCpyHead \/ ThousepCpyDigit \/ ThousepCpyDone
  \/ Unescape \/ UnescapePlain \/ UnescapeLetter \/ UnescapeOctal \/ UnescapeDone
  \/ NoTilde \/ PathFails \/ ExpandUnsafe \/ Expand \/ AppendPath
=============================================================================
