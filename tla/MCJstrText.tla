----------------------------- MODULE MCJstrText -----------------------------
(***************************************************************************)
(* The functions on texts, numbers and paths against what they are to      *)
(* compute, on all short texts over the characters that matter to each.    *)
(***************************************************************************)
EXTENDS JstrQuery

LOCAL INSTANCE SequencesExt

MCNull == -1

a == 97
A == 65
b == 98
s == 32
n0 == 48

Strings(alphabet, lengths) == UNION {[1..i -> alphabet] : i \in lengths}

Family(ops, texts, args) ==
  [ops |-> ops, texts |-> texts, args |-> args, ks |-> {-1}, bases |-> {10}, bits |-> {16}]

OneToNine == <<49, 50, 51, 52, 53, 54, 55, 56, 57, 48>>

Numerals == {SubSeq(OneToNine, 1, i) : i \in 0..10}

SignedNumerals == Numerals \union {<<Minus>> \o t : t \in Numerals}

\* Zero, the ends of the range of 16 bits, powers of bases, and what lies around
\* 999.
Unsigned == {0, 1, 9, 10, 35, 36, 512, 999, 1000, 1023, 32768, 65535}

SignedNumbers == {-1, -999, -1000, -4096, -32767, -32768, 999, 32767}

\* The bases with a power of two of their own, and those that have to share one.
Bases == {2, 3, 8, 10, 16, 32, 33, 36}

\* Both sides of the smallest number of five digits in bases 33 and 36, and the
\* ends of the ranges of 20 and 24 bits.
Smallest(bits) == {0 - 2^(bits - 1), 0 - 33^4, 1 - 33^4, 0 - 36^4, 1 - 36^4}

Names == Strings({a, b}, 0..2)

MCCalls ==
  {Family({"rev_len", "rev_p", "revcpy_len", "revcpy_p"}, Strings({a, b}, 0..5), {<<>>}),
   Family(TrimsEnd \union TrimsStart, Strings({a, s, 9}, 0..5), {<<>>}),
   Family(Splitting, Strings({a, b}, 0..5), Strings({a, b}, 0..2)),
   [Family({"repeatcpy_len_p"}, Strings({a, b}, 0..3), {<<>>}) EXCEPT !.ks = 0..4],
   Family({"thousep_len_p", "thousepcpy_len_p"}, SignedNumerals, {<<>>}),
   Family(Unescaping, Strings({Backslash, 48, 52, 55, 110}, 0..5), {<<>>}),
   Family(Expanding \union Appending, Strings({Tilde, Slash, a}, 0..3), Names),
   [Family(Unsafe \cap {"ulltoa_p", "ulltoa_thousep_p"}, {<<>>}, {<<>>})
      EXCEPT !.ks = Unsigned, !.bases = {2, 3, 8, 10, 16, 36}],
   [Family({"lltoa_p", "lltoa_thousep_p"}, {<<>>}, {<<>>})
      EXCEPT !.ks = SignedNumbers, !.bases = Bases],
   [Family({"utoa", "utoa_thousep"}, {<<>>, <<a, b>>}, {<<>>})
      EXCEPT !.ks = Unsigned, !.bases = Bases \union {0, 1, 37}],
   [Family({"utoa", "utoa_thousep"}, {<<a>>}, {<<>>})
      EXCEPT !.ks = {2^20 - 1}, !.bases = {2, 8, 10, 32, 36}, !.bits = {20}],
   [Family({"itoa", "itoa_thousep"}, {<<>>, <<a, b>>}, {<<>>})
      EXCEPT !.ks = SignedNumbers, !.bases = Bases \union {1, 37}],
   [Family({"itoa", "itoa_thousep"}, {<<a>>}, {<<>>})
      EXCEPT !.ks = {0 - 2^19}, !.bases = {2} \union 8..36, !.bits = {20}],
   [Family({"itoa", "itoa_thousep"}, {<<a>>}, {<<>>})
      EXCEPT !.ks = Smallest(24), !.bases = {8, 16} \union 32..36, !.bits = {24}],
   [Family({"atou_len"}, Numerals, {<<>>}) EXCEPT !.bits = {8, 16}],
   Family({"atoi_len"}, {t \in SignedNumerals : Len(t) <= 4}, {<<>>}),
   [Family({"memspn", "memcspn", "strrspn", "strrcspn", "strrpbrk", "mempbrk"},
           Strings({a, b, A}, 3..4), Strings({a, b}, 0..2)) EXCEPT !.ks = {-1, 2}],
   Family({"strchrnulinv", "strchrinv", "memchrnulinv", "memchrinv", "memrchrinv", "strrchrinv"},
          Strings({a, b}, 0..4), {<<a>>, <<Nul>>}),
   Family({"basename"}, Strings({Slash, a}, 0..5), {<<>>}),
   [Family({"linestart", "linenext", "linenextnul_len", "linenextnul", "linenumber"},
           Strings({Newline, a}, 3..5), {<<>>}) EXCEPT !.ks = {-1, 2}],
   Family(Comparing, Strings({a, A, b}, 0..3), Strings({a, A, b}, 0..3))}

-----------------------------------------------------------------------------
\* What the unsafe functions are told to be given, and the length of the others.
Given(x) ==
  LET len == Len(x.text)
      ds == IF len > 0 /\ x.text[1] = Minus THEN len - 1 ELSE len
      seps == IF ds = 0 THEN 0 ELSE (ds - 1) \div 3
      groups == x.op \in Grouping
  IN CASE x.op \in Comparing -> len
       [] x.op \in {"strchrnulinv", "strchrinv", "linenextnul"} -> len + 1
       [] x.op \in Looking -> IF x.k < 0 THEN len ELSE x.k
       [] x.op = "repeatcpy_len_p" -> len * x.k + 1
       [] x.op \in {"thousep_len_p", "thousepcpy_len_p"} -> len + 1 + seps
       [] x.op = "expandtildefirst_len_unsafe_p" -> len + Len(x.arg)
       [] x.op = "appendpath_p" -> len + Len(x.arg) + 2
       [] x.op \in Unsafe -> 1 + CountDigits(x.base, x.bits, groups) + 1
       [] OTHER -> len + 1

Init == BufferInit(Given)

Done == pc = "done" /\ UNCHANGED vars

Next == TextNext \/ ItoaNext \/ QueryNext \/ Done

Spec == Init /\ [][Next]_vars

-----------------------------------------------------------------------------
(* What each call is to compute.                                           *)

text == call.text

arg == call.arg

Spaces == {i \in 1..n : IsSpace(text[i])}

Leading == Cardinality({i \in 1..n : 1..i \subseteq Spaces})

Trailing == Cardinality({i \in 1..n : i..n \subseteq Spaces})

Trimmed ==
  CASE call.op = "trimend_len_p" -> SubSeq(text, 1, n - Trailing)
    [] call.op = "trim_len_p" -> SubSeq(text, Leading + 1, n - Trailing)
    [] OTHER -> SubSeq(text, Leading + 1, n)

RECURSIVE Grouped(_)
Grouped(t) ==
  IF Len(t) <= 3 THEN t
  ELSE Grouped(SubSeq(t, 1, Len(t) - 3)) \o <<Separator>> \o SubSeq(t, Len(t) - 2, Len(t))

GroupedText == IF Signed THEN <<Minus>> \o Grouped(Tail(text)) ELSE Grouped(text)

RECURSIVE Unescaped(_)
Unescaped(t) ==
  LET octal == {i \in 2..4 : \A j \in 2..i : j <= Len(t) /\ IsOctal(t[j])}
      code == FoldLeft(LAMBDA v, d : v * 8 + d - 48, 0, SubSeq(t, 2, Cardinality(octal) + 1)) % 256
  IN CASE t = <<>> \/ t = <<Backslash>> -> <<>>
       [] t[1] # Backslash -> <<t[1]>> \o Unescaped(Tail(t))
       [] octal # {} -> IF code = Nul THEN <<>>
                        ELSE <<code>> \o Unescaped(SubSeq(t, Cardinality(octal) + 2, Len(t)))
       [] OTHER -> <<Escapes(t[2])>> \o Unescaped(SubSeq(t, 3, Len(t)))

ExpandedPath == IF n > 0 /\ text[1] = Tilde THEN arg \o Tail(text) ELSE text

RECURSIVE InBase(_, _)
InBase(number, base) ==
  (IF number < base THEN <<>> ELSE InBase(number \div base, base)) \o <<Digit(number % base)>>

\* Numbers up to 999 have no separators, whatever their base.
Written ==
  LET number == IF call.k < 0 THEN 0 - call.k ELSE call.k
      ds == InBase(number, call.base)
  IN  (IF call.k < 0 THEN <<Minus>> ELSE <<>>)
        \o (IF call.op \in Grouping /\ number > 999 THEN Grouped(ds) ELSE ds)

Decimal(t) == FoldLeft(LAMBDA v, d : (v * 10 + d - 48) % 2^call.bits, 0, t)

\* jstr_atoi_len takes a sign for the digit 3 and leaves out the last digit.
Read ==
  IF call.op = "atoi_len" /\ Signed
  THEN IF n = 1 THEN 0 ELSE Decimal(<<51>> \o SubSeq(text, 2, n - 1))
  ELSE Decimal(text)

Computed ==
  CASE call.op \in {"rev_len", "rev_p", "revcpy_len", "revcpy_p"} -> Reverse(text)
    [] call.op \in TrimsEnd \union TrimsStart -> Trimmed
    [] call.op = "repeatcpy_len_p" -> FlattenSeq([i \in 1..call.k |-> text])
    [] call.op \in {"thousep_len_p", "thousepcpy_len_p"} -> GroupedText
    [] call.op \in Unescaping -> Unescaped(text)
    [] call.op \in Expanding -> ExpandedPath
    [] call.op \in Appending -> text \o <<Slash>> \o arg
    [] call.op \in Unsafe -> Written
    [] call.op \in Safe -> text \o Written
    [] OTHER -> text

-----------------------------------------------------------------------------
(* The tokens of the text.                                                 *)

Tiles(ts) ==
  /\ ts = <<>> <=> n = 0
  /\ \A i \in DOMAIN ts :
       LET piece == SubSeq(text, ts[i][1] + 1, ts[i][2])
           endsAt(k) == k \in Len(arg)..Len(piece) /\ SubSeq(piece, k - Len(arg) + 1, k) = arg
       IN  /\ ts[i][1] = IF i = 1 THEN 0 ELSE ts[i - 1][2]
           /\ i = Len(ts) => ts[i][2] = n
           /\ {k \in 0..Len(piece) : endsAt(k)} = {Len(piece)} \/ (i = Len(ts) /\ ~ \E k \in 0..Len(piece) : endsAt(k))

Runs == {r \in (0..n) \X (0..n) :
           /\ r[1] < r[2]
           /\ \A i \in r[1]..(r[2] - 1) : ~InSet(text[i + 1])
           /\ r[1] = 0 \/ InSet(text[r[1]])
           /\ r[2] = n \/ InSet(text[r[2] + 1])}

\* With an empty needle jstr_strtok_ne returns the text and jstr_strtok_ne_len
\* the same empty token for ever.
Tokens(ts) ==
  CASE call.op = "strtok" -> ts = SetToSortSeq(Runs, LAMBDA r, q : r[1] < q[1])
    [] arg = <<>> /\ call.op = "strtok_ne_len" -> ts = [i \in 1..(IF n = 0 THEN 0 ELSE MaxTokens) |-> <<0, 0>>]
    [] arg = <<>> -> ts = IF n = 0 THEN <<>> ELSE <<<<0, n>>>>
    [] OTHER -> Tiles(ts)

-----------------------------------------------------------------------------
(* The answers of the functions that look.                                 *)

\* How many bytes f holds of, from the beginning or up to the end.
Ahead(f(_), m) == Cardinality({i \in 1..m : \A j \in 1..i : f(text[j])})

Behind(f(_)) == Cardinality({i \in 1..sz : \A j \in i..sz : f(text[j])})

In1(x) == InSet(x)

Out1(x) == ~InSet(x)

Same1(x) == x = OnlyChar

Other1(x) == x # OnlyChar

OnLine(x) == x # Newline

NotSlash(x) == x # Slash

LineEnd == Ahead(OnLine, sz)

(***************************************************************************)
(* Where the functions differ from what is said of them: jstr_memspn with  *)
(* one character goes on behind the length; jstr_strrspn and jstr_strrcspn *)
(* of no character return 0 and the length; jstr_strrpbrk returns the      *)
(* distance from the end, and the end where there is nothing;              *)
(* jstr_mempbrk without a match returns the end unless a NUL lies there;   *)
(* jstr_strchrinv returns the terminator; jstr_memrchrinv finds the last   *)
(* C; jstr_linenext_len returns an end behind a newline unless a NUL lies  *)
(* there; jstr_linenextnul returns a last newline itself.                  *)
(***************************************************************************)
Looked ==
  CASE call.op = "memspn" -> Ahead(In1, IF Len(arg) = 1 THEN n ELSE sz)
    [] call.op = "memcspn" -> Ahead(Out1, sz)
    [] call.op = "strrspn" -> IF arg = <<>> THEN 0 ELSE sz - Behind(In1)
    [] call.op = "strrcspn" -> IF arg = <<>> THEN sz ELSE sz - Behind(Out1)
    [] call.op = "strrpbrk" -> IF arg = <<>> \/ Behind(Out1) = 0 THEN Null ELSE Behind(Out1)
    [] call.op = "mempbrk" -> IF Ahead(Out1, sz) = n THEN Null ELSE Ahead(Out1, sz)
    [] call.op = "strchrnulinv" -> Ahead(Same1, n)
    [] call.op = "strchrinv" -> IF OnlyChar = Nul /\ n = 0 THEN Null ELSE Ahead(Same1, n)
    [] call.op = "memchrnulinv" -> Ahead(Same1, sz)
    [] call.op = "memchrinv" -> IF Ahead(Same1, sz) = sz THEN Null ELSE Ahead(Same1, sz)
    [] call.op \in {"memrchrinv", "strrchrinv"} -> IF Behind(Other1) = sz THEN Null ELSE sz - Behind(Other1) - 1
    [] call.op = "basename" -> sz - Behind(NotSlash)
    [] call.op = "linestart" -> sz - Behind(OnLine)
    [] call.op = "linenext" -> IF LineEnd = sz \/ LineEnd + 1 = n THEN Null ELSE LineEnd + 1
    [] call.op = "linenextnul_len" -> IF LineEnd = sz \/ LineEnd + 1 = n THEN sz ELSE LineEnd + 1
    [] call.op = "linenextnul" -> IF Ahead(OnLine, n) >= n - 1 THEN Ahead(OnLine, n) ELSE Ahead(OnLine, n) + 1
    [] call.op = "linenumber" -> Cardinality({i \in 1..sz : text[i] = Newline}) + 1

Folds(op) == op \in {"strcasecmpeq_loop", "cmpcaseeq", "endscase", "startscase", "startscase_len", "startscasenul"}

Folded(t) == IF Folds(call.op) THEN [i \in DOMAIN t |-> ToLower(t[i])] ELSE t

(* The two loops that compare take a text for equal to what it begins with. *)
Compared ==
  CASE call.op \in {"strcmpeq_loop", "strcasecmpeq_loop"} ->
         (ret = 0) = IsPrefix(Folded(arg), Folded(text))
    [] call.op \in {"cmpeq", "cmpcaseeq"} -> (ret = 0) = (Folded(text) = Folded(arg))
    [] call.op \in {"ends", "endscase"} -> (ret = 1) = IsSuffix(Folded(arg), Folded(text))
    [] call.op = "startscasenul" -> ret = IF IsPrefix(Folded(arg), Folded(text)) THEN Len(arg) ELSE 0
    [] OTHER -> (ret = 1) = IsPrefix(Folded(arg), Folded(text))

-----------------------------------------------------------------------------
Holds(t) == /\ \A i \in DOMAIN t : mem[i - 1] = t[i]
            /\ mem[Len(t)] = Nul

Untouched == size = n /\ (call.op \notin Copying \union Unsafe => Holds(text))

MayFail == Safe \union Expanding \union {"appendpath"}

Invalid == call.op \in Safe /\ call.base \notin 2..36

\* jstr_io_expandtildefirst counts the tilde that is gone.
SizeComputed ==
  CASE call.op = "expandtildefirst" /\ n > 0 /\ text[1] = Tilde -> Len(Computed) + 1
    [] call.op \in Safe \union {"appendpath", "expandtildefirst"} -> Len(Computed)
    [] OTHER -> n

Answered ==
  CASE call.op \in Comparing -> Compared
    [] call.op \in Looking -> ret = Looked
    [] call.op \in Reading -> ret = Read
    [] call.op \in Splitting -> Tokens(ret)
    [] call.op \in Safe \union {"appendpath", "expandtildefirst"} -> ret = Succ
    [] OTHER -> ret = Len(Computed)

(***************************************************************************)
(* A function that has not failed has made of the text what it is to make, *)
(* terminated it and returned where it ends, or has answered what it is    *)
(* asked; a function that has failed has left the text as it was.          *)
(***************************************************************************)
Computes ==
  pc = "done" =>
    \/ call.op \in MayFail /\ ret = Err /\ Untouched
    \/ ~Invalid /\ Answered /\ Holds(Computed) /\ size = SizeComputed

(***************************************************************************)
(* A negative number with as many digits as its base can have in so many   *)
(* bits: in base 8 for 16, 32 and 64 bits, in bases 32 to 35 for 32 and in *)
(* bases 32 to 36 for 64.  Where the leading group of these digits is full *)
(* there is one separator fewer than has been counted.                     *)
(***************************************************************************)
FillsDigits ==
  LET most == (call.bits \div FloorLog2(call.base)) + 1 IN
  /\ call.k <= 0 - call.base^(most - 1)
  /\ call.op = "itoa_thousep" => most % 3 # 0

(***************************************************************************)
(* The room a function asks for, or is to be given, is enough, but for     *)
(* three: jstr_itoa counts no sign, and with all the digits that it has    *)
(* counted a negative number has its terminator behind the room,           *)
(* jstr_io_expandtildefirst_len_unsafe_p terminates the path twice, and    *)
(* the functions that look at the byte where they stop read it behind the  *)
(* end.                                                                    *)
(***************************************************************************)
Fits ==
  \/ far < room
  \/ far = room /\ call.op \in {"itoa", "itoa_thousep"} /\ FillsDigits
  \/ far = room /\ call.op = "expandtildefirst_len_unsafe_p"
  \/ far = sz /\ call.op \in {"mempbrk", "linenext", "linenextnul_len"}
  \/ far <= n /\ call.op = "memspn" /\ Len(arg) = 1
=============================================================================
