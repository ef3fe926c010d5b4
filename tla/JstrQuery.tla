----------------------------- MODULE JstrQuery -----------------------------
(***************************************************************************)
(* The functions of string.h and stdstring.h that only look: spans from    *)
(* either end, the first or last byte that is or is not a character,       *)
(* lines, names and comparisons.  Each is written from those it calls.     *)
(* Addresses are relative to the string.                                   *)
(***************************************************************************)
EXTENDS JstrItoa, FiniteSets

Newline == 10

\* The length a function is given; the functions without one take strlen.
sz == IF call.k < 0 THEN n ELSE call.k

\* The set of characters a function is given, or its one character.
Accept == {call.arg[i] : i \in DOMAIN call.arg}

OnlyChar == call.arg[1]

Greatest(S, none) == IF S = {} THEN none ELSE CHOOSE i \in S : \A j \in S : j <= i

OrElse(p, other) == IF p = Null THEN other ELSE p

-----------------------------------------------------------------------------
(* internal/musl/stdstring.h                                               *)

(* A set of one character is not stopped by the length. *)
memspn ==
  CASE Len(call.arg) = 0 -> 0
    [] Len(call.arg) = 1 -> Least({i \in 0..(Room - 1) : mem[i] # OnlyChar}, Room)
    [] OTHER -> Least({i \in 0..(sz - 1) : mem[i] \notin Accept}, sz)

(* memchr for a set of one character, or for NUL where there is none. *)
memcspn ==
  IF Len(call.arg) = 0 THEN Least({i \in 0..(sz - 1) : mem[i] = Nul}, sz)
  ELSE Least({i \in 0..(sz - 1) : mem[i] \in Accept}, sz)

(* The last two return how much is left of the string. *)
memrspn ==
  IF Len(call.arg) = 0 THEN 0
  ELSE Greatest({i \in 0..(sz - 1) : mem[i] \notin Accept}, -1) + 1

memrcspn ==
  IF Len(call.arg) = 0 THEN sz
  ELSE Greatest({i \in 0..(sz - 1) : mem[i] \in Accept}, -1) + 1

-----------------------------------------------------------------------------
(* string.h                                                                *)

(* From what is left of the string as if it were what has been passed. *)
strrpbrk == IF memrcspn = sz THEN Null ELSE sz - memrcspn

mempbrk == IF mem[memcspn] = Nul THEN Null ELSE memcspn

strchrnulinv == IF OnlyChar = Nul THEN 0 ELSE Least({i \in 0..n : mem[i] # OnlyChar}, n)

strchrinv == IF mem[strchrnulinv] # OnlyChar THEN strchrnulinv ELSE Null

memchrnulinv == Least({i \in 0..(sz - 1) : mem[i] # OnlyChar}, sz)

memchrinv == IF memchrnulinv # sz THEN memchrnulinv ELSE Null

(* The loop runs while the character is another one. *)
memrchrinv == Greatest({i \in 0..(sz - 1) : mem[i] = OnlyChar}, Null)

memrchr(x) == Greatest({i \in 0..(sz - 1) : mem[i] = x}, Null)

memchr(x) == Least({i \in 0..(sz - 1) : mem[i] = x}, Null)

strchrnul(x) == Least({i \in 0..(n - 1) : mem[i] = x}, n)

basename == IF memrchr(Slash) = Null THEN 0 ELSE memrchr(Slash) + 1

linestart == IF memrchr(Newline) = Null THEN 0 ELSE memrchr(Newline) + 1

(* With a length the byte behind the newline may be the one behind the end. *)
linenext == IF memchr(Newline) # Null /\ mem[memchr(Newline) + 1] # Nul THEN memchr(Newline) + 1 ELSE Null

linenextnul ==
  LET p == strchrnul(Newline)
  IN  IF mem[p] # Nul /\ mem[p + 1] # Nul THEN p + 1 ELSE p

linenumber == Cardinality({i \in 0..(sz - 1) : mem[i] = Newline}) + 1

-----------------------------------------------------------------------------
(* Comparisons, with arg as the second string: 0 where they find it equal. *)

Needle(i) == IF i < Len(call.arg) THEN call.arg[i + 1] ELSE Nul

Differ(f, i) == f[mem[i]] # f[Needle(i)]

(* What the bytes are compared by. *)
AsIs == [c \in Byte |-> c]

Lowered == [c \in Byte |-> ToLower(c)]

Bool(b) == IF b THEN 1 ELSE 0

(* The byte of the second string where the loop stops. *)
strcmpeq_loop(f) == Needle(Least({i \in 0..n : Differ(f, i)}, n))

memcmpeq(f, m) == Bool(\E i \in 0..(m - 1) : Differ(f, i))

cmpeq(f) == IF n = Len(call.arg) THEN memcmpeq(f, n) ELSE 1

ends(f) ==
  Bool(n >= Len(call.arg) /\ \A i \in DOMAIN call.arg : f[mem[n - Len(call.arg) + i - 1]] = f[call.arg[i]])

(* strncmp and jstr_strcasecmpeq_len stop at a terminator. *)
starts(f) ==
  IF f[mem[0]] = f[Needle(0)] THEN Bool(~ \E i \in 0..(Len(call.arg) - 1) : Differ(f, i))
  ELSE Bool(Needle(0) = Nul)

starts_len(f) ==
  IF n >= Len(call.arg) THEN 1 - memcmpeq(f, Len(call.arg)) ELSE 0

startscasenul ==
  IF ToLower(mem[0]) = ToLower(Needle(0)) /\ memcmpeq(Lowered, Len(call.arg)) = 0
  THEN Len(call.arg) ELSE 0

Comparing ==
  {"strcmpeq_loop", "strcasecmpeq_loop", "cmpeq", "cmpcaseeq", "ends", "endscase", "starts",
   "startscase", "starts_len", "startscase_len", "startscasenul"}

Comparison(op) ==
  CASE op = "strcmpeq_loop" -> strcmpeq_loop(AsIs)
    [] op = "strcasecmpeq_loop" -> strcmpeq_loop(Lowered)
    [] op = "cmpeq" -> cmpeq(AsIs)
    [] op = "cmpcaseeq" -> cmpeq(Lowered)
    [] op = "ends" -> ends(AsIs)
    [] op = "endscase" -> ends(Lowered)
    [] op = "starts" -> starts(AsIs)
    [] op = "startscase" -> starts(Lowered)
    [] op = "starts_len" -> starts_len(AsIs)
    [] op = "startscase_len" -> starts_len(Lowered)
    [] op = "startscasenul" -> startscasenul

Looking ==
  {"memspn", "memcspn", "strrspn", "strrcspn", "strrpbrk", "mempbrk", "strchrnulinv", "strchrinv",
   "memchrnulinv", "memchrinv", "memrchrinv", "strrchrinv", "basename", "linestart", "linenext",
   "linenextnul_len", "linenextnul", "linenumber"}

Place(op) ==
  CASE op = "memspn" -> memspn
    [] op = "memcspn" -> memcspn
    [] op = "strrspn" -> memrspn
    [] op = "strrcspn" -> memrcspn
    [] op = "strrpbrk" -> strrpbrk
    [] op = "mempbrk" -> mempbrk
    [] op = "strchrnulinv" -> strchrnulinv
    [] op = "strchrinv" -> strchrinv
    [] op = "memchrnulinv" -> memchrnulinv
    [] op = "memchrinv" -> memchrinv
    [] op \in {"memrchrinv", "strrchrinv"} -> memrchrinv
    [] op = "basename" -> basename
    [] op = "linestart" -> linestart
    [] op = "linenext" -> linenext
    [] op = "linenextnul_len" -> OrElse(linenext, sz)
    [] op = "linenextnul" -> linenextnul
    [] op = "linenumber" -> linenumber

\* How far the functions read that look at the byte where they stop.
ReadTo(op) ==
  CASE op = "memspn" /\ Len(call.arg) = 1 -> memspn
    [] op = "mempbrk" -> memcspn
    [] op \in {"linenext", "linenextnul_len"} /\ memchr(Newline) # Null -> memchr(Newline) + 1
    [] OTHER -> far

Compare ==
  /\ Called(Comparing)
  /\ Return(Comparison(call.op))
  /\ Unwritten /\ Unsized

Look ==
  /\ Called(Looking)
  /\ Return(Place(call.op))
  /\ far' = ReadTo(call.op)
  /\ UNCHANGED mem /\ Unsized

QueryNext == Compare \/ Look
=============================================================================
