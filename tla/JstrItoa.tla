------------------------------ MODULE JstrItoa ------------------------------
(***************************************************************************)
(* itoa.h: integers to digits and back.  A number is written from its last *)
(* digit on, by the loop of jstr_ulltoa_p or that of its variant with      *)
(* separators, and then reversed; the functions with a size first reserve  *)
(* the room that the digits can take.                                      *)
(***************************************************************************)
EXTENDS JstrText

\* The functions that assume there is room, and those that reserve it.
Unsafe == {"ulltoa_p", "lltoa_p", "ulltoa_thousep_p", "lltoa_thousep_p"}

Safe == {"utoa", "itoa", "utoa_thousep", "itoa_thousep"}

Grouping == {"ulltoa_thousep_p", "lltoa_thousep_p", "utoa_thousep", "itoa_thousep"}

(* jstr_internal_itoa_digit *)
Digit(d) == IF d < 10 THEN 48 + d ELSE 97 + d - 10

Magnitude == IF call.k < 0 THEN (0 - call.k) % 2^call.bits ELSE call.k

(* The l2 of the code: the largest power of two not above the base, but 3  *)
(* for base 10 as for 8.                                                   *)
FloorLog2(base) == CHOOSE i \in 1..5 : 2^i <= base /\ base < 2^(i + 1)

(* Mutated form: one digit less. *)
CountDigitsExact(base, bits, groups) ==
  LET dmax == bits \div FloorLog2(base) IN dmax + (IF groups THEN dmax \div 3 ELSE 0)

(* jstr_internal_itoa_countudigits *)
CountDigits(base, bits, groups) ==
  LET dmax == (bits \div FloorLog2(base)) + 1 IN dmax + (IF groups THEN dmax \div 3 ELSE 0)

Requested == size + CountDigits(call.base, call.bits, call.op \in Grouping) + 1

\* Groups only where the number has more than three decimal digits.
Loop == IF call.op \in Grouping /\ Magnitude > 999 THEN "groups" ELSE "digits"

(* The sign, and where the digits begin. *)
ConvertAt(buf) ==
  IF call.k < 0
  THEN Store(buf, Minus) /\ Goto(Loop, [number |-> Magnitude, first |-> buf + 1, buf |-> buf + 1, k |-> 0])
  ELSE Unwritten /\ Goto(Loop, [number |-> Magnitude, first |-> buf, buf |-> buf, k |-> 0])

Itoa ==
  /\ Called(Unsafe)
  /\ ConvertAt(0)
  /\ Unsized

ItoaRefuses ==
  /\ Called(Safe) /\ call.base \notin 2..36
  /\ Return(Err)
  /\ Unwritten /\ Unsized

ItoaReserveFails ==
  /\ Called(Safe) /\ call.base \in 2..36
  /\ Return(Err)
  /\ Unwritten /\ Unsized

ItoaReserve ==
  /\ Called(Safe) /\ call.base \in 2..36
  /\ room' = Later(room, Requested)
  /\ ConvertAt(size)
  /\ UNCHANGED size

LastDigit == Digit(l.number % call.base)

Rest == l.number \div call.base

(* From the digits in reverse order to the end. *)
TurnRound(buf) == Goto("rev", [s |-> l.first, e |-> buf - 1, end |-> buf])

ItoaDigit ==
  /\ In("digits") /\ Rest # 0
  /\ Store(l.buf, LastDigit)
  /\ Goto("digits", [l EXCEPT !.number = Rest, !.buf = @ + 1])
  /\ Unsized

ItoaGroup ==
  /\ In("groups") /\ Rest # 0
  /\ IF l.k < 2
     THEN /\ Store(l.buf, LastDigit)
          /\ Goto("groups", [l EXCEPT !.number = Rest, !.buf = @ + 1, !.k = @ + 1])
     ELSE /\ mem' = [mem EXCEPT ![l.buf] = LastDigit, ![l.buf + 1] = Separator]
          /\ far' = Later(far, l.buf + 1)
          /\ Goto("groups", [l EXCEPT !.number = Rest, !.buf = @ + 2, !.k = 0])
  /\ Unsized

ItoaLastDigit ==
  /\ pc \in {"digits", "groups"} /\ Rest = 0
  /\ StrCpyAt(l.buf, <<LastDigit>>)
  /\ TurnRound(l.buf + 1)
  /\ UNCHANGED call /\ Unsized

ItoaDone ==
  /\ In("rev") /\ l.s >= l.e
  /\ call.op \in Unsafe \union Safe
  /\ IF call.op \in Safe THEN size' = l.end /\ Return(Succ) ELSE UNCHANGED size /\ Return(l.end)
  /\ Unwritten /\ UNCHANGED room

-----------------------------------------------------------------------------
(* jstr_atou_len and jstr_atoi_len.                                        *)

Reading == {"atou_len", "atoi_len"}

Value(c) == c - 48

(* jstr_atoi_len drops the sign from the length but steps over it only     *)
(* after it has taken it for a digit.                                      *)
Atoi ==
  /\ Called(Reading)
  /\ CASE n = 0 -> Return(0)
       [] call.op = "atoi_len" /\ Signed ->
            IF n = 1 THEN Return(0)
            ELSE Goto("atoi", [s |-> 1, sz |-> n - 1, number |-> 0 - Value(mem[0])])
       [] OTHER -> Goto("atoi", [s |-> 1, sz |-> n, number |-> Value(mem[0])])
  /\ Unwritten /\ Unsized

AtoiDigit ==
  /\ In("atoi") /\ l.sz > 1
  /\ Goto("atoi", [s |-> l.s + 1, sz |-> l.sz - 1,
                   number |-> (l.number * 10 + Value(mem[l.s])) % 2^call.bits])
  /\ Unwritten /\ Unsized

AtoiDone ==
  /\ In("atoi") /\ l.sz = 1
  /\ Return(l.number)
  /\ Unwritten /\ Unsized

ItoaNext ==
  \/ Itoa \/ ItoaRefuses \/ ItoaReserveFails \/ ItoaReserve
  \/ ItoaDigit \/ ItoaGroup \/ ItoaLastDigit \/ ItoaDone
  \/ Atoi \/ AtoiDigit \/ AtoiDone
=============================================================================
