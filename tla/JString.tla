------------------------------- MODULE JString -------------------------------
(***************************************************************************)
(* What include/builder.h promises, without memory: a jstr_ty is a         *)
(* sequence of characters, a call either succeeds with its effect or       *)
(* returns an error and leaves the sequence as it was.  Only a formatting  *)
(* call that fails half way may have overwritten characters, and even then *)
(* the length is the old one.                                              *)
(***************************************************************************)
EXTENDS Naturals, Sequences

CONSTANTS
  Char,   (* the characters *)
  Srcs,   (* the strings a caller passes in *)
  MaxN    (* bound: largest repeat count passed *)

VARIABLES
  str,    (* the contents *)
  last    (* the last call and what it returned *)

vars == <<str, last>>

Init == str = <<>> /\ last = [op |-> "init", ret |-> "SUCC"]

Times(c, n) == [i \in 1..n |-> c]

Becomes(ops, new) ==
  /\ str' = new
  /\ \E op \in ops : last' = [op |-> op, ret |-> "SUCC"]

Keep ==
  Becomes({"reserve", "reservealways", "reserveexact", "reserveexactalways",
           "shrink_to_fit"}, str)

Error ==
  /\ str' = str
  /\ last'.ret = "ERR"

(* src is written over the contents from start on, without growing them. *)
HalfPrinted ==
  /\ last'.ret = "ERR"
  /\ last'.op \in {"asprintf", "asprintf_append", "asprintf_from",
                   "sprintf_from"}
  /\ \E src \in Srcs, start \in 0..Len(str) : \E n \in 0..Len(src) :
       str' = [i \in 1..Len(str) |->
                 IF start < i /\ i <= start + n THEN src[i - start] ELSE str[i]]

Append1 == \E c \in Char : Becomes({"pushback"}, Append(str, c))

AppendStr ==
  \E src \in Srcs :
    Becomes({"append_len", "asprintf_append"}, str \o src)

AppendStrs == \E x, y \in Srcs : Becomes({"cat", "internal_cat"}, str \o x \o y)

AppendNone == Becomes({"internal_cat"}, str)

AppendN == \E c \in Char, n \in 0..MaxN : Becomes({"pushbackn"}, str \o Times(c, n))

Prepend1 == \E c \in Char : Becomes({"pushfront"}, <<c>> \o str)

PrependStr == \E src \in Srcs : Becomes({"prepend_len"}, src \o str)

PrependN == \E c \in Char, n \in 0..MaxN : Becomes({"pushfrontn"}, Times(c, n) \o str)

AssignStr == \E src \in Srcs : Becomes({"assign_len", "asprintf"}, src)

AssignN == \E c \in Char, n \in 0..MaxN : Becomes({"assignnchr"}, Times(c, n))

(* Every character up to the first NUL, so all of them when there is none *)
(* in the contents, becomes c.                                            *)
SetAll == \E c \in Char : Becomes({"strset"}, Times(c, Len(str)))

AssignFrom ==
  \E src \in Srcs, start \in 0..Len(str) :
    Becomes({"asprintf_from", "sprintf_from"}, SubSeq(str, 1, start) \o src)

DropLast ==
  Becomes({"popback"}, IF str = <<>> THEN str ELSE SubSeq(str, 1, Len(str) - 1))

DropFirst == Becomes({"popfront"}, IF str = <<>> THEN str ELSE Tail(str))

Clear == Becomes({"empty", "free"}, <<>>)

Next ==
  \/ Keep \/ Error \/ HalfPrinted
  \/ Append1 \/ AppendStr \/ AppendStrs \/ AppendNone \/ AppendN
  \/ Prepend1 \/ PrependStr \/ PrependN
  \/ AssignStr \/ AssignN \/ SetAll \/ AssignFrom
  \/ DropLast \/ DropFirst \/ Clear

Spec == Init /\ [][Next]_vars
==============================================================================
