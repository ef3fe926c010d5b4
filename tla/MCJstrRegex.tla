---------------------------- MODULE MCJstrRegex ----------------------------
(***************************************************************************)
(* JstrRegex on strings of distinct characters, so that each byte of a      *)
(* result tells where it came from.                                         *)
(***************************************************************************)
EXTENDS JstrRegex

CONSTANTS
  MaxLen,   (* bound on the strings *)
  x,        (* an ordinary character of a replacement *)
  d0, d1    (* two digits *)

MCTexts == {[k \in 1..m |-> k] : m \in 0..MaxLen}
MCDigits == {d0, d1}
MCValue == [d \in MCDigits |-> IF d = d0 THEN 0 ELSE 1]
MCChar == 1..MaxLen \cup {x, Backslash} \cup MCDigits

(* No reference, valid and invalid ones, escaped and trailing backslashes. *)
MCRplcs ==
  LET B == Backslash
  IN  {<<>>, <<x>>, <<x, x>>, <<B, d0>>, <<x, B, d1>>, <<B, B, d1>>,
       <<B, x, B, d1>>, <<B, d1, B>>, <<B, d0, B, d1>>, <<x, B, x>>}
=============================================================================
