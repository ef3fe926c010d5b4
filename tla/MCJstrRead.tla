------------------------------ MODULE MCJstrRead ------------------------------
(***************************************************************************)
(* JstrRead on contents of distinct characters: every loss, repetition or  *)
(* change of order of a byte shows.                                        *)
(***************************************************************************)
EXTENDS JstrRead

CONSTANT MaxLen  (* enough for a pipe's string to grow twice *)

MCChar == 1..MaxLen

MCContents == {[k \in 1..n |-> k] : n \in 0..MaxLen}

MCOlds == {<<>>, <<9>>, <<9, 8, 7, 6>>}
===============================================================================
