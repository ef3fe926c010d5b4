----------------------------- MODULE MCJstrWrite -----------------------------
(***************************************************************************)
(* JstrWrite on all short texts, with and without newlines.                *)
(***************************************************************************)
EXTENDS JstrWrite

CONSTANTS a, MaxLen

MCChar == {a, Newline}
MCTexts == UNION {[1..k -> MCChar] : k \in 0..MaxLen}
==============================================================================
