----------------------------- MODULE MCJstrSpan -----------------------------
(***************************************************************************)
(* JstrSpan on all short strings over three characters.                    *)
(***************************************************************************)
EXTENDS JstrSpan

CONSTANTS a, b, c, MaxLen

MCChar == {a, b, c}

MCTexts == UNION {[1..k -> MCChar] : k \in 0..MaxLen}

=============================================================================
