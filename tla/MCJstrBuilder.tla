---------------------------- MODULE MCJstrBuilder ----------------------------
(* JstrBuilder on two characters, with the empty string and one of two. *)
EXTENDS JstrBuilder

CONSTANTS a, b

MCChar == {a, b}
MCSrcs == {<<>>, <<a, b>>}

MCKeepUsing == Ops \ ExactOps
==============================================================================
