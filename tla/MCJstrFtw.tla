------------------------------ MODULE MCJstrFtw ------------------------------
(***************************************************************************)
(* JstrFtw in a tree with a file, a directory, a hidden entry that is      *)
(* neither, and a link back to the top, which makes the tree endless: the  *)
(* path of the file behind the link just exceeds the buffer.               *)
(***************************************************************************)
EXTENDS JstrFtw

CONSTANTS d, f, s, l, h

MCNames == {d, f, s, l, h}

MCTokens == MCNames \cup {Slash}

MCKind ==
  [m \in MCTokens |-> CASE m = f -> "reg" [] m = h -> "other" [] OTHER -> "dir"]

MCEntries ==
  [m \in MCTokens |-> CASE m \in {d, l, Slash} -> {f, s}
                       [] m = s -> {l, h}
                       [] OTHER -> {}]

MCHidden == {h}

MCSize == [m \in MCTokens |-> IF m = f THEN 2 ELSE 1]

MCDirPaths ==
  {<<>>, <<Slash>>, <<d, Slash>>, <<f>>, <<h>>, <<Slash, f>>, <<d, Slash, f>>,
   <<d, Slash, s, Slash, l, Slash, f>>}
=============================================================================
