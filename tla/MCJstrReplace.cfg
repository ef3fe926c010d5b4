CONSTANTS
  a = a
  b = b
  MaxLen = 5
  Char <- MCChar
  NUL = NUL
  Junk = Junk
  MinCap = 3
  MaxCap = 24
  Texts <- MCTexts
  Finds <- MCFinds
  Rplcs <- MCRplcs
  Counts = {0, 1, 2, 9}
  Slacks = {0, 3}
SPECIFICATION Spec
CHECK_DEADLOCK FALSE
INVARIANTS
  NeverClobbers
  ReplacesAll
  LoopInvariant
PROPERTIES
  Returns
