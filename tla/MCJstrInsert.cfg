CONSTANTS
  a = a
  b = b
  Char <- MCChar
  NUL = NUL
  Junk = Junk
  MinCap = 3
  MaxCap = 24
  Texts <- MCTexts
  Finds <- MCFinds
  Srcs <- MCSrcs
  Slacks = {0, 1, 3}
  MaxLen = 4
  MaxN = 5
  MaxGap = 2
  Word = 64
SPECIFICATION Spec
CHECK_DEADLOCK FALSE
INVARIANTS
  OverrunsAreKnown
  Produces
PROPERTIES
  Returns
