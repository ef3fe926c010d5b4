CONSTANTS
  MaxLen = 3
  x = 50
  Backslash = 60
  d0 = 70
  d1 = 71
  NUL = 0
  Junk = 99
  All = 1000
  Char <- MCChar
  Texts <- MCTexts
  Rplcs <- MCRplcs
  Digits <- MCDigits
  Value <- MCValue
  Counts = {0, 1, 2}
  Slacks = {0}
  MinCap = 3
  MaxCap = 24
  MaxSearches = 5
SPECIFICATION Spec
CHECK_DEADLOCK FALSE
INVARIANTS
  InBounds
  SearchesOriginal
  FailureLeaves
  Rewrites
PROPERTIES
  Returns
