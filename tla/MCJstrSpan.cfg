CONSTANTS
  a = a
  b = b
  c = c
  MaxLen = 5
  Char <- MCChar
  NUL = NUL
  Junk = Junk
  MinCap = 3
  MaxCap = 24
  Texts <- MCTexts
  Counts = {0, 1, 2, 9}
SPECIFICATION Spec
CHECK_DEADLOCK FALSE
INVARIANTS
  SizeIsLength
  TreatsExactly
PROPERTIES
  Returns
