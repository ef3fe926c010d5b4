CONSTANTS
  a = a
  Newline = Newline
  Char <- MCChar
  MaxLen = 5
  Texts <- MCTexts
SPECIFICATION Spec
CHECK_DEADLOCK FALSE
INVARIANTS
  PartialWritevHandled
