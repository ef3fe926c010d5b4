CONSTANTS
  MaxLen = 13
  Char <- MCChar
  NUL = 0
  Junk = 99
  MinCap = 3
  MaxCap = 24
  Contents <- MCContents
  Olds <- MCOlds
  BufSize = 2
SPECIFICATION Spec
CHECK_DEADLOCK FALSE
INVARIANTS
  SuccessIsComplete
  FailureFits
PROPERTIES
  Returns
