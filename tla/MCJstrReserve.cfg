CONSTANTS
  Char = {}
  NUL = NUL
  Junk = Junk
  Width = 5
  MinCap = 3
  MaxCap = 15
  Limit = 15
SPECIFICATION LoopSpec
INVARIANTS
  SuccessCovers
PROPERTIES
  GrantedIsFirstDoubling
  FeasibleReturns
