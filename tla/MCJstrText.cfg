CONSTANTS
  Null <- MCNull
  Room = 32
  Junk = 170
  MaxTokens = 7
  Calls <- MCCalls
SPECIFICATION Spec
INVARIANTS
  Computes
  Fits
