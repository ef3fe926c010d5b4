CONSTANTS
  Null <- MCNull
  Vec = 4
  Word = 3
  UInt = 7
  Reach = 8
  FirstChunk = 1
  NextChunk = 2
  Calls <- MCCalls
SPECIFICATION Spec
INVARIANTS
  Finds
  TouchesObject
  SkipsNoMatch
