CONSTANTS
  a = a
  b = b
  Char <- MCChar
  NUL = NUL
  Junk = Junk
  Srcs <- MCSrcs
  MinCap = 3
  MaxCap = 6
  MaxN = 2
  KeepUsing <- MCKeepUsing
SPECIFICATION Spec
CHECK_DEADLOCK FALSE
INVARIANTS
  Backed
  RoomForNul
  InBounds
PROPERTIES
  KeepsTerminator
  RefinesJString
