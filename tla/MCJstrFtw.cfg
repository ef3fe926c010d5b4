CONSTANTS
  d = d
  f = f
  s = s
  l = l
  h = h
  Slash = Slash
  Names <- MCNames
  Kind <- MCKind
  Entries <- MCEntries
  Hidden <- MCHidden
  Size <- MCSize
  DirPaths <- MCDirPaths
  PathMax = 8
  MaxLevels = 5
SPECIFICATION Spec
CHECK_DEADLOCK FALSE
INVARIANTS
  OwnPath
  Closes
  Reports
  VisitsAll
PROPERTIES
  StopsAtOnce
  Returns
