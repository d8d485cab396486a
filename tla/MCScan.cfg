CONSTANTS
  Node <- ScanNode
  Dir <- ScanDirs
  Parent <- ScanParent
  Depth <- ScanDepth
  Size <- ScanSize
  Ignored <- ScanIgnored
  In <- ScanIn
  Rank <- ScanRank
  Root = "r"
  MaxRows = 3
  NULL = NULL
SPECIFICATION ScanSpec
INVARIANTS
  ScanTypeOK
  ReadyIsFinal
  StackSound
  HandsOver
PROPERTIES
  ScanEnds
