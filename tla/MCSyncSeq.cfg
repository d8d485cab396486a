CONSTANTS
  Node <- MCNode
  Dir <- MCDir
  Parent <- MCParent
  Depth <- MCDepth
  Size <- MCSize
  Root = "r"
  MaxRows = 3
  NThreads = 3
  SeqMod = 100
  TooLong = {}
  NULL = NULL
SPECIFICATION Spec
INVARIANTS
  ParentSeqFirst
