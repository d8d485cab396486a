CONSTANTS
  Node <- MCNode
  Dir <- MCDir
  Parent <- MCParent
  Depth <- MCDepth
  Size <- MCSize
  Root = "r"
  MaxRows = 3
  NThreads = 3
  SeqMod = 1
  TooLong = {}
  NULL = NULL
SPECIFICATION FairSpec
INVARIANTS
  TypeOK
  PendingExact
  BubbleSound
  NoDangling
  BarFits
  FrameFits
  SuccessComplete
PROPERTIES
  Returns
  DeliverySpec
