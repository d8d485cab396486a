CONSTANTS
  Capacity = 3
  MAX_RW_SIZE = 2
  Lens <- MCLens
  MaxBytes = 10
SPECIFICATION NetFairSpec
INVARIANTS
  Counted
  OkIsWhole
PROPERTIES
  ReadReturns
