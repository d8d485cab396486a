SPECIFICATION Spec
CONSTANTS
  Path = {a, b, c}
  Inode = {i, j}
  MaxOps = 3
SYMMETRY Symmetry
INVARIANTS TellsTruth TellsAll
CHECK_DEADLOCK FALSE
