CONSTANTS
  Reader = {r1}
  Wrap = 8
  Size = 3
  Mapped <- MCMapped
  Orders = {"tso", "weak"}
  MaxPush = 18
SPECIFICATION ShmSpec
INVARIANTS
  PopRight
  NothingNew
