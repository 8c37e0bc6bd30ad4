SPECIFICATION Spec
CONSTANTS
  Segment = 8
  MsgIds = {1}
  Size <- PairSize
  Kept <- PairKept
  Capacity = 2
  MaxPosts = 2
INVARIANT NoCheckFails
CHECK_DEADLOCK FALSE
