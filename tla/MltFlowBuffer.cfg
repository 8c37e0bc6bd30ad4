SPECIFICATION Spec
CONSTANTS
  Segment = 8
  MsgIds = {1}
  Size <- LongSize
  Kept <- LongKept
  Capacity = 2
  MaxPosts = 1
INVARIANT BufferReleased
