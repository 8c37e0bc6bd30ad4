SPECIFICATION FairSpec
CONSTANTS
  Segment = 8
  MsgIds = {1, 2}
  Size <- ShortSize
  Kept <- ShortKept
  Capacity = 1
  MaxPosts = 1
PROPERTY EventuallyCompletes
