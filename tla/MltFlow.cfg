SPECIFICATION Spec
CONSTANTS
  Segment = 8
  MsgIds = {1, 2}
  Size <- PairSize
  Kept <- PairKept
  Capacity = 2
  MaxPosts = 1
INVARIANTS
  TypeOK
  NoCheckFails
  OneRoundAtATime
  NeverStranded
  EndsClean
  ReceivedBytesExact
PROPERTY ImplementsTransfer
