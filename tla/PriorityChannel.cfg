SPECIFICATION Spec
CONSTANTS
  Setups <- TheSetups
  Segment = 2
  Header = 1
  NumPrio = 8
  NumQueues = 8
  Interval = 2
INVARIANTS
  FiledRight
  PacedToRate
  RateFollowsReceiver
PROPERTY EveryMessageIsSent
CHECK_DEADLOCK FALSE
