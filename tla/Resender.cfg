SPECIFICATION Spec
CONSTANTS
  Nodes = {8, 9}
  Apps = {0, 1}
  Messages <- TwoApps
  Threads = {1, 2}
  Monitor = 2
  None = None
  MaxDrops = 1
  MaxEarly = 1
INVARIANTS
  TypeOK
  SenderRemembers
  RetriesCountLosses
PROPERTIES
  ImplementsDelivery
  EveryMessageArrives
CHECK_DEADLOCK FALSE
