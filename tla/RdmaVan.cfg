SPECIFICATION Spec
CONSTANTS
  Workers = {9}
  Server = 8
  MaxRounds = 2
  MaxUnderWay = 2
  MaxSimple = 1
  MaxRejects = 1
  kStartDepth = 1
  kReplyDepth = 1
  kRxDepth = 2
  pagesize = 4
  MetaLen = 5
  SimpleMetaLen = 3
  KeyLen = 1
  ValLen = 6
  LenLen = 1
  kMaxEntries = 2
INVARIANTS
  DeliveredIntact
  PulledIsPushed
  OnlyTheseChecksFail
PROPERTY EveryRequestAnswered
CHECK_DEADLOCK FALSE
