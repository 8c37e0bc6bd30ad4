SPECIFICATION Spec
CONSTANTS
  Setups <- Sessions
  MetaQueueSize = 1
  LengthUnits = 2
  PayloadUnits = 2
  MaxGap = 1
  MaxSends = 3
INVARIANTS
  OnlySplitLengthsFail
  MetaInOrder
  BarrierHolds
PROPERTY EverybodyRuns
CHECK_DEADLOCK FALSE
