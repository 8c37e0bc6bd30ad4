SPECIFICATION Spec
CONSTANTS
  Setups <- Hello
  MetaQueueSize = 1
  LengthUnits = 1
  PayloadUnits = 2
  MaxGap = 1
  MaxSends = 3
PROPERTY GreetingsArrive
CHECK_DEADLOCK FALSE
