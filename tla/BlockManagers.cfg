SPECIFICATION BSpec
CONSTANTS
  MaxSize = 7
  type_size = 3
INVARIANTS
  Canonical
  CheckIsExact
  CursorInBlock
  BitmapAgrees
PROPERTIES
  RefinesBlockMgr
  WalkIsExact
CHECK_DEADLOCK FALSE
