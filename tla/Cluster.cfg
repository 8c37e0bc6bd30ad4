SPECIFICATION Spec
CONSTANTS
  Scheduler = Scheduler
  Server = Server
  Worker = Worker
  Procs <- FourProcs
  Role <- FourRoles
  Customers <- SharedWorker
  Root = "h"
  Spare = {"r"}
  None = None
  MaxCrashes = 1
  MaxTraffic = 1
INVARIANTS
  OnlyClosedSocketsFail
  IdsAgree
  BarrierHolds
PROPERTIES
  EveryoneStarts
  ReplacementIsReached
CHECK_DEADLOCK FALSE
