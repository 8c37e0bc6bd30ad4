SPECIFICATION Spec
CONSTANTS
  Workers = {9}
  ServerIds <- TwoServers
  Nodes = {8, 9, 10}
  Messages = {}
  Apps = {0, 1}
  KvAppId = 0
  SimpleAppId = 1
  None = None
  MaxKey = 4
  Late <- OneAppEach
  KeyLists <- OneOrBoth
  MaxRequests = 2
INVARIANTS
  PushedExactlyOnce
  CallbackBeforeWait
  PullComplete
PROPERTY EveryRequestCompletes
CHECK_DEADLOCK FALSE
