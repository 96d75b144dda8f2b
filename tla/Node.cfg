\* Calls, pools, pointers and managers of one node.
SPECIFICATION Spec
CONSTANTS
  c1 = c1
  c2 = c2
  c3 = c3
  nobody = nobody
  Calls = {c1, c2, c3}
  Users = {c1, c2, c3}
  Nobody = nobody
  MaxPointer = 3
  Contracts = {"a", "b"}
  MaxManagers = 3
  MaxAdded = 3
  MaxPools = 3
  Types <- MCTypes
  FirstManagers <- MCFirst
  Provided <- MCTypes
  Supports <- MCSupports
  Loads <- MCLoads
INVARIANTS
  TypeOK
  CacheIsRunningCalls
  OpenPoolsAreRegistered
  ClosedOnce
  AliveHaveBeenStarted
CHECK_DEADLOCK FALSE
