\* One transaction at a time, of all profiles.
SPECIFICATION Spec
CONSTANTS
  none = none
  d1 = d1
  Data <- MCData
  None = none
  Keys <- MCKeys
  MaxDepth = 2
  MaxPuts = 2
  MaxIters = 2
  MaxSql = 2
  Word = 32
  GasLimit = 4
  InvokeLimit = 12
  CallContractGasOnce = 1
  Transactions <- MCTransactions
  Later <- MCLater
  BurnTo <- MCBurnTo
INVARIANTS
  TypeOK
  CopiesWhatWasMeasured
  FailureIsSticky
  OverspentIsFinal
  ContextFollowsCalls
  IterationIsMerged
  ReleasedOnce
  SchedulerIsTold
  EventsOfFailedCallsDropped
  LeafCallsUndoTheirSql
  StatementsAreReported
PROPERTIES
  WritesArePaid
  CallsAreMetered
  OnlyOwnStatementsUndone
CHECK_DEADLOCK FALSE
