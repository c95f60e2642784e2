SPECIFICATION Spec
CONSTANTS
  s1 = s1
  Steps <- MCSteps
  NoStep = NoStep
  NotAsked = NotAsked
  MaxRequests = 1
  MaxPending = 2
  MaxNotStarted = 1
  MaxReceipts = 3
  MaxCrashes = 2
INVARIANTS
  DelegatedStepStaysRemote
  ConsumedOnce
PROPERTIES
  PromiseKept
CHECK_DEADLOCK FALSE
