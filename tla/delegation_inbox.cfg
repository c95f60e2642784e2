SPECIFICATION Spec
CONSTANTS
  s1 = s1
  Steps = {}
  NoStep = NoStep
  NotAsked = NotAsked
  MaxRequests = 2
  MaxPending = 2
  MaxNotStarted = 1
  MaxReceipts = 1
  MaxCrashes = 1
INVARIANTS
  InboundIsPrefix
  RemoteWorkIsAuthorized
  EffectsAreReviewed
  CapsHold
CHECK_DEADLOCK FALSE
