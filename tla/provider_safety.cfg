SPECIFICATION Spec
CONSTANTS
  first = first
  rival = rival
  retry = retry
  again = again
  retry2 = retry2
  other = other
  p1 = p1
  p2 = p2
  c1 = c1
  c2 = c2
  c3 = c3
  None = None
  Attempts <- MCAttempts
  Request <- MCRequest
  Prior <- MCPrior
  Granted <- MCGranted
  Processes <- MCProcesses
  Calls = {c1, c3}
  Home <- MCTwoHome
  MaxUses = 1
  MaxCrashes = 1
INVARIANTS
  EffectOncePerClaim
  OneEffectInFlight
  RetryFollowsUncertainty
PROPERTIES
  ClaimsAreFinal
