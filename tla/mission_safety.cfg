SPECIFICATION Spec
CONSTANTS
  draft = draft
  notes = notes
  publish = publish
  worker1 = worker1
  worker2 = worker2
  target = target
  Steps <- MCSteps
  LocalSteps <- MCLocal
  DependsOn <- MCDependsOn
  Terminal <- MCTerminal
  Resources <- MCResources
  Needs <- MCNeeds
  MaxAttempts <- MCAttempts
  MaxCrashes = 2
INVARIANTS
  RetryFollowsContainment
  CompletionIsBacked
  EffectsFollowPlan
PROPERTIES
  KernelPromiseKept
CHECK_DEADLOCK FALSE
