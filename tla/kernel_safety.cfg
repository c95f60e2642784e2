SPECIFICATION FairSpec
CONSTANTS
  t1 = t1
  t2 = t2
  t3 = t3
  worker1 = worker1
  worker2 = worker2
  target1 = target1
  target2 = target2
  NoTask = NoTask
  Tasks <- MCTasks
  Resources <- MCResources
  Needs <- MCNeeds
  MaxCrashes = 2
INVARIANTS
  ExecutionOwnsResources
  UncertainRunBlocksOthers
PROPERTIES
  NeverReplayed
  ActiveRunSettles
  PromiseKept
CHECK_DEADLOCK FALSE
