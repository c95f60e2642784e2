SPECIFICATION Spec
CONSTANTS
  shop = shop
  lab = lab
  first = first
  second = second
  third = third
  draft = draft
  ship = ship
  urgent = urgent
  probe = probe
  worker1 = worker1
  worker2 = worker2
  worker3 = worker3
  desk = desk
  site = site
  NoStep = NoStep
  NoWorker = NoWorker
  NoRun = NoRun
  Workspaces <- MCWorkspaces
  Runs <- MCRuns
  Steps <- MCSteps
  Workers <- MCWorkers
  Targets <- MCTargets
  Of <- MCOf
  RunOf <- MCRunOf
  DependsOn <- MCDependsOn
  LocalSteps <- MCLocal
  RemoteSteps = {}
  Rank <- MCRank
  Own <- MCOwn
  TargetOf <- MCTargetOf
  GlobalMax <- MCGlobalMax
  WorkspaceMax <- MCWorkspaceMax
  Interval = 1
  MaxBoost = 1
  MaxTries = 2
  MaxTime = 1
  MaxMishaps = 1
INVARIANTS
  BudgetsHold
  AdmissionIsNeverBlocked
PROPERTIES
  AgedNotOvertaken
CHECK_DEADLOCK FALSE
