SPECIFICATION Spec
CONSTANTS
  p1 = p1
  p2 = p2
  start1 = start1
  start2 = start2
  start3 = start3
  task1 = task1
  NoProcess = NoProcess
  NoStart = NoStart
  Processes = {p1, p2}
  Starts = {start1, start2, start3}
  By <- MCBy
  Tasks = {task1}
  MaxEffects = 1
  MaxSubmits = 1
  MaxCrashes = 1
INVARIANTS
  ProfileIsNotLockedOut
  SubmittedIsNeverReady
PROPERTIES
  LateCloseSparesTheNext
SYMMETRY StartSymmetry
CHECK_DEADLOCK FALSE
