SPECIFICATION SyncSpec
CONSTANTS
  writer = writer
  reader = reader
  push1 = push1
  push2 = push2
  pull1 = pull1
  pull2 = pull2
  Nothing = Nothing
  Instances = {writer, reader}
  Records = {1, 2}
  Payloads = {"old", "new"}
  Pushes = {push1, push2}
  Pulls = {pull1}
  By <- MCBy
  MaxBatch = 3
  MaxChanges <- MCMaxChanges
  MaxCrashes = 1
INVARIANTS
  AcknowledgedIsMirrored
  SettledIsShown
  CopyIsOneMoment
CHECK_DEADLOCK FALSE
