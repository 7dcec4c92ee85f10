SPECIFICATION Spec
CONSTANTS
  Artifacts = {exe, dll}
  Items = {run, link}
  Kind <- MCKind
  Target <- MCTarget
  None = None
  MaxEdits = 2
  MaxFaults = 1
  MaxDeaths = 1
  exe = exe
  dll = dll
  run = run
  link = link
INVARIANTS RemovalIsTold
PROPERTIES EntriesFollowFiles RetryRestores
CHECK_DEADLOCK FALSE
