SPECIFICATION FairSpec
CONSTANTS
  Jobs = {take, clear}
  Unwatched = {}
  ForceClear = {clear}
  NoJob = none
  Faults = {"kill fails"}
  MaxFaults = 1
  MaxChanges = 0
  EarlyChanges = FALSE
  MayTerminate = FALSE
PROPERTY
  EveryJobSettles
CHECK_DEADLOCK FALSE
