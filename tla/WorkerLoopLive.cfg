SPECIFICATION FairSpec
CONSTANTS
  Jobs = {take, clear}
  Unwatched = {}
  ForceClear = {clear}
  NoJob = none
  Faults = {"child dies", "worker dies", "init fails", "invalidate fails"}
  MaxFaults = 1
  MaxChanges = 0
  EarlyChanges = FALSE
  MayTerminate = TRUE
PROPERTY
  EveryJobSettles
  ImplementsJobService
CHECK_DEADLOCK FALSE
