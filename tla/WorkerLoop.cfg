SPECIFICATION Spec
CONSTANTS
  Jobs = {take, cleanup, clear}
  Unwatched = {cleanup}
  ForceClear = {clear}
  NoJob = none
  Faults = {"child dies", "worker dies", "start fails", "init fails"}
  MaxFaults = 2
  MaxChanges = 2
  EarlyChanges = FALSE
  MayTerminate = FALSE
INVARIANTS
  TypeOK
  NoInvalidationLost
  RunningJobIsWatched
  NoCallerForgotten
  ReadyIsInitialised
CHECK_DEADLOCK FALSE
