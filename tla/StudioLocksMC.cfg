SPECIFICATION Spec
CONSTANTS
  studio = studio
  ingest = ingest
  rundown = rundown
  playlist = playlist
  playlist2 = playlist2
  Threads = {studio, ingest}
  Resources = {playlist}
  Ids = {1, 2}
  Inner = {}
  MaxLocks = 1
  MayTimeout = TRUE
  MayCrash = {studio, ingest}
  MayTerminate = TRUE
  MayAbandon = TRUE
SYMMETRY ThreadSymmetry
INVARIANTS
  TypeOK
  MutualExclusion
  NoForgottenWaiter
  NothingLeftBetweenJobs
  InTableOnce
PROPERTY
  NoOvertaking
  ImplementsLockService
CHECK_DEADLOCK FALSE
