SPECIFICATION FairSpec
CONSTANTS
  studio = studio
  ingest = ingest
  rundown = rundown
  playlist = playlist
  playlist2 = playlist2
  Threads = {studio, ingest}
  Resources = {rundown, playlist, playlist2}
  Ids = {1}
  Inner <- NestedLocks
  MaxLocks = 2
  MayTimeout = FALSE
  MayCrash = {studio}
  MayTerminate = FALSE
  MayAbandon = FALSE
PROPERTY
  EveryRequestGranted
CHECK_DEADLOCK FALSE
