CONSTANTS
  r1 = r1
  r2 = r2
  p1 = p1
  p2 = p2
  f1 = f1
  Rundowns = {r1, r2}
  Playlists = {p1, p2}
  Fresh = {f1}
  Tmp = Tmp
  None = None
  DefaultOrder <- TwoInOrder
  MaxJobs = 3
  MaxFaults = 1
SPECIFICATION Spec
INVARIANTS TypeOK Housed LiveRundownStays SyncedHasData NoCircularWait
PROPERTY UserOrderStays
CHECK_DEADLOCK FALSE
SYMMETRY SymmetricPlaylists
