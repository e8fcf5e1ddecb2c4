SPECIFICATION Spec
CONSTANTS
  a1 = a1
  a2 = a2
  b1 = b1
  c1 = c1
  p1 = p1
  p2 = p2
  Playlists = {p1}
  StudioOf <- OneStudio
  PartOrder <- ThreeParts
  SegmentOf <- TwoSegments
  Unplayable = {}
  AutoNext = {a2}
  HoldFrom = {a1}
  HoldTo = {a2}
  Removable = {a2}
  RemovableSegments = {"B"}
  Loops = {FALSE}
  ResetOnAir = FALSE
  MaxCopies = 2
  Repeated = {a1, a2, b1}
  MaxReports = 1
  NoPart = noPart
  None = none
PROPERTY NextIsPresent
