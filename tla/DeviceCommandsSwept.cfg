SPECIFICATION FairSpec
CONSTANTS
  Commands = {c1}
  Timeout = 3
  SweepAge = 1
  Faults = {}
  MaxFaults = 0
INVARIANT
  NoCallerStranded
CHECK_DEADLOCK FALSE
