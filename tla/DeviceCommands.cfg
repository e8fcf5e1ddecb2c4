SPECIFICATION FairSpec
CONSTANTS
  Commands = {c1}
  Timeout = 2
  SweepAge = 3
  Faults = {"insert fails", "read fails", "read early", "remove fails", "watch fails",
            "caller dies", "disconnect", "gateway restarts"}
  MaxFaults = 3
INVARIANTS
  TypeOK
  NoCallerStranded
  AtMostOnce
PROPERTIES
  EveryCallerAnswered
  StoredReplyIsHeard
  NoLeftoverCommand
CHECK_DEADLOCK FALSE
