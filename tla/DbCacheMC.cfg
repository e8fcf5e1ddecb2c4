SPECIFICATION Spec
CONSTANTS
  Collections = {timelines, parts}
  HighPrio = {timelines}
  DraftOf = parts
  Draft = draft
  Ids = {a, b}
  Values = {v, w}
  Absent = absent
  Removed = removed
  MayReinsert = FALSE
  MaxHooks = 1
  MaxOps = 3
  MaxFaults = 1
SYMMETRY DocumentSymmetry
INVARIANTS
  TypeOK
  SavedIsStored
  UndoneIsUnchanged
  OldOrNew
PROPERTIES
  TimelineFirst
  DraftIsApplied
CHECK_DEADLOCK FALSE
