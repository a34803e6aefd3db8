SPECIFICATION FairSpec
CONSTANTS
  Items = {i1, i2}
  PageSize = 1
  MaxAttempts = 2
  Faults = {"fail", "drop", "touch", "session", "reconcile", "goal", "leave", "age"}
  MaxEvents = 3
  MaxEpoch = 2
  MaxRevision = 3
  MaxWire = 1
  MaxFaults = 1
INVARIANTS
  TypeOK
  NoGhosts
PROPERTIES
  OnlyFramesSkip
  HydrationSettles
CHECK_DEADLOCK FALSE
