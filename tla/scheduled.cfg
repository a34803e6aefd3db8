SPECIFICATION FairSpec
CONSTANTS
  Inputs = {i1, i2}
  Clients = {c1}
  Callbacks = {k1, k2}
  Sweep = sweep
  None = none
  Ops = {"schedule", "update", "now", "remove", "archive"}
  Faults = {"session", "send", "mark", "wake", "crash"}
  MaxTime = 2
  MaxCommands = 2
  MaxFaults = 1
INVARIANTS TypeOK SentOnce ParentFirst NoneForgotten
PROPERTIES EventuallyDecided OnTime
CHECK_DEADLOCK FALSE
