SPECIFICATION Spec
CONSTANTS
  Inputs = {i1, i2}
  Clients = {c1}
  Callbacks = {k1, k2}
  Sweep = sweep
  None = none
  Ops = {"schedule", "update"}
  Faults = {}
  MaxTime = 2
  MaxCommands = 2
  MaxFaults = 0
CHECK_DEADLOCK FALSE
INVARIANTS TimersKept
