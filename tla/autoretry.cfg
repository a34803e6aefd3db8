SPECIFICATION FairSpec
CONSTANTS
  Clients = {c1, c2}
  Timers = {t1, t2}
  Runner = runner
  None = none
  Ops = {"send", "set", "abort", "archive"}
  Faults = {"run", "db", "crash"}
  MaxAttempts = 1
  MaxCommands = 2
  MaxFaults = 1
INVARIANTS RetryAttended
PROPERTIES EventuallyDecided
CHECK_DEADLOCK FALSE
