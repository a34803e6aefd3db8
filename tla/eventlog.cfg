SPECIFICATION FairSpec
CONSTANTS
  Emitters = {e1}
  Flusher = flusher
  Retrier = retrier
  Keeper = keeper
  None = None
  Messages = {m1, m2}
  Ops = {"delete", "cleanup", "sync", "run"}
  Faults = {"write", "db", "remove", "crash"}
  Cap = 2
  MaxEmits = 3
  MaxCommands = 1
  MaxFaults = 2
INVARIANTS TypeOK LogComplete ProjectedInOrder
PROPERTIES NewsKept DeletedStaysQuiet EventuallyKept
CHECK_DEADLOCK FALSE
