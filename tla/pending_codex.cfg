SPECIFICATION Spec
CONSTANTS
  Ids = {i1, i2, i3}
  Clients = {c1}
  Workers = {w1, w2}
  NoOne = NoOne
  Agents = {"codex"}
  Ops = {"send", "direct", "update", "remove"}
  Faults = {"steer", "reject", "persist", "dispatch", "run"}
  Resend = FALSE
  MaxDelivered = 1
  MaxCommands = 4
  MaxFaults = 1
  MaxWakes = 2
SYMMETRY Symmetry
INVARIANTS
  TypeOK
  OneProcessor
  NothingLost
  HandedOnce
  QueueOrder
  NoStranded
  ClientsConverge
PROPERTIES
  ReceiptKept
CHECK_DEADLOCK FALSE
