SPECIFICATION FairSpec
CONSTANTS
  Ids = {i1, i2}
  Clients = {c1}
  Workers = {w1, w2}
  NoOne = NoOne
  Agents = {"codex"}
  Ops = {"send", "direct", "reorder", "retry"}
  Faults = {"steer", "reject", "run", "persist"}
  Resend = FALSE
  MaxDelivered = 4
  MaxCommands = 3
  MaxFaults = 1
  MaxWakes = 2
PROPERTIES
  EventuallyHanded
CHECK_DEADLOCK FALSE
