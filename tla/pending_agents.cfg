SPECIFICATION Spec
CONSTANTS
  Ids = {i1, i2}
  Clients = {c1, c2}
  Workers = {w1, w2}
  NoOne = NoOne
  Agents = {"cli", "pi"}
  Ops = {"send", "direct", "abort", "other", "archive", "clear"}
  Faults = {"dispatch", "run", "session", "stop", "reject"}
  Resend = FALSE
  MaxDelivered = 4
  MaxCommands = 4
  MaxFaults = 1
  MaxWakes = 2
SYMMETRY Symmetry
INVARIANTS
  NoRunReplaced
  NoStranded
CHECK_DEADLOCK FALSE
