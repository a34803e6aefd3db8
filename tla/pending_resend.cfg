SPECIFICATION Spec
CONSTANTS
  Ids = {i1}
  Clients = {c1}
  Workers = {w1, w2}
  NoOne = NoOne
  Agents = {"codex"}
  Ops = {"send"}
  Faults = {}
  Resend = TRUE
  MaxDelivered = 4
  MaxCommands = 3
  MaxFaults = 0
  MaxWakes = 2
SYMMETRY Symmetry
INVARIANTS
  HandedOnce
CHECK_DEADLOCK FALSE
