SPECIFICATION FairSpec
CONSTANTS
  a = a
  b = b
  status = status
  stats = stats
  other = other
  NoKey = NoKey
  Roots = {a, b}
  Keys = {status, stats, other}
  RootOf <- Both
  Callers = {c1, c2}
  Mutators = {m1}
  Slots = 1
  MaxVersion = 0
  MaxGeneration = 0
INVARIANTS
  TypeOK
PROPERTIES
  EveryCallAnswered
CHECK_DEADLOCK FALSE
