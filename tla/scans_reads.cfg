SPECIFICATION Spec
CONSTANTS
  a = a
  b = b
  status = status
  stats = stats
  other = other
  NoKey = NoKey
  Roots = {a}
  Keys = {status}
  RootOf <- Single
  Callers = {c1, c2}
  Mutators = {m1}
  Slots = 2
  MaxVersion = 2
  MaxGeneration = 2
SYMMETRY Symmetry
INVARIANTS
  ReadsAnnounced
  OneScanPerRoot
PROPERTIES
  CacheAdvances
  Implements
CHECK_DEADLOCK FALSE
