\* Two clients answer; the prompt, a steered input and an answer may be longer
\* than the pipe.
CONSTANTS
  c1 = c1
  c2 = c2
  MaxRuns = 1
  Clients = {c1, c2}
  Cap = 1
  OutCap = 1
  MaxTries = 2
  MaxSaid = 2
  MaxSteers = 1
  Big = {"turn", "steer", "answer"}
SPECIFICATION Spec
INVARIANTS
  TypeOK
  OneOutcome
  AnsweredOnce
PROPERTIES
  SteerBarrier
  Settles
CHECK_DEADLOCK FALSE
