SPECIFICATION FairSpec
CONSTANTS
  Convs = {c1}
  Ephemeral = {}
  Callers = {u1, u2}
  MaxRuns = 2
  MaxStarts = 1
  NoConv = NoConv
INVARIANTS RunsTakeTurns
PROPERTY ShutdownReturns
CHECK_DEADLOCK FALSE
