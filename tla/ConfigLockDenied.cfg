CONSTANTS
  Procs = {p1, p2}
  Denied = {p2}
  MaxTakes = 2
  MaxCrashes = 1
SPECIFICATION FairSpec
PROPERTIES WaitIsBounded
CHECK_DEADLOCK FALSE
