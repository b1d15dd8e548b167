CONSTANTS
  Procs = {p1, p2, p3}
  Denied = {}
  MaxTakes = 3
  MaxCrashes = 1
SPECIFICATION Spec
INVARIANTS MutualExclusion
CHECK_DEADLOCK FALSE
