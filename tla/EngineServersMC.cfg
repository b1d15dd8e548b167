SPECIFICATION FairSpec
CONSTANTS
  Callers = {c1, c2}
  Servers = {s1, s2}
  Keys = {k1}
  MaxOpens = 2
  MaxEdits = 1
  NoServer = NoServer
  Nobody = Nobody
  Closer = Closer
  Other = Other
INVARIANTS NeverClosedInUse NoSessionOutlives
PROPERTIES CloseReturns ImplementsLifecycleFairly
CHECK_DEADLOCK FALSE
