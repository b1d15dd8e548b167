CONSTANTS
  Cmds = {c1, c2}
  Ports = {8765}
  Pids = {p1, p2}
  MaxServers = 2
  Nothing = Nothing
  Writers = {w1, w2, w3}
  MaxBytes = 2
  MaxFiles = 3
  Tools = {t1, t2}
  Versions = {v1, v2}
  Foreign = Foreign
  NoFile = NoFile
  Releases = {1, 2, 3}
  Zero = {1}
  Pre = {2}
  NoApp = NoApp
SPECIFICATION MCSpec
INVARIANTS StopsItsOwn ServersAreRecorded BinaryIsOwn AllOrNothing
PROPERTIES HistoryIsKept
SYMMETRY MCSymmetry
CHECK_DEADLOCK FALSE
