CONSTANTS
  Convs = {c1, c2}
  MaxRuns = 2
  Callers = {u1}
  Ephemeral = {c2}
  MaxStarts = 2
  NoConv = NoConv
  MaxChecks = 2
  Names = {a, b}
  Urls = {x, y}
  v2 = v2
  Users = {v1, v2}
  None = None
SPECIFICATION MCSpec
INVARIANTS StoreOpenWhenUsed KeyIsOfItsAddress TurnsObeyRules
PROPERTIES RenameKeepsUnmoved
SYMMETRY MCSymmetry
CHECK_DEADLOCK FALSE
