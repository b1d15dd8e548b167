SPECIFICATION Spec
CONSTANTS
  p1 = p1
  p2 = p2
  s1 = s1
  s2 = s2
  r1 = r1
  w1 = w1
  Starts = {s1, s2}
  Reads = {r1}
  Writes = {w1}
  Owner <- OwnerOf
  MaxPairs = 3
  MaxLost = 1
INVARIANTS SpentOnce StaysSignedIn
PROPERTY RepeatedWhenRefused
CHECK_DEADLOCK FALSE
