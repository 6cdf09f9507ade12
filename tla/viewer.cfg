SPECIFICATION Spec
CONSTANTS
  w1 = w1
  w2 = w2
  p1 = p1
  p2 = p2
  d1 = d1
  d2 = d2
  Start <- MCStart
  Writes <- MCWrites
  Name = {w1, w2, w3}
  Stored = {w1, w2}
  Path = {p1, p2}
  Data = {d1, d2}
  None = None
  MaxActs = 5
INVARIANTS
  ShowsNow
PROPERTIES
  OperationEnds
CHECK_DEADLOCK FALSE
