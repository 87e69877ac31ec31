SPECIFICATION Spec
CONSTANTS
  None = None
  Address = {a1, a2}
  Temp = {n1}
  User = {u1, u2}
  Evictor = {e1, e2}
  Sizes = {1, 2}
  MaxSize = 2
  Target = 1
  StaleAge = 1
  MaxStall = 1
  MaxLag = 1
  MaxClock = 2
  MaxFaults = 1
INVARIANTS TypeOK LeastRecentFirst CountersAgree NoOverEviction
SYMMETRY PassSymmetry
