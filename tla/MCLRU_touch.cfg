SPECIFICATION Spec
CONSTANTS
  None = None
  Address = {a1, a2, a3}
  Temp = {n1}
  User = {u1}
  Evictor = {e1}
  Sizes = {1}
  MaxSize = 2
  Target = 1
  StaleAge = 1
  MaxStall = 1
  MaxLag = 0
  MaxClock = 2
  MaxFaults = 0
INVARIANT TouchedSurvive
SYMMETRY AddressSymmetry
