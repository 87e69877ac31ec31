SPECIFICATION LiveSpec
CONSTANTS
  None = None
  Address = {a1, a2}
  Temp = {n1}
  User = {u1}
  Evictor = {e1}
  Sizes = {1}
  MaxSize = 1
  Target = 0
  StaleAge = 2
  MaxStall = 1
  MaxLag = 1
  MaxClock = 3
  MaxFaults = 1
INVARIANT PromptStoresSucceed
PROPERTIES PassEnds EventuallyLimited StaleTempsGo
