SPECIFICATION Spec
CONSTANTS
  None = None
  c1 = c1
  c2 = c2
  m1 = m1
  m2 = m2
  Version = {v1}
  Client = {c1, c2}
  Machine = {m1}
  MachineOf <- Together
  Remote = {c1, c2}
  EditsWhileBusy = FALSE
  Detached = {}
  MaxKills = 0
  MaxDamage = 1
  MaxIoErrors = 0
  MaxFaults = 1
INVARIANT FailOpen
