SPECIFICATION FairSpec
CONSTANTS
  None = None
  c1 = c1
  c2 = c2
  m1 = m1
  m2 = m2
  Version = {v1}
  Client = {c1, c2}
  Machine = {m1}
  MachineOf <- Together
  Remote = {c1}
  EditsWhileBusy = FALSE
  Detached = {c2}
  MaxKills = 1
  MaxDamage = 1
  MaxIoErrors = 1
  MaxFaults = 2
INVARIANTS EntriesMatchKeys
PROPERTIES OutputsMatchKey RunsEnd
