SPECIFICATION Spec
CONSTANTS
  None = None
  c1 = c1
  c2 = c2
  m1 = m1
  m2 = m2
  Version = {v1, v2}
  Client = {c1, c2}
  Machine = {m1, m2}
  MachineOf <- OneEach
  Remote = {c1, c2}
  EditsWhileBusy = FALSE
  Detached = {}
  MaxKills = 0
  MaxDamage = 1
  MaxIoErrors = 0
  MaxFaults = 1
INVARIANTS TypeOK EntriesMatchKeys FailOpen CorruptDiscarded
PROPERTY OutputsMatchKey
SYMMETRY VersionSymmetry
