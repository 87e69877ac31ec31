SPECIFICATION Spec
CONSTANTS
  t1 = t1
  t2 = t2
  t3 = t3
  p1 = p1
  p2 = p2
  pid1 = pid1
  pid2 = pid2
  small = small
  large = large
  None = None
  Address = {a1}
  Blob = {small, large}
  Thread = {t1, t2, t3}
  Process = {p1, p2}
  Pid = {pid1, pid2}
  Ino = {i1, i2, i3}
  MaxSeq = 2
  MaxFaults = 0
  Size <- MCSize
  ProcessOf <- ThreadsShareProcess
  PidOf <- DistinctPids
INVARIANTS ReadsIntact WritersAlone NoTempLeak
PROPERTY LagerBlobStore
SYMMETRY RaceSymmetry
