SPECIFICATION Spec
CONSTANTS
  t1 = t1
  t2 = t2
  t3 = t3
  p1 = p1
  p2 = p2
  pid1 = pid1
  pid2 = pid2
  small = small
  large = large
  None = None
  Address = {a1}
  Blob = {small, large}
  Thread = {t1, t2}
  Process = {p1, p2}
  Pid = {pid1, pid2}
  Ino = {i1, i2, i3}
  MaxSeq = 1
  MaxFaults = 2
  Size <- MCSize
  ProcessOf <- OneEach
  PidOf <- DistinctPids
INVARIANTS IInv EntriesIntact
PROPERTY LagerBlobStore
SYMMETRY CrashSymmetry
