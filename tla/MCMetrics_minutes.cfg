SPECIFICATION Spec
CONSTANTS
  None = None
  Client = {k1, k2, k3}
  Timed = {get}
  Duration = {1, 2}
  EvictedLists <- MCEvictedLists
  BucketSeconds = 2
  MaxBuckets = 3
  MaxClients = 2
  LatencySamples = 2
  AgeBounds <- MCAgeBounds
  MaxLag = 1
  MaxClock = 4
  MaxEvents = 4
  MaxEvictions = 2
INVARIANT OneBucketPerMinute
SYMMETRY ClientSymmetry
