SPECIFICATION FairSpec
CONSTANTS
  None = None
  Evictor = Evictor
  Earlier = Earlier
  Address = {a1}
  Request = {p1, p2, g1}
  Puts = {p1, p2}
  p1 = p1
  p2 = p2
  g1 = g1
  Limit = 1
  MaxLen = 2
  Pool = 2
  MaxPasses = 1
  MaxFaults = 1
INVARIANTS IInv LimitExact CountersFollow EvictionsCovered
PROPERTIES AnswersCurrent RequestsAnswered
CHECK_DEADLOCK FALSE
