SPECIFICATION FairSpec
CONSTANTS
  p1 = p1
  p2 = p2
  n1 = n1
  n2 = n2
  None = None
  Procs = {p1, p2}
  IdOf <- OwnIds
  Skew <- OneFast
  TTL = 2
  Guard = 1
  NodeTTL = 3
  PruneAfter = 4
  Faults = TRUE
  MaxPass = 1
  MaxClock = 2
CHECK_DEADLOCK FALSE
INVARIANTS OneLeader
PROPERTIES FencedWritesOrdered CloseEnds
