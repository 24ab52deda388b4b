SPECIFICATION Spec
CONSTANTS
  p1 = p1
  p2 = p2
  n1 = n1
  n2 = n2
  None = None
  Procs = {p1, p2}
  IdOf <- SharedId
  Skew <- NoSkew
  TTL = 2
  Guard = 1
  NodeTTL = 4
  PruneAfter = 4
  Faults = FALSE
  MaxPass = 2
  MaxClock = 8
CHECK_DEADLOCK FALSE
INVARIANTS OneLeader
PROPERTIES Disqualified
