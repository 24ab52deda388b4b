SPECIFICATION Spec
CONSTANTS
  n1 = n1
  n2 = n2
  c1 = c1
  c2 = c2
  None = None
  Nodes = {n1, n2}
  Callers = {c1}
  Limit = 3
  Block = 2
  TTL = 2
  Renew = 1
  Amounts = {2}
  Overrun = 0
  PeriodOver = 99
  Gens = {1}
  Drained = TRUE
  Restarts = FALSE
  Faults = FALSE
  MaxStall = 1
  MaxDeaths = 1
  MaxSpent = 99
  MaxClock = 3
SYMMETRY Interchangeable
CHECK_DEADLOCK FALSE
INVARIANTS NeverOverGrants
 
