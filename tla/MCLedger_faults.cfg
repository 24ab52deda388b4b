SPECIFICATION Spec
CONSTANTS
  n1 = n1
  n2 = n2
  c1 = c1
  c2 = c2
  None = None
  Nodes = {n1}
  Callers = {c1, c2}
  Limit = 2
  Block = 2
  TTL = 1
  Renew = 0
  Amounts = {2}
  Overrun = 0
  PeriodOver = 2
  Gens = {1, 2}
  Drained = FALSE
  Restarts = TRUE
  Faults = TRUE
  MaxStall = 0
  MaxDeaths = 1
  MaxSpent = 2
  MaxClock = 2
SYMMETRY Interchangeable
CHECK_DEADLOCK FALSE
INVARIANTS CounterAhead NoOrphanLease ExactOnClose
