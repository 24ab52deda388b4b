SPECIFICATION Spec
CONSTANTS
  a = a
  b = b
  c = c
  d = d
  e = e
  c1 = c1
  c2 = c2
  c3 = c3
  c4 = c4
  None = None
  NoClaimant = NoClaimant
  Keys = {a, b, c, d}
  Axis <- OwnAxes
  Limit <- DFree
  QueueLimit <- BShort
  Callers = {c1, c2, c3, c4}
  Requests <- MixedRequests
  ResNum = 1
  ResDen = 2
  WakeSlack = 8
  MaxProbePerRelease = 16
  MaxBlockAxes = 8
  SoftOn = TRUE
  SoftAfter = 1
  BounceCap = 1
  MaxShare = 2
INVARIANTS Accounting CapacityRespected BatchWithinReserve WellFormed JustlyWaiting WorkConserving
PROPERTIES ArrivalOrder
