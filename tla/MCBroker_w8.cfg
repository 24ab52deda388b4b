SPECIFICATION FairSpec
CONSTANTS
  a = a
  b = b
  c = c
  d = d
  e = e
  c1 = c1
  c2 = c2
  c3 = c3
  c4 = c4
  None = None
  NoClaimant = NoClaimant
  Keys = {a, b, c, d, e}
  Axis <- OwnAxes
  Limit <- AllOne
  QueueLimit <- AllZero
  Callers = {c1, c2, c3, c4}
  Requests <- W8Requests
  ResNum = 0
  ResDen = 1
  WakeSlack = 8
  MaxProbePerRelease = 1
  MaxBlockAxes = 8
  SoftOn = TRUE
  SoftAfter = 2
  BounceCap = 6
  MaxShare = 1
INVARIANTS ServedWithinBound
PROPERTIES WaiterServed 
