SPECIFICATION FairSpec
CONSTANTS
  n1 = n1
  n2 = n2
  c1 = c1
  c2 = c2
  c3 = c3
  None = None
  Nodes = {n1, n2}
  Calls = {c1, c2, c3}
  NodeOf <- TwoAndOne
  Limit = 1
  TTL = 2
  Late = 1
INVARIANTS SharedCeiling NeverRecycled
 
