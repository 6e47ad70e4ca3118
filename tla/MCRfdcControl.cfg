CONSTANTS
  c1 = c1
  c2 = c2
  x1 = x1
  x2 = x2
  Channels = {c1, c2}
  Values = {0, 1}
  V0 = 0
  Requests <- MCRequests
  Web = {x1, x2}
  Lib = u
  None = None
  RETRIES = 1
  MaxWebCalls = 2
  MaxLibCalls = 3
  MaxFaults = 2
  MaxSeq = 6
SPECIFICATION Spec
SYMMETRY MCSymmetry
CHECK_DEADLOCK FALSE
INVARIANTS
  StoreIsTrue
  ReturnMeansApplied
