CONSTANTS
  Tests = {t1}
  MaxTests = {m1}
  h1 = h1
  h2 = h2
  w1 = w1
  w2 = w2
  Handlers = {h1, h2}
  Workers = {w1, w2}
  N = 2
  None = None
  Settings <- MCSettings
  MaxCalls = 3
  MaxFaults = 1
SPECIFICATION Spec
SYMMETRY MCSymmetry
CHECK_DEADLOCK FALSE
INVARIANTS
  CompletedMeansCovered
  PlayingIsRemembered
  RunningHasThread
