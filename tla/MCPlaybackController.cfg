SPECIFICATION MCSpec
CONSTANTS
  CountMod = 4
  Loops <- MCLoops
  Bits <- MCBits
  Records <- MCRecords
  Reset = 0
  LOW = 4
  QUIET = 5
  WINDOW = 4
  FIFO_RESET_CYCLES = 1
  FIFO_DEPTH = 2
  CREDIT_LAG = 1
  BURST_FRAMES = 2
  MAX_OUTSTANDING = 2
  PAGE_FRAMES = 3
  SLICES = 2
  TIMEOUT_CYCLES = 2
  MAX_TOTAL = 3
INVARIANTS
  GateNeedsLaunch
  RunIsLoopCountPasses
  SnapshotCoherent
  EachEdgeOnce
  WindowDecides
  QuiescentWhenIdle
  RequestsCovered
  DoneMeansDelivered
PROPERTIES
  TriggersAccounted
  StatusAnswered
  CancelQuiesces
