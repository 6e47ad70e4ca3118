SPECIFICATION FairSpec
CONSTANTS
  CountMod = 3
  Loops <- MCTwoPasses
  Totals <- MCStream
  FIFO_DEPTH_BEATS = 2
  START_WATERMARK = 2
  FIFO_RESET_CYCLES = 6
  FIFO_RESET_GUARD_CYCLES = 6
  CDC_SETTLE_CYCLES = 2
  PUB_EDGES = 1
  DDR_MIN = 2
  DDR_MAX = 2
  MAILBOX = 1
  CMD_DEPTH = 1
  HostCommands <- MCAll
  FaultInputs <- MCFaults
  Pipelined = FALSE
  Racing <- MCNone
INVARIANTS
  PrefetchLevelExact
PROPERTIES
  ImplementsController
  PrefetchEnds
