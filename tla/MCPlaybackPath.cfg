SPECIFICATION Spec
CONSTANTS
  CountMod = 3
  Loops <- MCTwoPasses
  Totals <- MCFitting
  FIFO_DEPTH_BEATS = 2
  START_WATERMARK = 1
  FIFO_RESET_CYCLES = 6
  FIFO_RESET_GUARD_CYCLES = 6
  CDC_SETTLE_CYCLES = 3
  PUB_EDGES = 1
  DDR_MIN = 2
  DDR_MAX = 3
  MAILBOX = 2
  CMD_DEPTH = 1
  HostCommands <- MCCore
  FaultInputs <- MCNoFaults
  Pipelined = TRUE
  Racing <- MCStop
INVARIANTS
  PlayedInOrder
  FitsNeverUnderflows
