CONSTANTS
  b1 = b1
  b2 = b2
  Boards = {b1, b2}
  Runs = {r1, r2}
  Handlers = {h1}
  NoRun = NoRun
  OneSession = OneSession
  Master = b1
  Requests <- MCRequests
  MaxCrashes = 1
  MaxCalls = 2
SPECIFICATION Spec
CHECK_DEADLOCK FALSE
INVARIANTS
  WorkerOwnsBoards
  NothingStranded
  PlaysOwnImage
