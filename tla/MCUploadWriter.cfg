SPECIFICATION Spec
CONSTANTS
  HostCommands <- Commands
  Images <- MCImages
  SizeOf <- MCSizeOf
  Sessions <- MCSessions
  WORDS = 2
  RETRIES = 1
  MAX_REQ = 4
  MAX_NET = 2
  MAX_RESP = 1
  GEN_MOD = 3
CHECK_DEADLOCK FALSE
INVARIANTS
  UploadIsWhole
  ActsAsAnswered
  EngineReturns
