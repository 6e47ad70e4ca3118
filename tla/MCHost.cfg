CONSTANTS
  p1 = p1
  p2 = p2
  Procs = {p1, p2}
  Totals = {4, 16}
  FRAME = 4
  MARKER = 4
  CHUNK = 8
  DATAGRAM = 4
  PACKET = 3
  Requests <- MCRequests
  MaxCrashes = 1
  DATA_WORDS = 32
  TILE = 1
  TILE_SAMPLES = 16
  IQ_BITS = 4
  Inputs <- MCInputs
SPECIFICATION HostSpec
SYMMETRY MCSymmetry
CHECK_DEADLOCK FALSE
INVARIANTS
  CacheIsWhole
  UploadIsRecord
  EndsAgree
  ImageIsWaves
  DacPlaysRequest
  PlanIsRequest
  SettingsSettle
