SPECIFICATION Spec
CONSTANTS
  d1 = d1
  d2 = d2
  ip1 = ip1
  ip2 = ip2
  Devices = {d1, d2}
  Rows = {r1, r2}
  Threads = {t1, t2}
  UidOf <- MCUidOf
  ResetIp <- MCSameReset
  Pool <- MCPool
  Boot = Boot
  LinkLocal = LinkLocal
  Bcast = Bcast
  AdminIps = {s1}
  NoDev = NoDev
  NoRow = NoRow
  MaxCalls = 2
  MaxEvents = 1
  MaxFaults = 1
CHECK_DEADLOCK FALSE
SYMMETRY MCSymmetry
INVARIANTS
  DistinctIps
  AppliedIsTrue
PROPERTY
  VerifiedMeansOwn
