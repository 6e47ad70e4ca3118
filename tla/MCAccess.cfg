CONSTANTS
  b1 = b1
  b2 = b2
  Users = {u1, u2}
  Seed = u1
  Clients = {k1, k2}
  Boards = {b1, b2}
  Runs = {r1}
  Jobs = {j1, j2}
  Groups <- MCGroups
  None = None
  MaxCalls = 6
SPECIFICATION Spec
CHECK_DEADLOCK FALSE
INVARIANTS
  OneHolder
  ControlHeldLease
PROPERTY
  LeaseEndsByRight
