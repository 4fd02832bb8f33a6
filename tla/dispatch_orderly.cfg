SPECIFICATION FairSpec
CONSTANTS
  n1 = n1
  c1 = c1
  c2 = c2
  Node = {n1}
  Conn = {c1, c2}
  NodeOf <- OneNode
  Request = {r1, r2}
  Model = {m1}
  None = None
  StaleAfter = 0
  Cooldown = 1
  EventCap = 2
  OutCap = 1
  Charge = {1}
  Overlap = FALSE
  Silence = FALSE
  SlowClient = FALSE
INVARIANTS TypeOK NoLostWaiter LiveIsListed TeardownNeverPanics ListedIsOpen
PROPERTY FailurePropagates
CHECK_DEADLOCK FALSE
