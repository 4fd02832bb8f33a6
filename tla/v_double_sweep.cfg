SPECIFICATION Spec
CONSTANTS
  r1 = r1
  r2 = r2
  n1 = n1
  c1 = c1
  c2 = c2
  k1 = k1
  k2 = k2
  dev = dev
  own = own
  other = other
  Request = {r1, r2}
  Node = {n1}
  Conn = {c1, c2}
  Credential = {k1, k2}
  Token = {k1}
  User = {dev, own, other}
  Platform = platform
  None = None
  ServedBy <- OnOneNode
  NodeOf <- ConnsOfOneNode
  Presents <- InTurn
  OwnerOf <- TwoOwners
  Outcome <- OneOutcome
  PoolSize = 3
  InRate = 1
  OutRate = 2
  Unit = 4
  MinCharge = 2
  FeePercent = 10
INVARIANT NothingFromNothing
CHECK_DEADLOCK FALSE
