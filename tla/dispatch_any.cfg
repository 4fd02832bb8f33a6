SPECIFICATION Spec
CONSTANTS
  n1 = n1
  c1 = c1
  c2 = c2
  Node = {n1}
  Conn = {c1, c2}
  NodeOf <- OneNode
  Request = {r1}
  Model = {m1}
  None = None
  StaleAfter = 0
  Cooldown = 1
  EventCap = 2
  OutCap = 1
  Charge = {1}
  Overlap = TRUE
  Silence = TRUE
  SlowClient = TRUE
INVARIANTS ConnsLive RoutedWhileHandled
PROPERTY ImplementsContract
CHECK_DEADLOCK FALSE
