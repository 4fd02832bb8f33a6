SPECIFICATION Spec
CONSTANTS
  Node = {n1, n2}
  Steady = {n1}
  Model = {m1}
  Request = {r1, r2}
  StaleAfter = 1
  Cooldown = 2
  Charge = {1, 3}
  MaxReport = 1
INVARIANTS NeverOverbooked ExactAccounting
PROPERTIES NoQueueBesideIdle FailedNodeRests
