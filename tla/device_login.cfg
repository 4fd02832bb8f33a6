SPECIFICATION Spec
CONSTANTS
  a1 = a1
  a2 = a2
  p1 = p1
  p2 = p2
  p3 = p3
  m1 = m1
  Attempt = {a1, a2}
  Poll = {p1, p2, p3}
  LoginOf <- TwoPollsAndOne
  Mac = {m1}
  MacOf <- OnOneMac
  User = {u1, u2}
  None = None
INVARIANTS TypeOK OneTokenPerLogin ApproverOwns SavedIsIssued FailedForAReason RemovedTokenIsDead
CHECK_DEADLOCK FALSE
