SPECIFICATION FairSpec
CONSTANTS
  u1 = u1
  User = {u1}
  Payment = {p1}
  PayerOf <- OneUser
  Amount <- Amounts
  Delivery = {d1, d2}
  PaymentOf <- Twice
  Request = {r1, r2}
  CallerOf <- Calls
  Charge = {4}
  MinCharge = 1
  Burst = 3
  Rate = 1
  Cost = 3
  Span = 2
  Payout = {q1}
  Marking = {k1, k2}
INVARIANTS TypeOK AcknowledgedIsCredited WithinRate OverdraftBounded PaidOnce
PROPERTY DepositsArrive
CHECK_DEADLOCK FALSE
