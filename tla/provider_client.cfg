SPECIFICATION FairSpec
CONSTANTS
  Request = {r1, r2}
  None = None
  FailedDials = 1
  LateBeats = 1
INVARIANTS TypeOK DepthIsWork OldWorkIsCancelled BeatsWhileServing
PROPERTIES ImplementsProvider CancelledWorkEnds LossIsNoticed
CHECK_DEADLOCK FALSE
