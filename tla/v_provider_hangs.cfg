SPECIFICATION FairSpec
CONSTANTS
  Request = {r1}
  None = None
  FailedDials = 1
  LateBeats = 1
PROPERTY Reconnects
CHECK_DEADLOCK FALSE
