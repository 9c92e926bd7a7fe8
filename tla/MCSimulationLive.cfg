SPECIFICATION FairSpec
CONSTANTS
  Message = {m1}
  Worker = {w1}
  None = None
  Delays = {0}
  Budget = 2
  Lease = 1
  Retry = 1
  Skew = 0
  Horizon = 0
  MaxTime = 16
  MaxCrashes = 1
  MaxReplays = 0
  Lag = 1
CHECK_DEADLOCK FALSE
PROPERTY Completes
