SPECIFICATION Spec
CONSTANTS
  Device = {d1, d2}
  Endpoint = {e1}
  Message = {m1, m2}
  Worker = {w1, w2}
  None = None
  Delay = 0
  TTL = 3
  Lease = 1
  Waits = {1}
  Attempts = 2
  MaxTime = 2
  MaxChanges = 2
  Tests = TRUE
  MaxUpsets = 1
CHECK_DEADLOCK FALSE
SYMMETRY Symmetry
INVARIANTS OnePending JobsMatchSubscription StatusIsCurrent AttemptsBounded NoOtherAlertLost
PROPERTY OnlyGoneDropped
