SPECIFICATION Spec
CONSTANTS
  Device = {d1}
  Endpoint = {e1}
  Message = {m1, m2}
  Worker = {w1}
  None = None
  Delay = 1
  TTL = 3
  Lease = 1
  Waits = {1}
  Attempts = 2
  MaxTime = 3
  MaxChanges = 1
  Tests = FALSE
  MaxUpsets = 1
CHECK_DEADLOCK FALSE
SYMMETRY Symmetry
INVARIANT AlertsKept
