SPECIFICATION Spec
CONSTANTS
  Message = {m1}
  Worker = {w1, w2}
  None = None
  Delays = {0, 3}
  Budget = 2
  Lease = 1
  Retry = 1
  Skew = 0
  Horizon = 0
  MaxTime = 4
  MaxCrashes = 1
  MaxReplays = 1
  Lag = 4
CHECK_DEADLOCK FALSE
SYMMETRY Symmetry
PROPERTY RefinesDelivery
INVARIANTS LogInOrder HookPerEvent DoneMeansAccepted OneHolder BudgetPlusRecoveries
