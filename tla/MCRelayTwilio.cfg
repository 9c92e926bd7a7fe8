SPECIFICATION Spec
CONSTANTS
  Message = {m1, m2}
  Key = {k1}
  NoKey = NoKey
  Content = {c1, c2}
  Gateway = {}
  None = None
  Limit = 1
  Window = 2
  TTL = 2
  Lease = 1
  Skew = 1
  Drivers = {"twilio", "none"}
  Horizon = 3
  MaxTime = 6
  MaxCalls = 0
SYMMETRY Symmetry
INVARIANTS Inv IntentSentOnce Truthful DispatchRate
PROPERTY OutcomeNeverRegresses
