SPECIFICATION FairSpec
CONSTANTS
  Message = {m1}
  Key = {k1}
  NoKey = NoKey
  Content = {c1}
  Gateway = {g1, g2}
  None = None
  Limit = 1
  Window = 1
  TTL = 1
  Lease = 1
  Skew = 1
  Drivers = {"android", "twilio"}
  Horizon = 1
  MaxTime = 5
  MaxCalls = 1
INVARIANT SentAtMostOnce
PROPERTIES Settles RefinesSendOnce
