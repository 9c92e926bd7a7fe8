SPECIFICATION FairSpec
CONSTANTS
  Message = {m1, m2}
  Key = {k1}
  NoKey = NoKey
  Request = {r1, r2}
  None = None
INVARIANT Inv
PROPERTIES OutcomeStands RefinesSendOnce Resolves
