SPECIFICATION FairSpec
CONSTANTS
  Principal = {d1}
  Scoped = {}
  Stream = {s1, s2}
  Writer = {w1}
  None = None
  Window = 1
  MaxChanges = 2
  MaxEnds = 1
  MaxFaults = 1
CHECK_DEADLOCK FALSE
PROPERTIES StreamsEnd Converges RefinesMailbox
