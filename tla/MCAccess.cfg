SPECIFICATION Spec
CONSTANTS
  User = {u1}
  Password = {w1, w2}
  p1 = p1
  p2 = p2
  Project = {p1, p2}
  Session = {s1}
  k1 = k1
  Key = {k1}
  m1 = m1
  m2 = m2
  Message = {m1, m2}
  Request = {r1, r2}
  None = None
  HomeOf <- MCHomeOf
  ScopeOf <- MCScopeOf
  Grants <- MCGrants
  Founder <- MCFounder
  Assigned = {"none", "admin"}
  KdfSlots = 2
  MaxChanges = 2
SYMMETRY Symmetry
INVARIANTS SessionsCurrent Granted SlotsExact
PROPERTIES RefinesAccounts
