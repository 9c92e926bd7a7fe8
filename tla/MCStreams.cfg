SPECIFICATION Spec
CONSTANTS
  Principal = {d1, k1}
  Scoped = {k1}
  Stream = {s1, s2}
  Writer = {w1}
  None = None
  Window = 1
  MaxChanges = 1
  MaxEnds = 1
  MaxFaults = 1
CHECK_DEADLOCK FALSE
SYMMETRY Symmetry
INVARIANTS Inv NoZombie NoMissedUpdate
