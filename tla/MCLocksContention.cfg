SPECIFICATION Spec
CONSTANTS
  c1 = c1
  c2 = c2
  c3 = c3
  k1 = k1
  k2 = k2
  Ids = {k1}
  Clients = {c1, c2}
  NoLock = NoLock
  Deadline = 2
  Stall = 0
  Silence = 2
SYMMETRY Symmetry
INVARIANT NeverRefused
