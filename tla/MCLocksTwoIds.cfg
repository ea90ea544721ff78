SPECIFICATION Spec
CONSTANTS
  c1 = c1
  c2 = c2
  c3 = c3
  k1 = k1
  k2 = k2
  Ids = {k1, k2}
  Clients = {c1, c2, c3}
  NoLock = NoLock
  Deadline = 3
  Stall = 1
  Silence = 2
SYMMETRY Symmetry
INVARIANT MutualExclusion
