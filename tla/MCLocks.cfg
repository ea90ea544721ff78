SPECIFICATION FirstFairSpec
CONSTANTS
  c1 = c1
  c2 = c2
  c3 = c3
  k1 = k1
  k2 = k2
  Ids = {k1}
  Clients = {c1, c2, c3}
  NoLock = NoLock
  Deadline = 2
  Stall = 1
  Silence = 1
INVARIANTS TypeOK MutualExclusion IndInv
PROPERTIES FirstInherits LeaseSpec
