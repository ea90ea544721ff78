SPECIFICATION Spec
CONSTANTS
  p1 = p1
  p2 = p2
  s1 = s1
  a = a
  b = b
  Publishers = {p1, p2}
  Subscribers = {s1}
  Kinds = {a}
  Wants <- WantsA
  NoKind = NoKind
  MaxSeq = 2
  MaxTime = 1
INVARIANT SinceTime
