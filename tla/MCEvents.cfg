SPECIFICATION FairSpec
CONSTANTS
  p1 = p1
  p2 = p2
  s1 = s1
  a = a
  b = b
  Publishers = {p1, p2}
  Subscribers = {s1}
  Kinds = {a, b}
  Wants <- WantsA
  NoKind = NoKind
  MaxSeq = 3
  MaxTime = 1
INVARIANTS TypeOK NothingElseSkipped SinceSequence IndInv
PROPERTIES AllDelivered FeedSpec
