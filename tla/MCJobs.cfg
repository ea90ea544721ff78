SPECIFICATION Spec
CONSTANTS
  q1 = q1
  j1 = j1
  j2 = j2
  l1 = l1
  l2 = l2
  c1 = c1
  c2 = c2
  Jobs = {j1}
  Queues = {q1}
  QueueOf <- OneQueue
  Listeners = {l1, l2}
  ListensOn <- BothListen
  Callers = {c1, c2}
  NoJob = NoJob
  Deadline = 2
  Stall = 1
SYMMETRY Symmetry
INVARIANTS TypeOK OneFreshHolder IndInv
PROPERTY LeaseSpec
