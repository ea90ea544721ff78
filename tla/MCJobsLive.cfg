SPECIFICATION FairSpec
CONSTANTS
  q1 = q1
  j1 = j1
  j2 = j2
  l1 = l1
  l2 = l2
  c1 = c1
  c2 = c2
  Jobs = {j1, j2}
  Queues = {q1}
  QueueOf <- OneQueue
  Listeners = {l1}
  ListensOn <- BothListen
  Callers = {c1}
  NoJob = NoJob
  Deadline = 0
  Stall = 0
PROPERTY OldestIsServed
