SPECIFICATION MCSpec
CONSTANTS
  w1 = w1
  w2 = w2
  Jobs = {1, 2}
  Workers = {w1, w2}
  NoJob = NoJob
  Deadline = 1
  Stall = 0
INVARIANTS WorkTypeOK PunctualIsAlone FinishedWasDone WorkInv
PROPERTY EveryJobIsDone
