SPECIFICATION FairSpec
CONSTANTS
  s1 = s1
  s2 = s2
  r1 = r1
  r2 = r2
  c1 = c1
  c2 = c2
  Crons = {c1, c2}
  Servers = {s1, s2}
  Callers = {r1}
  At <- OwnServer
  MaxRuns = 2
INVARIANTS TypeOK OneJobPerRun NoRunForgotten IndInv
PROPERTIES FirstIsScheduled LedgerSpec
