SPECIFICATION CtlSpec
CONSTANTS
  p1 = p1
  p2 = p2
  Procs = {p1, p2}
  Old = old
  None = none
  Services <- MCServices
  Lists <- MCLists
  Menu <- MCMenu
INVARIANT CtlTypeOK
INVARIANT NilOnlyIfMisordered
INVARIANT ExitZeroIsTrue
INVARIANT NoTableMissing
INVARIANT ListedInFull
INVARIANT CtlInv
PROPERTY InterruptEnds
