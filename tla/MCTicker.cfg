SPECIFICATION FairSpec
CONSTANTS
  MaxItems = 3
INVARIANTS TypeOK NoLostWakeUp IndInv
PROPERTIES WokenUp PollCatchesUp Closes
CHECK_DEADLOCK FALSE
