SPECIFICATION Spec
CONSTANTS
  MaxItems = 2
INVARIANT NoSendOnClosed
CHECK_DEADLOCK FALSE
