SPECIFICATION Spec
CONSTANTS
  MaxItems = 3
  MaxTime = 2
  poolChunkSize = 2
INVARIANT NoneIsLate
CHECK_DEADLOCK FALSE
