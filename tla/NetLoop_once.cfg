SPECIFICATION Spec
CONSTANTS
  NDev = 2
  EthRotate = {FALSE}
  MaxCalls = 1
INVARIANT TriedOnce
CHECK_DEADLOCK FALSE
