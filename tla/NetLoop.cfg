SPECIFICATION Spec
CONSTANTS
  NDev = 3
  EthRotate = {TRUE, FALSE}
  MaxCalls = 2
INVARIANTS
  TypeOK
  ActiveIsCurrent
  OnceTriesAll
  RoundTriesOnce
PROPERTY
  CommandReturns
CHECK_DEADLOCK FALSE
