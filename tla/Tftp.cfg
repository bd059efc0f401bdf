SPECIFICATION Spec
CONSTANTS
  Size = 5
  BlkSizeOption = 2
  SeqSize = 4
  MemSize = 12
  TimeoutCountMax = 1
  Window = 1
  PortReuse = FALSE
  Capacity = 2
  MaxTids = 3
  MaxStarts = 2
  MaxDups = 1
INVARIANTS
  TypeOK
  Integrity
  AckedIsStored
PROPERTY
  Terminates
CHECK_DEADLOCK FALSE
