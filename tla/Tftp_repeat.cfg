SPECIFICATION Spec
CONSTANTS
  Size = 5
  BlkSizeOption = 2
  SeqSize = 4
  MemSize = 12
  TimeoutCountMax = 1
  Window = 1
  PortReuse = FALSE
  Capacity = 2
  MaxTids = 1
  MaxStarts = 1
  MaxDups = 0
INVARIANT SuccessIsWhole
CHECK_DEADLOCK FALSE
