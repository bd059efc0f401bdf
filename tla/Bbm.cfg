SPECIFICATION Spec
CONSTANTS
  RelocBegin = 3
  MaxRelocEntry = 3
  MaxSlots = 4
  PageEntries = 5
  Erased = Erased
  Torn = Torn
INVARIANTS
  TypeOK
  UsableIsGood
  OthersKept
  LimitKept
PROPERTIES
  MarkReturns
  ImplementsRelocStore
