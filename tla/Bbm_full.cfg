SPECIFICATION Spec
CONSTANTS
  RelocBegin = 3
  MaxRelocEntry = 2
  MaxSlots = 5
  PageEntries = 4
  Erased = Erased
  Torn = Torn
INVARIANT NothingWiped
