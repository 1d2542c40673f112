SPECIFICATION Spec
CONSTANTS
  Words <- AnyWord
  Listings <- LoopListing
  TextStart = 4194304
  DataStart = 268435456
  MemSize = 48
  MaxTicks = 12
INVARIANTS
  JumpsReachLabels
CHECK_DEADLOCK FALSE
