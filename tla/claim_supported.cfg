SPECIFICATION Spec
CONSTANTS
  Words <- AnyWord
  Listings <- ReadmeListings
  TextStart = 4194304
  DataStart = 268435456
  MemSize = 48
  MaxTicks = 12
INVARIANTS
  SupportedByBoth
CHECK_DEADLOCK FALSE
