SPECIFICATION Spec
CONSTANTS
  Words <- AnyWord
  Listings <- JumpListings
  TextStart = 4194304
  DataStart = 268435456
  MemSize = 48
  MaxTicks = 12
INVARIANTS
  JumpsComeBack
CHECK_DEADLOCK FALSE
