SPECIFICATION Spec
CONSTANTS
  Words <- AnyWord
  Listings <- AllListings
  TextStart = 4194304
  DataStart = 268435456
  MemSize = 48
  MaxTicks = 12
INVARIANTS
  ResultsAsWritten
  BranchesAsWritten
  RefusedIfWrong
  ListingsComeBack
CHECK_DEADLOCK FALSE
