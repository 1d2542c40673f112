SPECIFICATION Spec
CONSTANTS
  MemSize = 20
  Images <- OddRd
  Pokes <- NoPokes
  Junk <- SomeJunk
  MaxTicks = 3
INVARIANTS
  AddReachesRd
CHECK_DEADLOCK FALSE
