SPECIFICATION Spec
CONSTANTS
  MemSize = 20
  Images <- AllPairs
  Pokes <- SomePokes
  Junk <- SomeJunk
  MaxTicks = 2
INVARIANTS
  StateTypeOK
  FieldsCurrent
PROPERTIES
  ImplementsISA
CHECK_DEADLOCK FALSE
