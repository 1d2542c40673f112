SPECIFICATION Spec
CONSTANTS
  n1 = n1
  n2 = n2
  n3 = n3
  junk = junk
  Names <- ThreeNames
  Full = 4
  Sizes <- SomeSizes
  Junk <- junk
  Bytes <- SomeBytes
  Data <- SomeData
  Indices <- SomeIndices
  MaxBlocks = 3
INVARIANTS MemoryTypeOK OneOwner FaultsHaveCauses
PROPERTIES OneAtATime
CHECK_DEADLOCK FALSE
