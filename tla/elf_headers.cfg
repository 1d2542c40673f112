SPECIFICATION Spec
CONSTANTS
  f1 = f1
  f2 = f2
  p1 = p1
  s1 = s1
  FileHeaders <- TwoFiles
  ProgramHeaders <- OneProgram
  SectionHeaders <- OneSection
  Samples <- SampleValues
  MaxSets = 2
INVARIANTS ElfTypeOK IdentStays
PROPERTIES IndependentFields
CHECK_DEADLOCK FALSE
