SPECIFICATION Spec
CONSTANTS
  Sources <- SomeSources
  Garbage <- SomeGarbage
  Cuts <- SomeCuts
INVARIANTS
  ProgramTypeOK
PROPERTIES
  LoadRestores
  CutFilesRepeat
