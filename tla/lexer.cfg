SPECIFICATION FairSpec
CONSTANTS
  Words <- AnyWord
  Sources <- AllSources
  Reused <- OneOrTwo
  TextStart = 4194304
  DataStart = 268435456
  MaxRuns = 2
INVARIANTS
  TypeOK
  TextLayout
  DataLayout
  LabelMarksNext
  ReferencesReachLabels
  PairsTogether
  UnresolvedAreUndefined
PROPERTIES
  LinesStable
  AddressesArePermanent
  Terminates
CHECK_DEADLOCK FALSE
