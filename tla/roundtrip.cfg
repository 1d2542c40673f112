SPECIFICATION Spec
CONSTANTS
  Lines <- AllLines
  Starts <- AllStarts
INVARIANTS
  RoundTripTypeOK
  LinesComeBack
  WordsSettle
PROPERTIES
  NoOtherInstruction
