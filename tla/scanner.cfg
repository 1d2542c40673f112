SPECIFICATION FairSpec
CONSTANTS
  Texts <- AllTexts
  Mnemonics <- OneMnemonic
  Registers <- TwoRegisters
  Digits <- TwoDigits
  TokenMax = 8
  MaxTokens = 4
INVARIANTS ScannerTypeOK LinesCounted NothingLost HashIsComment OperandsRead
PROPERTIES Terminates
CHECK_DEADLOCK FALSE
