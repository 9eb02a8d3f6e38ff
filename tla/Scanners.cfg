CONSTANTS
  Ten = 2
  MaxSigDigits = 19
  LongMax = 500000
  ExpLimit = 5
  SmallestPower <- MinusThirty
  LargestPower = 30
  Texts <- AllTexts
  Cuts <- CutTexts
SPECIFICATION Spec
INVARIANTS TypeOK UnreadIntact ReadInside StringsDecoded TokensFound FaultsPlaced NumbersExact WrittenIsRead
PROPERTIES Progress
CHECK_DEADLOCK FALSE
