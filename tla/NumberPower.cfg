CONSTANTS
  Ten = 2
  MaxSigDigits = 19
  LongMax = 500000
  ExpLimit = 5
  SmallestPower <- MinusThree
  LargestPower = 3
  Texts <- Powers
  Cuts = {}
SPECIFICATION Spec
INVARIANT PowerInTable
CHECK_DEADLOCK FALSE
