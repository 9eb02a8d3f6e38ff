CONSTANTS
  BitsPerByte = 2
  OffsetRange = 3
  Size = 5
  Owner = "parser"
SPECIFICATION Spec
INVARIANTS TypeOK LevelsInAllocation
PROPERTY ImplementsNestingStack
