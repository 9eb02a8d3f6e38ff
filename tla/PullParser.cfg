CONSTANT MaxNesting = 3
SPECIFICATION Spec
INVARIANTS TypeOK StateFitsStack OnlySecondScalarsAbort
PROPERTIES ReturnsJsonEvents ImplementsText Progress
CHECK_DEADLOCK FALSE
