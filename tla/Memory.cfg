CONSTANTS
  Address = {1, 2, 3, 4, 5, 6, 7, 8, 9, 10, 11, 12, 13, 14}
  TableSize = 4
  PointerSize = 8
  InitialCapacity = 2
  NumberRoom = 3
  TextSize = 2
  Lengths = {1, 4}
  MaxCount = 5
  MaxLost = 0
SPECIFICATION Spec
INVARIANTS TypeOK HeapIsOwned BufferHoldsText ResultsStand
CHECK_DEADLOCK FALSE
