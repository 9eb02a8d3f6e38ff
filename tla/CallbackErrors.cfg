CONSTANTS
  MaxNesting = 2
  GenSize = 0
  ReuseOpen = FALSE
SPECIFICATION Spec
INVARIANT CodesListed
CHECK_DEADLOCK FALSE
