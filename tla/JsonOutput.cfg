CONSTANTS
  GenSize = 3
  Indents = {0, 2}
  LevelRange = 8
SPECIFICATION Spec
INVARIANTS TypeOK OutputIsJson OutputIsLaidOut
CHECK_DEADLOCK FALSE
