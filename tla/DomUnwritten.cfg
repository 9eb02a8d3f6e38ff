CONSTANTS
  NodeSize = 2
  HeaderSize = 2
  MinSize = 12
  SizeRange = 64
  Counts = {0, 1, 11}
  MaxEvents = 2
  ReplayNoFirst = TRUE
SPECIFICATION Spec
PROPERTY ReplaysTheLog
CHECK_DEADLOCK FALSE
