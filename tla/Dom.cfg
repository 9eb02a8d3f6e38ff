CONSTANTS
  NodeSize = 2
  HeaderSize = 2
  MinSize = 12
  SizeRange = 64
  Counts = {0, 1, 7}
  MaxEvents = 3
  ReplayNoFirst = FALSE
SPECIFICATION Spec
INVARIANTS TypeOK NodesInBlocks
PROPERTIES PullsTheLog ReplaysTheLog
CHECK_DEADLOCK FALSE
