SPECIFICATION Spec
CONSTANTS
  W = 2
  U = 3
  Lines <- SharedBlocks
  Files = 1
  Modes = {"date"}
  MaxLines = 3
INVARIANTS OrderFree
CHECK_DEADLOCK FALSE
