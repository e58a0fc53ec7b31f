SPECIFICATION Spec
CONSTANTS
  L = 3
  W4 = 2
INVARIANTS Minimal
PROPERTIES ImplementsSplit
CHECK_DEADLOCK FALSE
