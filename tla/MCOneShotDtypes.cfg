CONSTANTS
  World = 2
  Cells = 2
  Calls <- TwoDtypes
  Garbage = {0, 9}
SPECIFICATION Spec
INVARIANTS
  Sums
CHECK_DEADLOCK FALSE
