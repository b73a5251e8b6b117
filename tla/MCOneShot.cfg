CONSTANTS
  World = 3
  Cells = 2
  Calls <- OneDtype
  Garbage = {0, 9}
SPECIFICATION Spec
INVARIANTS
  Sums
PROPERTIES
  EveryCallEnds
CHECK_DEADLOCK FALSE
