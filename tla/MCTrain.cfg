SPECIFICATION Spec
CONSTANTS
  p = p  q = q
  Process = {p, q}
  First = p
  Batches <- MCBatches
  Accumulate = 2
  Asked <- MCAsked
  MaxStep = 6
  MaxCrashes = 3
INVARIANTS
  KeptAreWhole
  EachBatchOnce
PROPERTIES
  NeverBack
  LastStepKept
CHECK_DEADLOCK FALSE
