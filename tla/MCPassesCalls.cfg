CONSTANTS
  x = x
  y = y
  w = w
  z = z
  Blocks <- CallBlocks
  Legalities = {"exact"}
  LeafType <- Leaves
  Inputs <- Sampled
  Largest = 4
  Width <- Bits
  MaxRounds = 3
  MaxNodes = 20
  Extent = 4
SPECIFICATION Spec
INVARIANT Preserved
CHECK_DEADLOCK FALSE
