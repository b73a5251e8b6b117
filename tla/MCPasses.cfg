CONSTANTS
  x = x
  y = y
  w = w
  z = z
  Blocks <- AllBlocks
  Legalities = {"exact", "ieee", "numeric"}
  LeafType <- Leaves
  Inputs <- Sampled
  Largest = 4
  Width <- Bits
  MaxRounds = 3
  MaxNodes = 20
  Extent = 4
SPECIFICATION Spec
INVARIANTS Preserved CongruenceClosed
CHECK_DEADLOCK FALSE
