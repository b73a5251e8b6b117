SPECIFICATION Spec
CONSTANTS
  a = a
  b = b
  e = e
  x = x
  y = y
  Request = {a, b, e}
  NSlots = 2
  NPages = 6
  PageSize = 2
  MaxSeq = 6
  Prompt <- MCPrompt
  MaxNew <- TightMaxNew
  Token = {x, y}
  Eos = {y}
  Pack = 3
  Chunk = 1
  Reserve = 1
  Mix = FALSE
  ShareOn = TRUE
  Calls = {"cancel", "load_weights", "reset"}
  None = None
  Junk = Junk
INVARIANTS
  PoolConsistent
  RefsCountHolders
  HoldersAdmitted
  KeptPagesHold
  PoolWhole
