SPECIFICATION Spec
CONSTANTS
  a = a
  b = b
  e = e
  x = x
  y = y
  Request = {a, b, e}
  NSlots = 3
  NPages = 6
  PageSize = 2
  MaxSeq = 8
  Prompt <- MCPrompt
  MaxNew <- MCMaxNew
  Token = {x, y}
  Eos = {y}
  Pack = 2
  Chunk = 2
  Reserve = 1
  Mix = TRUE
  ShareOn = TRUE
  Calls = {}
  None = None
  Junk = Junk
INVARIANTS
  TypeOK
  OwnText
  StepHasPage
  PassFits
  OneAhead
  PagesSuffice
  ServedInOrder
PROPERTIES
  EveryRequestEnds
  ServesAsBatching
