SPECIFICATION Spec
CONSTANTS
  a = a
  b = b
  c = c
  x = x
  y = y
  Request = {a, b, c}
  NSlots = 3
  MaxSeq = 5
  Prompt <- MCPrompt
  MaxNew <- MCMaxNew
  Token = {x, y}
  Eos = {y}
  Packs = {0, 5}
  MixSize = 3
  MaxGroup = 2
  None = None
  Junk = Junk
INVARIANTS
  OwnText
PROPERTIES
  EveryRequestEnds
  ServesAsBatching
