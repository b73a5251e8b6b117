CONSTANTS
  h1 = h1  h2 = h2
  r1 = r1  r2 = r2  r3 = r3
  plain = plain  eos = eos  x = x  y = y  z = z
  Error = Error
  Handler = {h1, h2}
  ChoicesOf <- MCChoices
  Streams = {h1}
  Stop <- MCStop
  Char = {x, y, z}
  TextOf <- MCTextOf
  NSlots = 1
  Prompt <- MCPrompt
  MaxNew <- MCMaxNew
  MaxSeq = 4
  Token = {plain, eos}
  Eos = {eos}
  Faults = {"fail"}
  a = a  b = b  d = d
  Client = {a, b, d}
  Inputs <- MCInputs
  Batch = 2
  NoJob = NoJob
SPECIFICATION ServerSpec
PROPERTIES
  EveryRequestHears
