CONSTANTS
  FifoDepth = 1
  WordSize = 4
  MaxArgs = 3
  MaxLine = 5
  TornLine = 1
  Byte = {p, q}
  Size = 4
SPECIFICATION Spec
INVARIANTS CarriesOn ExecutesTyped NoStaleCommand
PROPERTIES EscFresh RingImplements InputGoesOn
