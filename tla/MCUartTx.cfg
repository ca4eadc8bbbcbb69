CONSTANTS
  Depth = 4
  Bytes <- MCBytes
  Tick = 2
  Oversample = 2
SPECIFICATION Spec
INVARIANTS TypeOK FramesMatch NoOverrun
PROPERTIES FifoUsed AllSent
