CONSTANTS
  Bytes <- MCBytes
  StopBits <- MCGoodStop
  MaxEarly = 6
  MaxLate = 10
SPECIFICATION Spec
INVARIANTS FrameDelivered
PROPERTIES FrameStrobed
