CONSTANTS
  Bytes <- MCBytes
  StopBits <- MCAnyStop
  MaxEarly = 0
  MaxLate = 0
SPECIFICATION Spec
INVARIANT FramingErrorReported
