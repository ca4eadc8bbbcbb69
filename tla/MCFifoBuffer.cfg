CONSTANTS
  Depth = 4
  Data = {d1, d2}
SPECIFICATION Spec
INVARIANTS PtrState
PROPERTIES HeadShown ImplementsQueue
