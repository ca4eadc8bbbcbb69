CONSTANTS
  NUM_CHANNELS = 2
  Assignment <- MCDirect
  Epilogue = 4
  Refire = FALSE
  MaxNest = 4
SPECIFICATION Spec
INVARIANTS Nesting
