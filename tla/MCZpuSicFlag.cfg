CONSTANTS
  NUM_CHANNELS = 2
  Assignment <- MCDirect
  Epilogue = 4
  Refire = TRUE
  MaxNest = 4
SPECIFICATION Spec
INVARIANTS FlagCleared
