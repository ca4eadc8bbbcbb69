CONSTANTS
  NUM_CHANNELS = 2
  Assignment <- MCShared
  Epilogue = 1
  Refire = TRUE
  MaxNest = 4
SPECIFICATION Spec
INVARIANTS TypeOK Nesting FlagCleared
PROPERTIES Solicited EventHandled
