CONSTANTS
  NUM_CHANNELS = 3
  Assignments <- MCSpread
  Masks <- MCMasks
  Writes <- MCWrites
SPECIFICATION Spec
INVARIANTS EventsExact
PROPERTIES OverrideExact TopServed
