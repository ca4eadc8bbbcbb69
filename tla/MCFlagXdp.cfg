CONSTANTS
  Gap = 3
  Ratio = 3
  MaxResets = 2
SPECIFICATION XdpSpec
INVARIANTS NoneLost
PROPERTIES Drained
