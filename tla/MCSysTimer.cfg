CONSTANTS
  Wrap = 8
  Div = {0, 2}
  Pulse = {1, 3}
SPECIFICATION Spec
INVARIANTS TickAccount NoRunaway PairSettles StaleTicks
PROPERTIES TickSpacing KeepsTicking
