CONSTANTS
  NBars = 5
  MaxBars = 2
  Cooldown = 1
  MinBars = 2
  Lookback = 1
  Inputs <- SomeRows
SPECIFICATION MCSpec
INVARIANT EaEntersOnNextBar
CHECK_DEADLOCK FALSE
