CONSTANTS
  NBars = 7
  MaxBars = 1
  Cooldown = 2
  MinBars = 2
  Lookback = 1
  Inputs <- SomeRows
SPECIFICATION MCSpec
INVARIANTS
  TypeOK
  EntriesAreExactlyDue
  TradesAreSeparated
  EaTradesBehindTierA
  EaActsTwoBarsLater
  EaRestsAfterTimeExit
CHECK_DEADLOCK FALSE
