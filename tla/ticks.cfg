CONSTANTS
  NBars = 5
  MaxBars = 1
  Cooldown = 1
  MinBars = 2
  BarSpan = 2
  Horizon = 10
  Latencies = {0, 3}
  Fee = 1
  Inputs <- SomeRows
  Funding <- SomeFunding
  Gross <- SomeGross
SPECIFICATION MCSpec
INVARIANTS
  EventTypeOK
  OrdersAreAccounted
  TicksAreServed
  SignalsAreNotLost
  TradesAreTimely
  CashIsLedger
CHECK_DEADLOCK FALSE
