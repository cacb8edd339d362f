SPECIFICATION Spec
CONSTANTS
  Tape = tape
  OrderId = {i1, i2, i3, i4}
  NoId = NoId
  NoOrder = NoOrder
  Amount <- Amounts
  MaxRetries = 2
  Faults = {"reject", "lost", "interrupt"}
  Late = {k1}
  RawTrade <- Trades
  Rules <- TapeRules
  Gap = 2
  MaxTime = 6
INVARIANTS TypeOK TwoTradesPerGap MirrorsTheTrade
CHECK_DEADLOCK FALSE
