SPECIFICATION FairSpec
CONSTANTS
  Caller = {loop}
  Loop = loop
  OrderId = {i1, i2, i3, i4}
  Late = {}
  i1 = i1
  i2 = i2
  LeftBehind <- Nothing
  NoId = NoId
  NoOrder = NoOrder
  NoBook = NoBook
  NoPrice = NoPrice
  Price <- MCPrice
  Amount <- MCAmount
  MaxRetries = 2
  Faults = {"reject"}
  Targets <- BooksDrifting
  TolerancePct = 10
  AdoptPrice <- SamePrice
  AdoptOnStartup = FALSE
  CancelOnShutdown = TRUE
INVARIANTS NoPhantoms
PROPERTIES Converges Settles ClearedMarketIsEmpty
