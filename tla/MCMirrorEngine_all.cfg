SPECIFICATION Spec
CONSTANTS
  Caller = {loop}
  Loop = loop
  OrderId = {i1, i2, i3}
  Late = {k1}
  i1 = i1
  i2 = i2
  LeftBehind <- LostBid
  NoId = NoId
  NoOrder = NoOrder
  NoBook = NoBook
  NoPrice = NoPrice
  Price <- MCPrice
  Amount <- MCAmount
  MaxRetries = 2
  Faults = {"reject", "lost", "refuse", "fill", "interrupt", "error", "crash", "blind"}
  Targets <- BooksCoarse
  TolerancePct = 10
  AdoptPrice <- CoarserTick
  AdoptOnStartup = TRUE
  CancelOnShutdown = FALSE
SYMMETRY IdSymmetry
INVARIANTS TrackerNamesItsOrders
PROPERTIES PassLeavesOnlyTargets
