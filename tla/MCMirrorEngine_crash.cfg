SPECIFICATION Spec
CONSTANTS
  Caller = {loop}
  Loop = loop
  OrderId = {i1, i2, i3, i4, i5}
  Late = {}
  i1 = i1
  i2 = i2
  LeftBehind <- TwoBids
  NoId = NoId
  NoOrder = NoOrder
  NoBook = NoBook
  NoPrice = NoPrice
  Price <- MCPrice
  Amount <- MCAmount
  MaxRetries = 2
  Faults = {"reject", "fill", "crash"}
  Targets <- BooksMoving
  TolerancePct = 10
  AdoptPrice <- SamePrice
  AdoptOnStartup = TRUE
  CancelOnShutdown = FALSE
SYMMETRY IdSymmetry
INVARIANTS TypeOK NoOrphans OneQuotePerLevel
