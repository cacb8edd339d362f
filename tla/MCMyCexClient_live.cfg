SPECIFICATION FairSpec
CONSTANTS
  Caller = {a, b}
  OrderId = {i1}
  NoId = NoId
  NoOrder = NoOrder
  Price = {1}
  Amount = {1}
  MaxRetries = 2
  MaxConcurrency = 1
  Faults = {"reject", "lost", "refuse"}
  Late = {k1}
  i1 = i1
  LeftBehind <- NoneLeft
PROPERTIES EveryCallReturns
