SPECIFICATION Spec
CONSTANTS
  Caller = {a, b}
  OrderId = {i1, i2}
  NoId = NoId
  NoOrder = NoOrder
  Price = {1}
  Amount = {1}
  MaxRetries = 2
  MaxConcurrency = 1
  Faults = {"reject", "lost", "refuse"}
  Late = {k1}
  i1 = i1
  LeftBehind <- NoneLeft
SYMMETRY Symmetry
INVARIANTS TypeOK NoPermitLost
PROPERTIES ImplementsPort
