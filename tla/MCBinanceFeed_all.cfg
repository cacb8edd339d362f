SPECIFICATION FairSpec
CONSTANTS
  Price = {p1, p2}
  MaxUpdates = 3
  Fetch = {f1, f2}
  FaultModels <- Models
  NoBook = NoBook
  NotReady = NotReady
INVARIANTS TypeOK UpdatedLevelsAreRight
PROPERTIES ImplementsSourceBook CatchesUp
CHECK_DEADLOCK FALSE
