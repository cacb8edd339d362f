SPECIFICATION Spec
CONSTANTS
  Book <- Books
  Rules <- PowersOfTen
INVARIANTS TypeOK ReturnsPreparedLevels WithinTheRules
CHECK_DEADLOCK FALSE
