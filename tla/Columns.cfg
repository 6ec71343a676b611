SPECIFICATION Spec
CONSTANTS
  ValuesOf <- MCValuesOf
  OthersOf <- MCOthersOf
  MaxRows = 3
  Reserve = 2
  Followed = {}
INVARIANTS
  RowsAreExact
  WellFormed
CHECK_DEADLOCK FALSE
