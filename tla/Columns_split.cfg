SPECIFICATION Spec
CONSTANTS
  ValuesOf <- MCValuesOf
  OthersOf <- MCOthersOf
  MaxRows = 3
  Reserve = 2
  Followed = {"split text"}
INVARIANTS
  RowsAreExact
CHECK_DEADLOCK FALSE
