SPECIFICATION Spec
CONSTANTS
  Shapes <- MCShapes
  NumBatches = 2
  NumCols = 2
  MaxRefs = 2
  Null = Null
INVARIANTS
  ReleasedOnce
  BorrowersHoldTheCallback
  NothingElseLeaks
  ImportedAsDescribed
CHECK_DEADLOCK FALSE
