SPECIFICATION Spec
CONSTANTS
  PiecesOf <- MCPiecesOf
  BatchesOf <- MCBatchesOf
  WidthOf <- MCWidthOf
  Align = 4
  BitsPerByte = 2
  Capacity = 2
  MaxRows = 3
  MaxPieces = 3
  Followed = {}
INVARIANTS
  FramesHoldTheirRows
  SummariesAreTrue
CHECK_DEADLOCK FALSE
