SPECIFICATION Spec
CONSTANTS
  W = 3
  WordBytes = 2
  MaxLen = 9
  VectorWords = 2
  Start = "new"
INVARIANTS
  PaddingIsClear
  EditsAreExact
  CopiesAreExact
  KernelsWriteOnlyTheirWindow
  KernelsReadTheirWindow
