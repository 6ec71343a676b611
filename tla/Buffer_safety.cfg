\* Three buffers over a shared allocation and the log.
SPECIFICATION Spec
CONSTANTS
  Handle = {h1, h2, h3}
  Val = {v1, v2}
  Alloc = {a1}
  Cell = Cell
  Absent = Absent
  Live = Live
  Align = 2
  MaxLen = 2
SYMMETRY Symmetry
INVARIANTS
  WindowsInsideOwner
PROPERTIES
  SharedNeverWritten
  ImplementsValues
