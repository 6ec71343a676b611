\* Two elements to an aligned stride; tensors of up to nine elements, three calls.
CONSTANTS
  Align = 2
  NaN = NaN
  Stops = Stops
  MaxCells = 9
  MaxSteps = 3
SPECIFICATION Spec
INVARIANT TensorsAreExact
CHECK_DEADLOCK FALSE
