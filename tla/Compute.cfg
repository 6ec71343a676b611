SPECIFICATION Spec
CONSTANTS
  Operators = {"add", "sub"}
  Pairings <- MCPairings
  Fields <- MCFields
  Kernels <- MCKernels
  Conversions <- MCConversions
INVARIANTS
  OperandsKeepTheirPlaces
  FieldsSurviveExport
  KernelsAreExact
  ConversionsAreExact
CHECK_DEADLOCK FALSE
