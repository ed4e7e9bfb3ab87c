SPECIFICATION Spec
CONSTANTS
  RZ = 3
  Bytes = {1, 4}
  Counts = {1, 2}
  Depth = 6
  Structs <- AllStructs
INVARIANTS FieldsSurvive RegistersAll RemovesOwn Supported
CHECK_DEADLOCK FALSE
