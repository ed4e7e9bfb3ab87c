SPECIFICATION Spec
CONSTANTS
  RZ = 32
  Bytes = {1, 4}
  Counts = {1, 2}
  Depth = 6
  Structs <- ToyNestedArr
INVARIANTS ZonesInside
CHECK_DEADLOCK FALSE
