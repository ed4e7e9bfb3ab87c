SPECIFICATION Spec
CONSTANTS
  StackAddr = {0, 1, 2, 3, 4, 5}
  HeapAddr = {}
  StackShapes <- NestedOnly
  HeapShapes <- NoShape
  RZ = 1
  Widths = {1, 2}
  WidthModulus = 4
  Programs <- Plainest
INVARIANTS SafeRuns
CHECK_DEADLOCK FALSE
