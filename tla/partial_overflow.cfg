SPECIFICATION Spec
CONSTANTS
  StackAddr = {0, 1, 2, 3}
  HeapAddr = {}
  StackShapes <- FlatOnly
  HeapShapes <- NoShape
  RZ = 1
  Widths = {1, 2}
  WidthModulus = 4
  Programs <- Plainest
INVARIANTS PartialCaught
CHECK_DEADLOCK FALSE
