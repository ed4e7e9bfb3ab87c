SPECIFICATION Spec
CONSTANTS
  StackAddr = {0, 1, 2, 3, 4, 5, 6}
  HeapAddr = {}
  StackShapes <- FlatOnly
  HeapShapes <- NoShape
  RZ = 1
  Widths = {1, 2, 3}
  WidthModulus = 3
  Programs <- Stacks
INVARIANTS TypeOK Guarded Caught SafeTidy
CHECK_DEADLOCK FALSE
