SPECIFICATION Spec
CONSTANTS
  StackAddr = {}
  HeapAddr = {0, 1, 2, 3, 4, 5, 6}
  StackShapes <- NoShape
  HeapShapes <- FlatAndPlain
  RZ = 1
  Widths = {1}
  WidthModulus = 4
  Programs <- Heaps
INVARIANTS Painted Guarded SafeTidy SweepsInside
PROPERTY SparesBelow
CHECK_DEADLOCK FALSE
