SPECIFICATION Spec
CONSTANTS
  NULL = NULL
  Depth = 4
  Addr = {0, 1, 2, 3, 4}
  Sizes = {2}
  Widths = {1}
PROPERTIES RemoveBetweenExact
