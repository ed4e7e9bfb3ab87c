SPECIFICATION Spec
CONSTANTS
  Addr = {0, 1, 2, 3, 4, 5, 6, 7}
  Sizes = {3}
  Widths = {1, 2, 4}
INVARIANTS TypeOK NeighboursSuffice
