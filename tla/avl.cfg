SPECIFICATION MCSpec
CONSTANTS
  NULL = NULL
  Depth = 5
  Addr = {0, 1, 2, 3, 4, 5, 6, 7, 8, 9, 10, 11}
  Small = {0, 1, 2, 3, 4, 5, 6}
  Sizes = {2}
  Widths = {1, 3}
INVARIANTS TypeOK SearchTree Balanced ChecksNeighbours
PROPERTIES RemovalExact StoreSpec
