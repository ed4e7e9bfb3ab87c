SPECIFICATION FairSpec
CONSTANTS
  N = 6
  Types = {"A", "B"}
  None = ""
  size <- Size
  inflatedSize <- InflatedSize
  Functions <- SizesAndGraphs
INVARIANTS TypeOK   SizesFit WalkExact SweepsItsOwn
PROPERTY Terminates
CHECK_DEADLOCK FALSE
