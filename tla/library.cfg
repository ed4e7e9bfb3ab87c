SPECIFICATION Spec
CONSTANTS
  Struct = {s1, s2}
  Value = {0, 1}
  NULL = NULL
  COLOR = 1
  Arity = 2
  Size = 2
  WidthModulus = 2
  Layouts <- AllLayouts
INVARIANTS TypeOK ZonesIntact
PROPERTY PlainTransparent
CHECK_DEADLOCK FALSE
