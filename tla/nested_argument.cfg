SPECIFICATION Spec
CONSTANTS
  Struct = {s1}
  Value = {0, 1}
  NULL = NULL
  COLOR = 1
  Arity = 1
  Size = 2
  WidthModulus = 4
  Layouts <- NestedOnly
PROPERTY AllTypesTransparent
CHECK_DEADLOCK FALSE
