SPECIFICATION Spec
CONSTANTS
  U8 = 256
  U16 = 65536
  U32 = 2147483647
  Shapes <- MCRealShapes
INVARIANT NeverPanics
CHECK_DEADLOCK FALSE
