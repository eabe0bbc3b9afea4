SPECIFICATION FairSpec
CONSTANTS
  U8 = 4
  U16 = 16
  U32 = 32
  Shapes <- MCShapes
INVARIANTS IndexInv EachPartOnce FailsOnlyAtLimits
PROPERTY Finishes
CHECK_DEADLOCK FALSE
