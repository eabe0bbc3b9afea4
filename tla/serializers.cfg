SPECIFICATION FairSpec
CONSTANTS
  ByteBits = 3
  Values <- MCAll
  Nested <- MCNested
  EncodingOf <- Encoding
  Rooms = {1, 2, 4, 20}
INVARIANTS SerializerInv ExactUntilCut
PROPERTIES ContractUntilCut Completes
CHECK_DEADLOCK FALSE
