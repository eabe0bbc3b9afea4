SPECIFICATION Spec
CONSTANTS
  ByteBits = 3
  Values <- MCCutSequences
  Nested <- MCNested
  EncodingOf <- Encoding
  Rooms = {4, 20}
INVARIANT Exact
CHECK_DEADLOCK FALSE
