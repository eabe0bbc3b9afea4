SPECIFICATION Spec
CONSTANTS
  ByteBits = 3
  Types <- MCSignedTypes
  Streams <- MCIsize
  Nested <- MCSignedNested
  EncodingOf <- Encoding
  Pieces = {1, 4}
  UsizeLimit = 3
INVARIANT RoundTrip
CHECK_DEADLOCK FALSE
