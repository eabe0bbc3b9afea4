SPECIFICATION FairSpec
CONSTANTS
  ByteBits = 3
  Types <- MCAllTypes
  Streams <- MCAllStreams
  Nested <- MCNested
  EncodingOf <- Encoding
  Pieces = {0, 1, 4}
  UsizeLimit = 3
INVARIANTS DeserializerInv RoundTrip Canonical
PROPERTIES KeepsContract Arrives
CHECK_DEADLOCK FALSE
