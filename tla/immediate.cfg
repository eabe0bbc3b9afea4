SPECIFICATION Spec
CONSTANTS
  ByteBits = 8
  Nested <- MCNested
  EncodingOf <- Encoding
  Types <- MCAllTypes
  Legible <- MCLegible
  Batches <- MCBatches
  Documented <- MCDocumented
  Buffers = {0, 1, 2, 7}
  UsizeLimit = 65536
INVARIANTS TypeOK FitsOrFails ReadsBack DocumentedSize SelfDelimiting
PROPERTY AllAnswered
CHECK_DEADLOCK FALSE
