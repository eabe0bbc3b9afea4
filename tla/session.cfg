SPECIFICATION FairSpec
CONSTANTS
  WriterBufSize = 2
  ReaderBufSize = 3
  Plans <- MCPlans
  ReadFaults = {"ReadError"}
INVARIANTS SessionInv EndToEnd Aligned
PROPERTIES IsChannel AllReceived
CHECK_DEADLOCK FALSE
