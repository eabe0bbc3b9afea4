SPECIFICATION FairSpec
CONSTANTS
  BufSize = 2
  ItemBits <- MCFewItemBits
  WireBytes = 2
  Faults = {"Pending", "Short", "Error", "SerializeError"}
  SuspendAfter = {0, 15}
INVARIANTS TypeOK WriterInv PanicOnlyAfterCutShort WireExactUntilInterrupted FlushedUntilInterrupted CompleteIsWhole
PROPERTIES ItemCompletes PollReturns
CHECK_DEADLOCK FALSE
