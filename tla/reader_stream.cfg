SPECIFICATION FairSpec
CONSTANTS
  BufSize = 2
  ItemBits <- MCItemBits
  StreamBytes = 5
  Faults = {"DeserializeError", "ReadError", "Eof"}
  SuspendAfter = {0}
INVARIANTS TypeOK ReaderInv FedExactly NoPanic
PROPERTIES ReadsOnlyWhenDrained EofIsNeverReported ArrivedItemCompletes PollReturns
CHECK_DEADLOCK FALSE
