SPECIFICATION Spec
CONSTANTS
  BufSize = 2
  ItemBits <- MCItemBits
  StreamBytes = 5
  Faults = {}
  SuspendAfter = {0, 3}
INVARIANTS FedExactly
CHECK_DEADLOCK FALSE
