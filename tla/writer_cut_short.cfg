SPECIFICATION Spec
CONSTANTS
  BufSize = 2
  ItemBits <- MCItemBits
  WireBytes = 3
  Faults = {"Pending", "Short"}
  SuspendAfter = {}
INVARIANT WireExact
CHECK_DEADLOCK FALSE
