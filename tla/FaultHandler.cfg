SPECIFICATION FSpec
CONSTANTS
  BufferSlots = 2
  Faults = {f1, f2, f3}
  NoFault = NoFault
  MaxLogs = 4
INVARIANTS PollerHasBuffer RecordsCountedOnce 
PROPERTIES PollerServes
CHECK_DEADLOCK FALSE
