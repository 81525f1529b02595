SPECIFICATION Spec
CONSTANTS
  Threads = {t1, t2}
  FileLen = 3
  Sizes = {3}
  Chunks = {0, 1, 2}
  DefaultChunk = 16
  MaxCalls = 1
INVARIANTS WaitSynchronizes
CHECK_DEADLOCK FALSE
