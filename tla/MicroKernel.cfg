SPECIFICATION Spec
CONSTANTS
  Threads = {t1, t2, t3}
  NoStream = NoStream
  NCompute = 2
  NDma = 1
  FillsFunctions = TRUE
  MaxSubmits = 1
INVARIANTS OneOwner DestroyedIsDone
PROPERTIES CallsEnd
CHECK_DEADLOCK FALSE
