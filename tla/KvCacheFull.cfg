SPECIFICATION Spec
CONSTANTS
  Threads = {t1, t2}
  NoThread = NoThread
  Pages = {0, 1}
  Weights = {0, 1}
  MaxResident = 1
  EvictCounts = {0, 2}
  NoPage = NoPage
  Band = 1
  MaxPins = 1
PROPERTIES TouchReturns
CHECK_DEADLOCK FALSE
