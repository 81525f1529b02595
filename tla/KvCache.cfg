SPECIFICATION Spec
CONSTANTS
  Threads = {t1, t2}
  NoThread = NoThread
  Pages = {0, 1, 2}
  Weights = {0, 1, 2}
  MaxResident = 2
  EvictCounts = {0, 1, 3}
  NoPage = NoPage
  Band = 1
  MaxPins = 1
SYMMETRY ThreadSymmetry
INVARIANTS ResidentCounted
PROPERTIES PinnedStays EvictsLeastAttended
CHECK_DEADLOCK FALSE
