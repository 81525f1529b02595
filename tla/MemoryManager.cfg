SPECIFICATION Spec
CONSTANTS
  PageUnits = 2
  MaxRefcount = 1
  Threads = {t1, t2, t3}
  NoThread = NoThread
  DeviceUnits = 6
  AllocAlign = 2
  Sizes = {1, 3}
  HintSets <- OneOfEach
  FreeForms = {"cpp"}
  MayPin = TRUE
  MayFreePinned = FALSE
SYMMETRY ThreadSymmetry
INVARIANTS  HeldIsLive  
 
CHECK_DEADLOCK FALSE
