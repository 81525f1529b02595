SPECIFICATION Spec
CONSTANTS
  Threads = {t1, t2}
  NoThread = NoThread
  Names = {a, b, c}
  NoStage = NoStage
  Contracts <- Mixed
  Classes = {"Compute", "Dma"}
  PoolSize <- OnePerClass
  MaxRuns = 1
SYMMETRY ThreadSymmetry
INVARIANTS DependenciesFirst StreamsConserved KahnFindsCycles
PROPERTIES LaunchedOnce OkCompletesValidGraph
CHECK_DEADLOCK FALSE
