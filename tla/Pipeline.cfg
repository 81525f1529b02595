SPECIFICATION PSpec
CONSTANTS
  Threads = {t1, t2}
  NoThread = NoThread
  Names = {"preprocess", "train", "infer", "postprocess"}
  NoStage = NoStage
  Contracts <- AllStages
  Classes = {"Compute"}
  PoolSize <- OnePerClass
  MaxRuns = 2
  SmemSizes <- SomeSizes
INVARIANTS BuiltIsWhole UnfitNeverLaunches
PROPERTIES RunOkLeavesNothing CallsReturn
CHECK_DEADLOCK FALSE
