SPECIFICATION Spec
CONSTANTS
  Threads = {t1, t2}
  NoThread = NoThread
  Caches = {"k", "l"}
  NoCache = NoCache
  SlotsOf <- TwoCaches
  Rows <- TwoRows
  TopK = 2
  Window = 2
  LayerSpecs <- SmallLayers
  MaxTokens = 1
  MaxCalls = 1
INVARIANTS TokensConserved 
PROPERTIES CallsReturn
