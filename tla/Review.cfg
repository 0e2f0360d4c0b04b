SPECIFICATION FairSpec
CONSTANTS
  Window = 2
  Established = 2
  MinMisses = 1
  CleanWindows = 1
  Threshold = 2
  MinSupport = 1
  MaxBuffer = 3
  Batch = 2
  MaxBatches = 3
  MaxOps = 3
  MaxKills = 1
INVARIANTS  EditKept
PROPERTIES  LoopIsTimely
CHECK_DEADLOCK FALSE
