SPECIFICATION FairSpec
CONSTANTS
  Files = {"f1"}
  Texts <- OneFile
  SourceName <- OneName
  BatchEvents = 1
  StableTicks = 2
  GrowTicks = 4
  MaxAppend = 2
  MaxLives = 2
  MaxFails = 1
INVARIANTS TailerSound
PROPERTIES SilentIsStored
CHECK_DEADLOCK FALSE
