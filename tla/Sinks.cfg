SPECIFICATION Spec
CONSTANTS
  EventTime <- Times
  EventValue <- Values
  LineLength <- Lengths
  RingCapacity = 2
  QueueCap = 1
  TailPerTick = 1
  Initial = 1
  RollRows = 2
  RelatedWindow = 4
  Limits = {1, 2}
  MaxBatch = 2
  MaxLives = 2
  MaxKills = 1
  MaxFaults = 1
INVARIANTS  RowsNameTheirLines QueriesAreExact StreamAccountsForAll
CHECK_DEADLOCK FALSE
