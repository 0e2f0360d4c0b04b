SPECIFICATION FairSpec
CONSTANTS
  f1 = f1
  f2 = f2
  w1 = w1
  w2 = w2
  Files = {f1, f2}
  FileLen <- TwoFiles
  Listeners = {}
  Serve = FALSE
  Workers = {w1, w2}
  QueueCap = 1
  BatchMax = 2
  MaxStore = 0
  MaxLives = 3
  MaxOutFails = 1
  MayFail = TRUE
INVARIANTS TypeOK OutputInOrder FileStoredOnce NothingLost
PROPERTIES ImplementsEventLog Terminates
CHECK_DEADLOCK FALSE
