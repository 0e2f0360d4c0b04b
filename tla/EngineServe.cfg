SPECIFICATION FairSpec
CONSTANTS
  f1 = f1
  f2 = f2
  w1 = w1
  w2 = w2
  Files = {f1}
  FileLen <- ShortFile
  Listeners = {udp}
  Serve = TRUE
  Workers = {w1, w2}
  QueueCap = 1
  BatchMax = 1
  MaxStore = 3
  MaxLives = 1
  MaxOutFails = 1
  MayFail = TRUE
INVARIANTS ServeSound
PROPERTIES Terminates
CHECK_DEADLOCK FALSE
