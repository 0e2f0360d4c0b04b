SPECIFICATION Spec
CONSTANTS
  f1 = f1
  f2 = f2
  w1 = w1
  w2 = w2
  Files = {}
  FileLen <- NoFile
  Listeners = {udp}
  Serve = TRUE
  Workers = {w1, w2}
  QueueCap = 1
  BatchMax = 1
  MaxStore = 3
  MaxLives = 2
  MaxOutFails = 0
  MayFail = FALSE
INVARIANTS OutputInOrder
CHECK_DEADLOCK FALSE
