SPECIFICATION FairSpec
CONSTANTS
  Conns = {c1, c2}
  Streams <- MCStreams
  Peers = {p1}
  MaxConns = 1
  FlushEvents = 2
  MaxDigits = 2
  MaxRead = 3
  MaxGrams = 2
  MaxFails = 1
INVARIANTS ListenersSound 
 
CHECK_DEADLOCK FALSE
