SPECIFICATION Spec
CONSTANTS
  a = a
  b = b
  Zero = Zero
  Magic = Magic
  Data <- MCData
  Payloads <- MCPayloads
  MaxRecords = 3
  Batch = 3
  IdxCap = 2
  MaxCrashes = 2
  MaxPower = 1
  MaxFails = 1
  StopAtFailure = TRUE
INVARIANTS PromiseKept StoreIsClean ReaderClean
PROPERTIES AppendOnly
CHECK_DEADLOCK FALSE
