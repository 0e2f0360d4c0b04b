SPECIFICATION FairSpec
CONSTANTS
  Workers = {w1, w2}
  BatchSize = 2
  Stride = 2
  FileSets = {"A", "B"}
  Affected = {0, 2}
  Unreadable <- MaybeOne
  Limits = {1, 2}
  Asked = {3}
  MaxRecords = 3
  MaxVersion = 3
  MaxReloads = 1
  MaxFaults = 1
INVARIANTS ReplaySound DiffIsFaithful PagesAreWhole
PROPERTIES CompleteOrFreed
CHECK_DEADLOCK FALSE
