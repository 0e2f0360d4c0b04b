SPECIFICATION FairSpec
CONSTANTS
  Dirs = {d1, d2}
  MaxStarts = 2
  MaxLives = 2
  MaxForeign = 1
  MaxFaults = 1
INVARIANTS  NeverStuck
PROPERTIES ShellLives
CHECK_DEADLOCK FALSE
