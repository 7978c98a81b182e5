SPECIFICATION HFairSpec
CONSTANTS
  Main = main
  Workers = {w1, w2}
  None = none
  Features = {}
  HostCreate = {TRUE}
  MaxCalls = 1
  MaxRuns = 1
  MaxTests = 2
  Grace = 1
CHECK_DEADLOCK FALSE
INVARIANTS
  HTypeOK
  OwnContext
  EpochIsolation
  NoUseAfterFree
PROPERTIES
  ReapEnds
