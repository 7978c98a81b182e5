SPECIFICATION HSpec
CONSTANTS
  Main = main
  Workers = {w1, w2}
  None = none
  Features = {"waits"}
  HostCreate = {TRUE}
  MaxCalls = 1
  MaxRuns = 1
  MaxTests = 2
  Grace = 1
CHECK_DEADLOCK FALSE
INVARIANTS
  AbandonedNeverRun
