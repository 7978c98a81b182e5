SPECIFICATION Spec
CONSTANTS
  Main = main
  Workers = {w1, w2}
  None = none
  Features = {"once", "once_blocks"}
  HostCreate = {TRUE}
  MaxCalls = 1
  MaxRuns = 1
CHECK_DEADLOCK FALSE
INVARIANTS
  OnceCompleted
