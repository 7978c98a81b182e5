SPECIFICATION FairSpec
CONSTANTS
  Main = main
  Workers = {w1, w2}
  None = none
  Features = {"dtor_blocks", "nested", "once"}
  HostCreate = {TRUE, FALSE}
  MaxCalls = 1
  MaxRuns = 1
CHECK_DEADLOCK FALSE
INVARIANTS
  TypeOK
  OwnContext
  NoUseAfterFree
  OnceCompleted
  ThreadsInv
PROPERTIES
  EveryThreadEnds
