SPECIFICATION Spec
CONSTANTS
  Threads = {t1, t2}
  Spawners = {t1}
  Programs <- MCPrograms
  CapMin = 1
  CapMax = 2
  Barriers = 1
  MaxTasks = 3
  MaxGroups = 1
  MaxSpurious = 1
INVARIANTS
  TypeOK
  NoDangling
  DepsRespected
  BarrierComplete
  TiedWaits
  GroupJoinedDeferred
  NothingLeft
PROPERTY RegionEnds
CHECK_DEADLOCK FALSE
