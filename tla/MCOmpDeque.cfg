SPECIFICATION Spec
CONSTANTS
  Owner = o
  Thieves = {t1, t2}
  Ring0 = 1
  MaxTasks = 4
INVARIANTS
  TypeOK
  RunsOnce
PROPERTIES
  PoolSpec
  StealEnds
CHECK_DEADLOCK FALSE
