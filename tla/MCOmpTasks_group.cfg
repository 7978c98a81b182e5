SPECIFICATION Spec
CONSTANTS
  Threads = {t1, t2}
  Spawners = {t1}
  Programs <- MCGroupProgram
  CapMin = 1
  CapMax = 2
  Barriers = 1
  MaxTasks = 3
  MaxGroups = 1
  MaxSpurious = 0
INVARIANT GroupJoined
CHECK_DEADLOCK FALSE
