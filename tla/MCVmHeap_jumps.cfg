SPECIFICATION SpecWithJumps
CONSTANTS
  Threads = {t1}
  Header = 1
  Sizes = {1}
  OtherKinds = {"ALLOCA"}
  Alignments = {}
  MarkRecorded = {TRUE}
  PoolSize = 8
  PoolSizeMax = 20
  MaxAllocs = 4
  MaxFrames = 1
  MaxBlocks = 2
INVARIANTS
  NoLiveOverwritten
