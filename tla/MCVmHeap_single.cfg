SPECIFICATION Spec
CONSTANTS
  Threads = {t1}
  Header = 1
  Sizes = {1}
  OtherKinds = {"ALLOCA", "USER"}
  Alignments = {}
  MarkRecorded = {TRUE, FALSE}
  PoolSize = 3
  PoolSizeMax = 5
  MaxAllocs = 3
  MaxFrames = 2
  MaxBlocks = 2
INVARIANTS
  HeapInv
  LiveTracked
  HeapBounds
  QuiescentReclaimed
  MarksOrdered
  MarksProtectLive
