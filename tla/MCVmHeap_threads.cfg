SPECIFICATION Spec
CONSTANTS
  Threads = {t1, t2}
  Header = 1
  Sizes = {1}
  OtherKinds = {}
  Alignments = {3}
  MarkRecorded = {TRUE, FALSE}
  PoolSize = 6
  PoolSizeMax = 6
  MaxAllocs = 3
  MaxFrames = 1
  MaxBlocks = 1
SYMMETRY Symmetry
INVARIANTS
  TypeOK
  NoLiveOverwritten
  SortedAllocs
