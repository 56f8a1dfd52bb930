SPECIFICATION Spec
CONSTANTS
  t1 = t1
  t2 = t2
  Tasks <- MCTasks
  NoTask = NoTask
  Reserved = 2
  ByteBits = 2
  PageRecords <- MCPageRecords
  BmpStep = 2
  BmpCluster = 4
  MftCluster = 1
  Chunk = 2
  Limit = 5
  Clusters = 7
  MaxFrees = 1
  Starts <- MCStarts
SYMMETRY Symmetry
INVARIANTS
  FullIsFull
  OneOwner
  ConsistentOrFlagged
PROPERTY
  RefsUnique
CHECK_DEADLOCK FALSE
