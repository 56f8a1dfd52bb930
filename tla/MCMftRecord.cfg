SPECIFICATION Spec
CONSTANTS
  t1 = t1
  t2 = t2
  NoTask = NoTask
  Tasks <- MCTasks
  Extents <- MCExtents
  AttrList <- MCList
  DiskSeq <- MCSeq
INVARIANTS
  CountsBalanced
  ExtentsAlive
  
PROPERTY
  CtxRestored
