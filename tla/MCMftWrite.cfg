SPECIFICATION Spec
CONSTANTS
  m1 = m1
  Modifiers <- MCModifiers
  InodeWriter = iw
  PageWriter = pw
  NoTask = NoTask
  NrRecords = 2
  NrBlocks = 2
  MirrorSize = 1
  MaxVersion <- MCVersions
INVARIANTS
  FixupsHidden
  NothingLost
  
  WaitsAcyclic
CHECK_DEADLOCK FALSE
