SPECIFICATION Spec
CONSTANTS
  r1 = r1
  r2 = r2
  Readers <- MCReaders
  NoReader = NoReader
  S = 6
  C = 2
  MaxSize = 20
  Files <- MCFiles
  Reads = 1
  MaxFaults = 1
INVARIANTS
  ReadIsRight
  PagesHeld
PROPERTY
  ReadEnds
CHECK_DEADLOCK FALSE
