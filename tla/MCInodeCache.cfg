SPECIFICATION Spec
CONSTANTS
  Tasks = {t1, t2, t3}
  Slots = {s1, s2, s3, s4}
  None = None
  base = base
  bitmap = bitmap
  stream = stream
  index = index
  sdhBitmap = sdhBitmap
  Base = base
  Shapes <- MCShapes
  Named = {stream, index}
  FreshCounts = {0, 1}
SYMMETRY MCSymmetry
INVARIANTS
  RefsBalanced
  
  WaitsAcyclic
CHECK_DEADLOCK FALSE
