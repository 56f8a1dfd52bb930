SPECIFICATION Spec
CONSTANTS
  B = 3
  Room = 2
  MaxData = 6
  Sizes <- MCSizes
  Writes <- MCWrites
  Starts <- MCStarts
  Clusters <- MCClusters
  MaxOps = 2
  MaxFaults = 2
CHECK_DEADLOCK FALSE
INVARIANT CleanIsWritten
