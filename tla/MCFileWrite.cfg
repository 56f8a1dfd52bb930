SPECIFICATION Spec
CONSTANTS
  B = 3
  Room = 2
  MaxData = 6
  Sizes <- MCSizes
  Writes <- MCWrites
  Starts <- MCStarts
  Clusters <- MCClusters
  MaxOps = 2
  MaxFaults = 2
INVARIANTS
  
  
  
  ClustersAccounted
  ResidentInStep
CHECK_DEADLOCK FALSE
