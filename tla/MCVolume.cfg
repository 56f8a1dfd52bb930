SPECIFICATION Spec
CONSTANTS
  v1 = v1
  v2 = v2
  Volumes <- MCVolumes
INVARIANTS
  IInv
  
  SystemFilesBalanced
PROPERTY
  MountEnds
