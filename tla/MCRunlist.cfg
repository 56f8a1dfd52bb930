SPECIFICATION Spec
CONSTANTS
  N = 5
  MinFirst = 2
INVARIANT
  WellFormed
PROPERTY
  Implements
