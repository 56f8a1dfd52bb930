SPECIFICATION SpecEither
CONSTANTS
  Pids = {1, 2}
  Threads = {t1}
  Users = {u1, u2}
  MaxDone = 2
INVARIANTS
  LeftRunning
  
PROPERTY
  IsPeriodic
CHECK_DEADLOCK FALSE
