SPECIFICATION MCSpec
CONSTANTS
  p1 = p1
  k1 = k1
  k2 = k2
  k3 = k3
  None = None
  Procs <- OneProc
  Keys <- ThreeKeys
  MaxPending = 2
  Concurrency = 2
  MaxUpdates = 4
  MaxFaults = 1
SYMMETRY Symmetric
\* When every update is written, everything rests.
CHECK_DEADLOCK FALSE
INVARIANTS
  TypeOK
  UpdatesKept
  NothingLost
  
  
  
  
PROPERTIES
  NewestWins
