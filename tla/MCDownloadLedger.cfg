SPECIFICATION MCSpec
CONSTANTS
  f1 = f1
  f2 = f2
  f3 = f3
  None = None
  Files <- ThreeFiles
  MaxSize = 2
  Limit = 3
  Clustered = FALSE
  Reconciling = FALSE
  MaxFaults = 1
\* Files that no manifest lists and no scan running: the library may stay full.
CHECK_DEADLOCK FALSE

  
PROPERTIES
  DriftHeals
