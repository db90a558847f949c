SPECIFICATION MCSpec
CONSTANTS
  p1 = p1
  p2 = p2
  r1 = r1
  r2 = r2
  r3 = r3
  None = None
  Procs <- TwoProcs
  Requests <- ThreeCalls
  Home <- Homes
  MaxFaults = 2
\* When all calls are answered, everything rests.
CHECK_DEADLOCK FALSE
INVARIANTS
  TypeOK
  LocalDedup
  OneExtraction
  SharedBeforeUnlocked
  CacheSafe
  
PROPERTIES
  EveryCallAnswered
