\* Two files whose reservations live in Redis.
SPECIFICATION Spec
CONSTANTS
  None = None
  Files = {f1, f2}
  MaxSize = 2
  Limit = 3
  Clustered = TRUE
  Reconciling = FALSE
  MaxFaults = 0
INVARIANTS
  LibraryWithinLimit
