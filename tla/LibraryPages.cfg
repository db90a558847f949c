\* Three downloads in Postgres, whose times are finer than a token's.
SPECIFICATION Spec
CONSTANTS
  Ids = {1, 2, 3}
  List = "added"
  Synchronous = FALSE
  Grain = 2
  Limit = 2
  MaxClock = 2
  MaxChanges = 1
INVARIANTS
  PagesSafe
