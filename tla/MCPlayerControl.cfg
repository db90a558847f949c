SPECIFICATION MCSpec
CONSTANTS
  MaxGen = 2
  MaxHolds = 1
  MaxSeeks = 2
  MaxDown = 1
\* A destroyed player, or one that used up the bounds, rests.
CHECK_DEADLOCK FALSE
INVARIANTS
  SessionSafe
  DashSafe
  DocumentSafe
PROPERTIES
  OutdatedCallIsInert
