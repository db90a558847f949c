SPECIFICATION MCSpec
CONSTANTS
  p1 = p1
  p2 = p2
  b1 = b1
  b2 = b2
  b3 = b3
  Tasks <- MCTasks
  BackgroundTasks <- MCBackgroundTasks
  MaxConcurrent = 2
  MaxQueue = 2
\* A destroyed player rests.
CHECK_DEADLOCK FALSE
INVARIANTS
  HlsSafe
  TypeOK
  SlotConservation
  NobodyWaitsForAFreeSlot
PROPERTIES
  NoOvertaking
  ImplementsSemaphore
  PlaybackIsServed
  PlaylistsGoForward
  HeldIsReleased
