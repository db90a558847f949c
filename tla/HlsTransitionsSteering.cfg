\* One refresh with content steering, one choice of the viewer.
SPECIFICATION Spec
CONSTANTS
  Videos = {v1, v2}
  Audios = {a1}
  Steering = TRUE
  MaxChains = 4
  MaxUser = 1
  MaxEvents = 1
\* A destroyed player rests.
CHECK_DEADLOCK FALSE
INVARIANTS
  NoStuckTransition
