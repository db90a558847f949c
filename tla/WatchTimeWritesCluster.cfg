\* One video whose requests reach two processes.
SPECIFICATION Spec
CONSTANTS
  None = None
  Procs = {p1, p2}
  Keys = {k1}
  MaxPending = 2
  Concurrency = 1
  MaxUpdates = 3
  MaxFaults = 0
INVARIANTS
  CompletionStays
