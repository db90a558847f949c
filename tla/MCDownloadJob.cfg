SPECIFICATION MCSpec
CONSTANTS
  p1 = p1
  p2 = p2
  video = video
  audio = audio
  NoEntry = NoEntry
  Procs <- TwoProcs
  Deleters <- TwoProcs
  Formats <- MCFormats
  Leftovers <- Some
  MaxCrashes = 2
  MaxStalls = 1
  Viewers <- ThreeViewers
  Ranges <- TwoRanges
  RangeOf <- RangesAsked
  MaxFlights = 1
  Budget = 1
  HotThreshold = 2
  MaxBad = 2
  Tasks <- FourTasks
  Unsendable <- TooLarge
  MaxPending = 3
  MaxThreads = 4
  Holders <- TwoHolders
  Places <- OnePlace
  PlaceOf <- OneProcess
  Kinds <- Redises
  MaxLeases = 1
  MaxAsking = 1
  MaxTroubles = 2
  Web <- TwoProcs
  Visits = {1, 2}
  MaxData = 2
  MaxVersion = 2
  MaxClock = 2
SYMMETRY Symmetric
INVARIANTS
  
  ParserSafe
  FlightsSafe
  
PROPERTIES
  CompletionIsTrue
  CancelledJobNeverStarts
