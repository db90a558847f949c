SPECIFICATION Spec
CONSTANTS
  j1 = j1
  j2 = j2
  j3 = j3
  p1 = p1
  p2 = p2
  Worker = Worker
  None = None
  NoOwner = NoOwner
  Jobs <- SomeJobs
  Producers <- SomeProducers
  Clients <- AllClients
  Owners <- NoOwners
  MaxJobs = 2
  MaxBackground = 1
  MaxOwner = 1
  Exclusive = TRUE
  MaxFaults = 1
SYMMETRY Symmetric
INVARIANTS
  TypeOK
  Capped
  NoLeakedLease
  
