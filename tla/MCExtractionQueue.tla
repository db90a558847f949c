------------------------- MODULE MCExtractionQueue --------------------------
(* Three videos for a queue of two with a playback reserve of one, two web  *)
(* processes and one worker.                                                *)
EXTENDS ExtractionQueue, TLC

CONSTANTS j1, j2, j3, p1, p2

SomeJobs == {j1, j2, j3}
SomeProducers == {p1, p2}
NoOwners == {}
AllClients == SomeProducers \cup {Worker}
Symmetric == Permutations(SomeJobs) \cup Permutations(SomeProducers)
=============================================================================
