--------------------------- MODULE MCDownloadJob ----------------------------
(* The video and the audio format of one video and two web processes.  In  *)
(* the part "races" both request it, as they like; in "faults" one of them *)
(* requests and deletes it, the worker may die, and an earlier download    *)
(* may have left files.  The other parts are what web processes keep or    *)
(* share besides it: "today" the pages of the Today feed, "parser" a lane  *)
(* of the upstream parser, "segments" the flights of media ranges and      *)
(* "leases" the slots in Redis.                                            *)
EXTENDS DownloadJob, ServerParts, TLC

CONSTANTS p1, p2, video, audio

VARIABLE part

todayPagesVars ==
  <<todayData, todayBorn, todayShared, todayOwn, todayRefresh, todayLate,
    todayHolder, todayEdit, todayCall, todayPublish, todayNow, todayFloor,
    todayRaced>>
upstreamParserVars ==
  <<lane, threads, outcome, overdue>>
segmentFlightsVars ==
  <<req, flights, given, bytes, hot, stored, bad>>
leasedSlotsVars ==
  <<leaseKind, leaseCall, leasePipe, leases, leasesOver, leaseFaults>>

(* A part that has no use for these variables leaves them empty.           *)
NoTodayPages ==
  /\ todayData = <<>> /\ todayBorn = <<>> /\ todayShared = <<>>
  /\ todayOwn = <<>> /\ todayRefresh = <<>> /\ todayLate = <<>>
  /\ todayHolder = <<>> /\ todayEdit = <<>> /\ todayCall = <<>>
  /\ todayPublish = <<>> /\ todayNow = <<>> /\ todayFloor = <<>>
  /\ todayRaced = <<>>
NoUpstreamParser ==
  /\ lane = <<>> /\ threads = <<>> /\ outcome = <<>> /\ overdue = <<>>
NoSegmentFlights ==
  /\ req = <<>> /\ flights = <<>> /\ given = <<>> /\ bytes = <<>>
  /\ hot = <<>> /\ stored = <<>> /\ bad = <<>>
NoLeasedSlots ==
  /\ leaseKind = <<>> /\ leaseCall = <<>> /\ leasePipe = <<>>
  /\ leases = <<>> /\ leasesOver = <<>> /\ leaseFaults = <<>>

OneProc == {p1}
TwoProcs == {p1, p2}
MCFormats == {video, audio}
Some == (SUBSET MCFormats) \ {MCFormats}
Symmetric == Permutations(TwoProcs) \cup Permutations(MCFormats)

ThreeViewers == {1, 2, 3}
TwoRanges == {1, 2}
RangesAsked == <<1, 1, 2>>
FourTasks == {1, 2, 3, 4}
TooLarge == {3}
TwoHolders == {1, 2}
OnePlace == {1}
OneProcess == <<1, 1>>
Redises == {"ytdlp", "youtube", "rss", "worker"}


Racing ==
  \/ \E p \in Procs : RequestStep(p)
  \/ WorkerStep \/ Stalled \/ Retired \/ PruneStale \/ SweepParts

Untouched(p) == At(p, "idle") /\ cache[p] = NoEntry

Failing ==
  \/ \E p \in Procs :
       /\ \A q \in Procs \ {p} : Untouched(q)
       /\ RequestStep(p) \/ DeleteStep(p)
  \/ WorkerStep \/ Crash \/ Stalled \/ Retired \/ PruneStale \/ SweepParts

(* The calls are alike, so the first one arrives first; and one process at *)
(* a time changes the subscriptions (bound: TodayIsSafe has no such one).  *)
ViewingToday ==
  /\ Today!Next
  /\ \E p \in Web : todayEdit'[p] = "no"
  /\ todayCall'[1].pc = "no" => todayCall'[2].pc = "no"


(* Each part of the suite is a system of its own: the others rest.         *)
MCInit ==
  \/ /\ part = "races"
     /\ Init /\ files = {}
     /\ NoTodayPages
     /\ NoUpstreamParser
     /\ NoSegmentFlights
     /\ NoLeasedSlots
  \/ /\ part = "faults"
     /\ Init
     /\ NoTodayPages
     /\ NoUpstreamParser
     /\ NoSegmentFlights
     /\ NoLeasedSlots
  \/ /\ part = "today"
     /\ Today!Init
     /\ NoUpstreamParser
     /\ NoSegmentFlights
     /\ NoLeasedSlots
     /\ Init /\ files = {}
  \/ /\ part = "parser"
     /\ Parser!Init
     /\ NoTodayPages
     /\ NoSegmentFlights
     /\ NoLeasedSlots
     /\ Init /\ files = {}
  \/ /\ part = "segments"
     /\ Segments!Init
     /\ NoTodayPages
     /\ NoUpstreamParser
     /\ NoLeasedSlots
     /\ Init /\ files = {}
  \/ /\ part = "leases"
     /\ Leases!Init
     /\ NoTodayPages
     /\ NoUpstreamParser
     /\ NoSegmentFlights
     /\ Init /\ files = {}
MCNext ==
  /\ UNCHANGED part
  /\ \/ /\ part = "races" /\ Racing
        /\ UNCHANGED <<todayPagesVars, upstreamParserVars,
                     segmentFlightsVars, leasedSlotsVars>>
     \/ /\ part = "faults" /\ Failing
        /\ UNCHANGED <<todayPagesVars, upstreamParserVars,
                     segmentFlightsVars, leasedSlotsVars>>
     \/ /\ part = "today" /\ ViewingToday
        /\ UNCHANGED <<upstreamParserVars, segmentFlightsVars,
                     leasedSlotsVars, vars>>
     \/ /\ part = "parser" /\ Parser!Next
        /\ UNCHANGED <<todayPagesVars, segmentFlightsVars, leasedSlotsVars,
                     vars>>
     \/ /\ part = "segments" /\ Segments!Next
        /\ UNCHANGED <<todayPagesVars, upstreamParserVars, leasedSlotsVars,
                     vars>>
     \/ /\ part = "leases" /\ Leases!Next
        /\ UNCHANGED <<todayPagesVars, upstreamParserVars,
                     segmentFlightsVars, vars>>
     \* The others may rest; the job always has something to do.
     \/ /\ part \notin {"races", "faults"}
        /\ UNCHANGED <<todayPagesVars, upstreamParserVars,
                                  segmentFlightsVars, leasedSlotsVars, vars>>
MCVars == <<todayPagesVars, upstreamParserVars, segmentFlightsVars,
            leasedSlotsVars, vars, part>>
MCSpec ==
  /\ MCInit /\ [][MCNext]_MCVars

=============================================================================
