---------------------------- MODULE ServerParts ----------------------------
(* Parts of a web process beside extractions and downloads: the flights of  *)
(* media ranges, a lane of the upstream parser, the slots that are leased   *)
(* in Redis and the pages of a user's Today feed.  Each is a system of its  *)
(* own; one that is left out has empty variables.                           *)

CONSTANTS Viewers, Ranges, RangeOf, MaxFlights, Budget, HotThreshold, MaxBad,
          Tasks, Unsendable, MaxPending, MaxThreads,
          Holders, Places, PlaceOf, Kinds, MaxLeases, MaxAsking, MaxTroubles,
          Web, Visits, MaxData, MaxVersion, MaxClock

VARIABLES req, flights, given, bytes, hot, stored, bad,
          lane, threads, outcome, overdue,
          leaseKind, leaseCall, leasePipe, leases, leasesOver, leaseFaults,
          todayData, todayBorn, todayShared, todayOwn, todayRefresh,
          todayLate, todayHolder, todayEdit, todayCall, todayPublish,
          todayNow, todayFloor, todayRaced

Segments == INSTANCE SegmentFlights WITH Requests <- Viewers
Parser == INSTANCE UpstreamParser WITH late <- overdue
Leases == INSTANCE LeasedSlots WITH
  Callers <- Holders, Procs <- Places, Home <- PlaceOf, Limit <- MaxLeases,
  MaxWaiters <- MaxAsking, MaxFaults <- MaxTroubles, kind <- leaseKind,
  call <- leaseCall, pipe <- leasePipe, over <- leasesOver,
  left <- leaseFaults
Today == INSTANCE TodayPages WITH Calls <- Visits,
  data <- todayData, born <- todayBorn, shared <- todayShared,
  own <- todayOwn, refresh <- todayRefresh, late <- todayLate,
  holder <- todayHolder, edit <- todayEdit, call <- todayCall,
  publish <- todayPublish, now <- todayNow, floor <- todayFloor,
  raced <- todayRaced

(* See UpstreamParser: one answer for each task, and no lane stands still.  *)
ParserSafe == outcome # <<>> => Parser!ParserSafe

(* See SegmentFlights: followers are not stranded, and the budget is exact. *)
(* See LeasedSlots: never too many leases, no task twice, no removed lease  *)
(* that comes back, and with yt-dlp none that nobody knows of.              *)
FlightsSafe ==
  /\ req # <<>> => Segments!FlightsSafe
  /\ leaseCall # <<>> => Leases!TypeOK /\ Leases!LeasesSafe

(* See TodayPages: no old page under a new version, and no change of the    *)
(* feeds that no version stands for.                                        *)
TodaySafe == todayOwn # <<>> => Today!TodaySafe
=============================================================================
