--------------------------- MODULE SegmentFlights ---------------------------
(* Requests of one web process for small media ranges.  The first one for a *)
(* range leads: it streams from the CDN and collects a copy for those that  *)
(* came later, and for Redis when the range is asked for often.             *)
(*                                                                          *)
(* req is what each request is doing, flights the map of flights by range,  *)
(* given how each flight ended, bytes the bytes reserved for copies, hot    *)
(* the count of requests by range, stored what Redis holds of each range,   *)
(* bad how often the CDN and the clients may still fail.                    *)
EXTENDS Integers, FiniteSets, FiniteSetsExt

CONSTANTS Requests, Ranges,
          RangeOf,    \* what each request asks for
          MaxFlights, \* MAX_SEGMENT_FLIGHTS
          Budget,     \* COLLECTION_BUDGET_BYTES, in segments
          HotThreshold, MaxBad

VARIABLES req, flights, given, bytes, hot, stored, bad
vars == <<req, flights, given, bytes, hot, stored, bad>>

NoFlight == 0
Idle == [at |-> "new", flight |-> NoFlight, leads |-> FALSE, reserved |-> FALSE,
         caches |-> FALSE, joined |-> FALSE]

(* A flight bears the name of the request that leads it.                    *)
Init == /\ req = [r \in Requests |-> Idle]
        /\ flights = [k \in Ranges |-> NoFlight]
        /\ given = [r \in Requests |-> "none"]
        /\ bytes = 0 /\ hot = [k \in Ranges |-> 0]
        /\ stored = {} /\ bad = MaxBad

Is(r, at) == req[r].at = at
Goes(r, at) == req' = [req EXCEPT ![r].at = at]

(* The flight that r leads ends: unless the map no longer holds it.         *)
Complete_Fault(r, payload) == (* Fault: whichever flight is in the map. *)
  LET f == flights[RangeOf[r]]
  IN IF f = NoFlight \/ ~req[r].leads THEN UNCHANGED <<flights, given>>
     ELSE /\ flights' = [flights EXCEPT ![RangeOf[r]] = NoFlight]
          /\ given' = [given EXCEPT ![f] = payload]
Complete(r, payload) ==
  IF flights[RangeOf[r]] # r THEN UNCHANGED <<flights, given>>
  ELSE /\ flights' = [flights EXCEPT ![RangeOf[r]] = NoFlight]
       /\ given' = [given EXCEPT ![r] = payload]

Release_Fault(r) == bytes' = bytes (* Fault: the reservation is kept. *)
Release(r) == bytes' = bytes - IF req[r].reserved THEN 1 ELSE 0

-----------------------------------------------------------------------------
(* Redis is asked when the range has been seen before.                      *)
Arrive == \E r \in Requests :
  /\ Is(r, "new")
  /\ Goes(r, IF hot[RangeOf[r]] < HotThreshold - 1 THEN "joins" ELSE "checks")
  /\ UNCHANGED <<flights, given, bytes, hot, stored, bad>>

GetSegment == \E r \in Requests :
  /\ Is(r, "checks")
  /\ Goes(r, IF RangeOf[r] \in stored THEN "served" ELSE "joins")
  /\ UNCHANGED <<flights, given, bytes, hot, stored, bad>>

JoinSegmentFlight == \E r \in Requests :
  LET k == RangeOf[r]
      f == flights[k]
      full == Cardinality({o \in Ranges : flights[o] # NoFlight}) >= MaxFlights
      x == [req[r] EXCEPT !.joined = TRUE]
  IN /\ Is(r, "joins")
     /\ UNCHANGED <<given, bytes, stored, bad>>
     /\ IF f # NoFlight
        THEN /\ req' = [req EXCEPT ![r] = [x EXCEPT !.at = "waits",
                                                    !.flight = f]]
             /\ hot' = [hot EXCEPT ![k] = @ + 1] /\ UNCHANGED flights
        ELSE IF full
        THEN Goes(r, "fetches") /\ UNCHANGED <<flights, hot>>
        ELSE /\ req' = [req EXCEPT ![r] = [x EXCEPT !.at = "fetches",
                                                    !.leads = TRUE]]
             /\ hot' = [hot EXCEPT ![k] = @ + 1]
             /\ flights' = [flights EXCEPT ![k] = r]

FlightTimesOut == \E k \in Ranges :
  /\ flights[k] # NoFlight /\ bad > 0 /\ bad' = bad - 1
  /\ given' = [given EXCEPT ![flights[k]] = "late"]
  /\ flights' = [flights EXCEPT ![k] = NoFlight]
  /\ UNCHANGED <<req, bytes, hot, stored>>

FollowerGoesOn == \E r \in Requests :
  /\ Is(r, "waits") /\ given[req[r].flight] # "none"
  /\ Goes(r, IF given[req[r].flight] = "payload" THEN "served" ELSE "fetches")
  /\ UNCHANGED <<flights, given, bytes, hot, stored, bad>>

-----------------------------------------------------------------------------
(* The CDN answers, possibly after the URL was refreshed.  A copy is made   *)
(* for followers and for Redis, if there is room for it.                    *)

UpstreamAnswers == \E r \in Requests, small \in BOOLEAN :
  LET k == RangeOf[r]
      often(count) == count >= HotThreshold
      caches == small /\ often(IF req[r].joined THEN hot[k] ELSE hot[k] + 1)
      room == bytes < Budget
      collects == small /\ (req[r].leads \/ caches) /\ room
  IN /\ Is(r, "fetches")
     /\ small \/ bad > 0
     /\ bad' = bad - IF small THEN 0 ELSE 1
     /\ hot' = IF small /\ ~req[r].joined THEN [hot EXCEPT ![k] = @ + 1]
               ELSE hot
     /\ req' = [req EXCEPT ![r] = [@ EXCEPT !.at = "streams",
                                     !.caches = caches, !.reserved = collects]]
     /\ bytes' = bytes + IF collects THEN 1 ELSE 0
     /\ IF collects THEN UNCHANGED <<flights, given>> ELSE Complete(r, "null")
     /\ UNCHANGED stored

(* The body has ended, and with it the pipeline.  A copy that is not whole  *)
(* is not given to anybody.                                                 *)
Flush_Fault(r, whole) == (* Fault: it is. *)
  IF req[r].reserved THEN Complete(r, IF whole THEN "payload" ELSE "part")
  ELSE UNCHANGED <<flights, given>>
Flush(r, whole) ==
  IF req[r].reserved /\ whole THEN Complete(r, "payload")
  ELSE Complete(r, "null")

StreamEnds == \E r \in Requests, whole \in BOOLEAN :
  /\ Is(r, "streams") /\ (whole \/ bad > 0)
  /\ bad' = bad - IF whole THEN 0 ELSE 1
  /\ Flush(r, whole)
  /\ IF req[r].reserved /\ req[r].caches /\ whole
     THEN Goes(r, "stores") /\ UNCHANGED bytes
     ELSE Goes(r, "served") /\ Release(r)
  /\ UNCHANGED <<hot, stored>>

(* The client goes away, or the CDN fails.                                  *)
RequestFails == \E r \in Requests :
  /\ req[r].at \in {"fetches", "streams"}
  /\ bad > 0 /\ bad' = bad - 1
  /\ Goes(r, "failed") /\ Release(r) /\ Complete(r, "null")
  /\ UNCHANGED <<hot, stored>>

(* Redis takes the copy, or its budget is used up, or there is an error.    *)
StoreSegment == \E r \in Requests, ok \in BOOLEAN :
  /\ Is(r, "stores")
  /\ Goes(r, "served") /\ Release(r)
  /\ stored' = IF ok THEN stored \cup {RangeOf[r]} ELSE stored
  /\ UNCHANGED <<flights, given, hot, bad>>

Next == \/ Arrive \/ GetSegment \/ JoinSegmentFlight \/ FlightTimesOut
        \/ FollowerGoesOn \/ UpstreamAnswers \/ StreamEnds \/ RequestFails
        \/ StoreSegment

Spec == Init /\ [][Next]_vars

-----------------------------------------------------------------------------
(* Who waits for a flight waits for one that somebody still leads, or that  *)
(* has ended; nobody is left waiting by a leader that failed.               *)
NoStrandedFollower ==
  \A r \in Requests : Is(r, "waits") /\ given[req[r].flight] = "none" =>
    /\ flights[RangeOf[r]] = req[r].flight
    /\ req[req[r].flight].at \in {"fetches", "streams"}

(* Followers are not sent away while their own leader is at work: an        *)
(* earlier leader of the range, whose time was up, may end only now.        *)
FlightIsItsLeaders ==
  \A r \in Requests :
    given[r] = "null" =>
      ~Is(r, "fetches") /\ ~(Is(r, "streams") /\ req[r].reserved)

(* What is reserved for copies is what requests hold, within the budget.    *)
BudgetExact ==
  /\ bytes = Cardinality({r \in Requests : req[r].reserved
                            /\ req[r].at \in {"streams", "stores"}})
  /\ bytes <= Budget

(* Only whole segments are shared.                                          *)
WholeSegments == \A r \in Requests : given[r] # "part"

FlightsSafe ==
  NoStrandedFollower /\ FlightIsItsLeaders /\ BudgetExact /\ WholeSegments
=============================================================================
