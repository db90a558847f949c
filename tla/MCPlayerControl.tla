-------------------------- MODULE MCPlayerControl ---------------------------
(* The control state of the browser player.  The parts share no state:     *)
(* "network" is a session with outages, "seeking" one with seeks, "dash" the  *)
(* track switches of the DASH provider, and "ledger", "renditions",         *)
(* "failing" and "live" its segment ledger, "page" and "reloads" the page *)
(* around the player, "swap" and "durations" the pages of one document, and *)
(* "opening" and "superseding" a load until it begins, and overlapping ones. *)
EXTENDS PlayerSession

VARIABLES part, p, sb, left, l, holds, ct, budget, s, reloads, url, shown, seq,
          navs, head, reads, late, player, bar, streams, timers, overdue,
          gone, latest, pending, loads, element

dashTransitionsVars ==
  <<p, sb, left>>
segmentLedgerVars ==
  <<l, holds, ct, budget>>
playerPageVars ==
  <<s, reloads>>
pageSwapVars ==
  <<url, shown, seq, navs, head, reads, late, player, bar, streams, timers,
    overdue, gone>>
sourceOpeningVars ==
  <<latest, pending, loads, element>>

(* An outage and seeks are each looked at without the other, though not     *)
(* without the buttons of the page that seek a plain media URL.            *)
WithoutSeeks == Next /\ seek'.count = 0
WithoutOutages == Next /\ downs' = 0

(* One load meets every master playlist of two variants, overlapping loads   *)
(* meet one.                                                                 *)
AllMasters ==
  [capable : SUBSET {"v1", "v2"}, grouped : SUBSET {"v1", "v2"},
   sound : BOOLEAN, pathway : SUBSET {"v1", "v2"}]
OneMaster == {[capable |-> {"v1"}, grouped |-> {}, sound |-> FALSE,
               pathway |-> {}]}

Dash == INSTANCE DashTransitions WITH
  Videos <- {"v1", "v2"}, Audios <- {"a1", "a2"}, Periods <- {1},
  Clears <- {TRUE}, MaxTx <- 3, MaxUser <- 2, MaxSegments <- 2, MaxFail <- 1
Ledger == INSTANCE SegmentLedger WITH
  Reps <- 1, N <- 3, Goal <- 3, Behind <- 1, MaxConcurrent <- 2,
  Live <- FALSE, MaxUser <- 1, MaxSlow <- 1, MaxFail <- 0
Both == INSTANCE SegmentLedger WITH
  Reps <- 2, N <- 2, Goal <- 3, Behind <- 1, MaxConcurrent <- 2,
  Live <- FALSE, MaxUser <- 1, MaxSlow <- 0, MaxFail <- 0
Failing == INSTANCE SegmentLedger WITH
  Reps <- 2, N <- 2, Goal <- 3, Behind <- 1, MaxConcurrent <- 2,
  Live <- FALSE, MaxUser <- 0, MaxSlow <- 0, MaxFail <- 1
Live == INSTANCE SegmentLedger WITH
  Reps <- 1, N <- 2, Goal <- 3, Behind <- 1, MaxConcurrent <- 2,
  Live <- TRUE, MaxUser <- 1, MaxSlow <- 0, MaxFail <- 0
Page == INSTANCE PlayerPage WITH
  MaxLoads <- 2, ConnectLimit <- 2, Sockets <- {"x", "y"}, MaxReloads <- 0
Again == INSTANCE PlayerPage WITH
  MaxLoads <- 1, ConnectLimit <- 1, Sockets <- {"x", "y"}, MaxReloads <- 3
Swap == INSTANCE PageSwap WITH
  Pages <- {"home"}, Resources <- {"style"},
  Needs <- [place \in {"home", "downloads"} |-> {"style"}], Badged <- {},
  MaxNavs <- 3
Durations == INSTANCE PageSwap WITH
  Pages <- {"home"}, Resources <- {"style"},
  Needs <- [place \in {"home", "downloads"} |-> {}], Badged <- {"home"},
  MaxNavs <- 2
Opening == INSTANCE SourceOpening WITH
  MaxLoads <- 1, Variants <- {"v1", "v2"}, Offers <- AllMasters
Superseding == INSTANCE SourceOpening WITH
  MaxLoads <- 2, Variants <- {"v1"}, Offers <- OneMaster

(* Each part of the suite is a system of its own: the others rest.         *)
MCInit ==
  \/ /\ part = "network"
     /\ Init
     /\ Dash!Init
     /\ Ledger!Init
     /\ Page!Init /\ s.inline
     /\ Swap!Init /\ url = "home"
     /\ Opening!Init
  \/ /\ part = "seeking"
     /\ Init
     /\ Dash!Init
     /\ Ledger!Init
     /\ Page!Init /\ s.inline
     /\ Swap!Init /\ url = "home"
     /\ Opening!Init
  \/ /\ part = "dash"
     /\ Dash!Init
     /\ Ledger!Init
     /\ Page!Init /\ s.inline
     /\ Swap!Init /\ url = "home"
     /\ Opening!Init
     /\ Init
  \/ /\ part = "ledger"
     /\ Ledger!Init
     /\ Dash!Init
     /\ Page!Init /\ s.inline
     /\ Swap!Init /\ url = "home"
     /\ Opening!Init
     /\ Init
  \/ /\ part = "renditions"
     /\ Both!Init
     /\ Dash!Init
     /\ Page!Init /\ s.inline
     /\ Swap!Init /\ url = "home"
     /\ Opening!Init
     /\ Init
  \/ /\ part = "failing"
     /\ Failing!Init
     /\ Dash!Init
     /\ Page!Init /\ s.inline
     /\ Swap!Init /\ url = "home"
     /\ Opening!Init
     /\ Init
  \/ /\ part = "live"
     /\ Live!Init
     /\ Dash!Init
     /\ Page!Init /\ s.inline
     /\ Swap!Init /\ url = "home"
     /\ Opening!Init
     /\ Init
  \/ /\ part = "page"
     /\ Page!Init
     /\ Dash!Init
     /\ Ledger!Init
     /\ Swap!Init /\ url = "home"
     /\ Opening!Init
     /\ Init
  \/ /\ part = "reloads"
     /\ Again!Init
     /\ Dash!Init
     /\ Ledger!Init
     /\ Swap!Init /\ url = "home"
     /\ Opening!Init
     /\ Init
  \/ /\ part = "swap"
     /\ Swap!Init
     /\ Dash!Init
     /\ Ledger!Init
     /\ Page!Init /\ s.inline
     /\ Opening!Init
     /\ Init
  \/ /\ part = "durations"
     /\ Durations!Init
     /\ Dash!Init
     /\ Ledger!Init
     /\ Page!Init /\ s.inline
     /\ Opening!Init
     /\ Init
  \/ /\ part = "opening"
     /\ Opening!Init
     /\ Dash!Init
     /\ Ledger!Init
     /\ Page!Init /\ s.inline
     /\ Swap!Init /\ url = "home"
     /\ Init
  \/ /\ part = "superseding"
     /\ Superseding!Init
     /\ Dash!Init
     /\ Ledger!Init
     /\ Page!Init /\ s.inline
     /\ Swap!Init /\ url = "home"
     /\ Init
MCNext ==
  /\ UNCHANGED part
  /\ \/ /\ part = "network" /\ WithoutSeeks
        /\ UNCHANGED <<dashTransitionsVars, segmentLedgerVars,
                     playerPageVars, pageSwapVars, sourceOpeningVars>>
     \/ /\ part = "seeking" /\ WithoutOutages
        /\ UNCHANGED <<dashTransitionsVars, segmentLedgerVars,
                     playerPageVars, pageSwapVars, sourceOpeningVars>>
     \/ /\ part = "dash" /\ Dash!Next
        /\ UNCHANGED <<segmentLedgerVars, playerPageVars, pageSwapVars,
                     sourceOpeningVars, sessionVars>>
     \/ /\ part = "ledger" /\ Ledger!Next
        /\ UNCHANGED <<dashTransitionsVars, playerPageVars, pageSwapVars,
                     sourceOpeningVars, sessionVars>>
     \/ /\ part = "renditions" /\ Both!Next
        /\ UNCHANGED <<dashTransitionsVars, playerPageVars, pageSwapVars,
                     sourceOpeningVars, sessionVars>>
     \/ /\ part = "failing" /\ Failing!Next
        /\ UNCHANGED <<dashTransitionsVars, playerPageVars, pageSwapVars,
                     sourceOpeningVars, sessionVars>>
     \/ /\ part = "live" /\ Live!Next
        /\ UNCHANGED <<dashTransitionsVars, playerPageVars, pageSwapVars,
                     sourceOpeningVars, sessionVars>>
     \/ /\ part = "page" /\ Page!Next
        /\ UNCHANGED <<dashTransitionsVars, segmentLedgerVars,
                     pageSwapVars, sourceOpeningVars, sessionVars>>
     \/ /\ part = "reloads" /\ Again!Next
        /\ UNCHANGED <<dashTransitionsVars, segmentLedgerVars,
                     pageSwapVars, sourceOpeningVars, sessionVars>>
     \/ /\ part = "swap" /\ Swap!Next
        /\ UNCHANGED <<dashTransitionsVars, segmentLedgerVars,
                     playerPageVars, sourceOpeningVars, sessionVars>>
     \/ /\ part = "durations" /\ Durations!Next
        /\ UNCHANGED <<dashTransitionsVars, segmentLedgerVars,
                     playerPageVars, sourceOpeningVars, sessionVars>>
     \/ /\ part = "opening" /\ Opening!Next
        /\ UNCHANGED <<dashTransitionsVars, segmentLedgerVars,
                     playerPageVars, pageSwapVars, sessionVars>>
     \/ /\ part = "superseding" /\ Superseding!Next
        /\ UNCHANGED <<dashTransitionsVars, segmentLedgerVars,
                     playerPageVars, pageSwapVars, sessionVars>>
MCVars == <<dashTransitionsVars, segmentLedgerVars, playerPageVars,
            pageSwapVars, sourceOpeningVars, sessionVars, part>>
MCSpec ==
  /\ MCInit /\ [][MCNext]_MCVars

(* See DashTransitions: media meets its own initialization segment, and a  *)
(* viewer's choice is neither lost nor left waiting.  See SegmentLedger:   *)
(* what it calls appended or busy is, and what is missing at the playhead  *)
(* is fetched.  See SourceOpening: what a load opens, that it gives up only  *)
(* when it has asked for everything, and where it begins.                    *)
DashSafe ==
  IF part = "live" THEN Live!NoHole
  ELSE IF part = "renditions" THEN Both!LedgerTruthful
  ELSE IF part = "failing" THEN Failing!LedgerTruthful
  ELSE IF part = "opening" THEN Opening!SourceSafe
  ELSE IF part = "superseding" THEN Superseding!SourceSafe
  ELSE part \in {"dash", "ledger"} =>
    Dash!DashSafe /\ Ledger!TypeOK /\ Ledger!LedgerTruthful
(* See PlayerPage: a page that shows it is loading is, one load at a time,  *)
(* and what it shows as ready is.  See PageSwap: when all is quiet the     *)
(* page shown is the one of the address.                                   *)
DocumentSafe ==
  IF part = "page" THEN Page!PlayerPageSafe
  ELSE IF part = "reloads" THEN Again!PlayerPageSafe
  ELSE IF part = "durations" THEN Durations!PageSwapSafe
  ELSE part = "swap" => Swap!PageSwapSafe
=============================================================================
