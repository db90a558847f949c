---------------------------- MODULE MCLocalSlots ----------------------------
(* Two slots are too few for the tasks, and the queue too short for the    *)
(* rest: hand-over, queueing by priority and refusal all happen.  In the   *)
(* part "held" the browser's player waits for a server that is down, in     *)
(* "choices" and "refreshes" its HLS provider changes renditions, in        *)
(* "parts" and "restarts" it loads live playlists again.                    *)
EXTENDS LocalSlots, TLC

CONSTANTS p1, p2, b1, b2, b3

VARIABLES part, gen, state, recovering, serverDown, destroyed, txn, termGen,
          provider, seek, call, req, probe, refresh, downs, readies,
          terminals, p, left, playlistSrv, playlistTrack, playlistGot,
          playlistLeft, playlistPlaced

playerSessionVars ==
  <<gen, state, recovering, serverDown, destroyed, txn, termGen, provider,
    seek, call, req, probe, refresh, downs, readies, terminals>>
hlsTransitionsVars ==
  <<p, left>>
hlsPlaylistVars ==
  <<playlistSrv, playlistTrack, playlistGot, playlistLeft, playlistPlaced>>

MCTasks == {p1, p2, b1, b2, b3}
MCBackgroundTasks == {b1, b2, b3}

Net == INSTANCE PlayerSession WITH
  MaxGen <- 1, MaxHolds <- 2, MaxSeeks <- 0, MaxDown <- 2
Chosen == INSTANCE HlsTransitions WITH
  Videos <- {"v1", "v2"}, Audios <- {"a1", "a2"}, Steering <- TRUE,
  MaxChains <- 5, MaxUser <- 2, MaxEvents <- 1
Refreshed == INSTANCE HlsTransitions WITH
  Videos <- {"v1", "v2"}, Audios <- {"a1", "a2"}, Steering <- TRUE,
  MaxChains <- 5, MaxUser <- 1, MaxEvents <- 2
Parts == INSTANCE HlsPlaylist WITH
  Tracks <- {"video"}, PartsPer <- 2, Window <- 2, StartAt <- 4,
  MaxOld <- 5, MaxNew <- 0, Lag <- 1, MaxFlights <- 2, MaxOdd <- 1,
  srv <- playlistSrv, track <- playlistTrack, got <- playlistGot,
  left <- playlistLeft, placed <- playlistPlaced
Restarts == INSTANCE HlsPlaylist WITH
  Tracks <- {"video", "audio"}, PartsPer <- 1, Window <- 2, StartAt <- 4,
  MaxOld <- 5, MaxNew <- 3, Lag <- 2, MaxFlights <- 0, MaxOdd <- 0,
  srv <- playlistSrv, track <- playlistTrack, got <- playlistGot,
  left <- playlistLeft, placed <- playlistPlaced

(* Each part of the suite is a system of its own: the others rest.         *)
MCInit ==
  \/ /\ part = "slots"
     /\ Init
     /\ Net!Init
     /\ Chosen!Init
     /\ Parts!Init
  \/ /\ part = "held"
     /\ Net!Init
     /\ Chosen!Init
     /\ Parts!Init
     /\ Init
  \/ /\ part = "choices"
     /\ Chosen!Init
     /\ Net!Init
     /\ Parts!Init
     /\ Init
  \/ /\ part = "refreshes"
     /\ Refreshed!Init
     /\ Net!Init
     /\ Parts!Init
     /\ Init
  \/ /\ part = "parts"
     /\ Parts!Init
     /\ Net!Init
     /\ Chosen!Init
     /\ Init
  \/ /\ part = "restarts"
     /\ Restarts!Init
     /\ Net!Init
     /\ Chosen!Init
     /\ Init
MCNext ==
  /\ UNCHANGED part
  /\ \/ /\ part = "slots" /\ Next
        /\ UNCHANGED <<playerSessionVars, hlsTransitionsVars,
                     hlsPlaylistVars>>
     \/ /\ part = "held" /\ Net!Next
        /\ UNCHANGED <<hlsTransitionsVars, hlsPlaylistVars, vars>>
     \/ /\ part = "choices" /\ Chosen!Next
        /\ UNCHANGED <<playerSessionVars, hlsPlaylistVars, vars>>
     \/ /\ part = "refreshes" /\ Refreshed!Next
        /\ UNCHANGED <<playerSessionVars, hlsPlaylistVars, vars>>
     \/ /\ part = "parts" /\ Parts!Next
        /\ UNCHANGED <<playerSessionVars, hlsTransitionsVars, vars>>
     \/ /\ part = "restarts" /\ Restarts!Next
        /\ UNCHANGED <<playerSessionVars, hlsTransitionsVars, vars>>
MCVars == <<playerSessionVars, hlsTransitionsVars, hlsPlaylistVars, vars,
            part>>
StepIn(name, A, rest) ==
  part = name /\ A /\ UNCHANGED <<part, rest>>
MCSpec ==
  /\ MCInit /\ [][MCNext]_MCVars
  /\ \A t \in Tasks : WF_MCVars(
       StepIn("slots", Resume(t),
              <<playerSessionVars, hlsTransitionsVars, hlsPlaylistVars>>))
  /\ \A t \in Tasks : WF_MCVars(
       StepIn("slots", Finish(t),
              <<playerSessionVars, hlsTransitionsVars, hlsPlaylistVars>>))
  /\ SF_MCVars(
       StepIn("held", Net!ProbeOk,
              <<hlsTransitionsVars, hlsPlaylistVars, vars>>))
  /\ WF_MCVars(
       StepIn("held", Net!ProbeAgain,
              <<hlsTransitionsVars, hlsPlaylistVars, vars>>))
  /\ WF_MCVars(
       StepIn("held", Net!ProbeEnds,
              <<hlsTransitionsVars, hlsPlaylistVars, vars>>))

(* See HlsTransitions: a transition ends, a choice is not stranded, and     *)
(* media meets its initialization segment.  See HlsPlaylist: marks of media *)
(* are true, and a restarted encoder goes on on the same timeline.          *)
HlsSafe ==
  CASE part = "choices" -> Chosen!TypeOK /\ Chosen!HlsSafe
    [] part = "refreshes" -> Refreshed!HlsSafe
    [] part = "parts" -> Parts!TypeOK /\ Parts!HlsPlaylistSafe
    [] part = "restarts" -> Restarts!HlsPlaylistSafe
    [] OTHER -> TRUE
(* See HlsPlaylist: no refresh goes back.                                   *)
PlaylistsGoForward ==
  [][CASE part = "parts" -> Parts!NeverBack
      [] part = "restarts" -> Restarts!NeverBack
      [] OTHER -> TRUE]_MCVars
(* See PlayerSession: held requests are released in the end.               *)
HeldIsReleased == Net!HeldIsReleased
=============================================================================
