----------------------------- MODULE PlayerPage -----------------------------
(* The player page around its engine: it waits for the engine's script,     *)
(* follows the extraction on a socket, loads a video in up to three         *)
(* attempts with another source as the last resort of each, shows the       *)
(* player or why it failed, counts down to a live event, and reloads itself *)
(* when that may help.  The engine is PlayerSession; here a load of it may  *)
(* end either way.                                                          *)
EXTENDS Integers, FiniteSets

CONSTANTS
  MaxLoads,      \* transactions of one page
  ConnectLimit,  \* attempts to join a live event before the viewer is asked
  Sockets,       \* status sockets that may be about at once
  MaxReloads     \* documents after the first one

(* s is the page, reloads counts its documents.                             *)
VARIABLES s, reloads
vars == <<s, reloads>>

Loads == 1 .. MaxLoads
Retries == 2
NoSocket == "none"
NoChain == [pc |-> "none", tries |-> 0, gen |-> 0]

(* A document: retry is the number in its URL, inline tells whether the     *)
(* manifest came with it.                                                   *)
Document(retry, inline) ==
  [boot |-> "waiting", up |-> FALSE, attached |-> TRUE, shown |-> "loading",
   retry |-> retry, inline |-> inline, unavailable |-> FALSE,
   gen |-> 0, active |-> 0, chain |-> [t \in Loads |-> NoChain],
   connects |-> 0, activated |-> -1, handled |-> -1,
   stopped |-> TRUE, timer |-> FALSE, ws |-> NoSocket, sse |-> FALSE,
   fallback |-> FALSE, ghost |-> FALSE, sock |-> [i \in Sockets |-> "free"], done |-> FALSE]

Init == reloads = 0 /\ \E inline \in BOOLEAN : s = Document(0, inline)

Becomes(r) == s' = r /\ UNCHANGED reloads

-----------------------------------------------------------------------------
(* The status of the extraction: a socket, or server-sent events.           *)

StopStatusPoll(r) ==
  [r EXCEPT !.stopped = TRUE, !.timer = FALSE, !.sse = FALSE, !.ws = NoSocket,
            !.sock = [i \in Sockets |->
              IF i = r.ws /\ @[i] = "open" THEN "closing" ELSE @[i]]]

StartStatusSSE(r) == IF r.stopped THEN r ELSE [r EXCEPT !.sse = TRUE]

StartStatusPoll(r) ==
  IF r.sse \/ r.ws # NoSocket THEN {r}
  ELSE {[r EXCEPT !.stopped = FALSE, !.fallback = FALSE, !.timer = TRUE,
                  !.ws = i, !.sock[i] = "open"]
        : i \in {j \in Sockets : r.sock[j] = "free"}}

-----------------------------------------------------------------------------
(* Load transactions.  Each function gives the pages a step may lead to.    *)

IsCurrent(r, t) == r.active = t /\ r.up /\ r.attached

(* An attempt to join a live event takes its end for a failure, even when   *)
(* the page is gone, and sets a timer nobody clears any more.               *)
Aborted(r, t) ==
  [r EXCEPT !.chain[t].pc = "aborted",
            !.ghost = @ \/ (t > 1 /\ r.connects < ConnectLimit)]

(* An attempt calls player.load, which is a new generation of the engine.   *)
Attempt(r, t, n) ==
  IF ~IsCurrent(r, t) THEN {Aborted(r, t)}
  ELSE {[q EXCEPT !.gen = @ + 1,
                  !.chain[t] = [pc |-> "loading", tries |-> n, gen |-> r.gen + 1]]
        : q \in StartStatusPoll(r)}

(* Whoever waits for the extraction goes on.                                *)
FireExtractionDone(r) ==
  LET q == [r EXCEPT !.done = TRUE]
      awaiting == {t \in Loads : q.chain[t].pc = "await"}
  IN IF awaiting = {} THEN {q}
     ELSE UNION {Attempt(q, t, q.chain[t].tries + 1) : t \in awaiting}

Inlined(r, t) ==
  {[q EXCEPT !.inline = FALSE, !.gen = @ + 1,
             !.chain[t] = [pc |-> "loading", tries |-> 0, gen |-> r.gen + 1]]
   : q \in FireExtractionDone(StopStatusPoll(r))}

LoadVideo(r) ==
  LET t == r.active + 1
      q == [r EXCEPT !.active = t]
  IN IF q.inline THEN Inlined(q, t) ELSE Attempt(q, t, 0)

HandlePlayerFailure(r, error, g) ==
  IF ~r.up \/ ~r.attached \/ g # r.gen \/ r.handled = g THEN r
  ELSE LET q == [StopStatusPoll(r) EXCEPT !.handled = g,
                   !.unavailable = @ \/ error \in {"permanent", "scheduled"}]
       IN IF error = "scheduled" THEN [q EXCEPT !.shown = "countdown"]
          ELSE [q EXCEPT !.shown = "error", !.attached = FALSE]

(* The first load fails for good, a later one is one of the attempts to     *)
(* join a live event.                                                       *)
LoadFails(r, t, error) ==
  LET q == [r EXCEPT !.chain[t].pc = "failed"] IN
  IF t = 1 THEN HandlePlayerFailure(q, error, q.chain[t].gen)
  ELSE [StopStatusPoll(q) EXCEPT !.shown =
          IF q.connects < ConnectLimit THEN "waiting" ELSE "manual"]

(* A player's failure is tried again, a server's is not.                    *)
Thrown(r, t, error) ==
  IF ~IsCurrent(r, t) THEN Aborted(r, t)
  ELSE IF error = "load" /\ r.chain[t].tries < Retries
  THEN [r EXCEPT !.chain[t].pc = IF r.done THEN "delay" ELSE "await"]
  ELSE LoadFails(r, t, error)

(* Fault: the status is followed while the video plays. *)
ActivateSuccessfulLoad_Fault(r, t) ==
  LET q == [r EXCEPT !.chain[t].pc = "loaded"] IN
  IF q.activated = q.gen \/ q.handled = q.gen \/ ~q.attached THEN q
  ELSE [q EXCEPT !.shown = "ready", !.activated = q.gen, !.unavailable = FALSE]

ActivateSuccessfulLoad(r, t) ==
  LET q == [StopStatusPoll(r) EXCEPT !.chain[t].pc = "loaded"] IN
  IF q.activated = q.gen \/ q.handled = q.gen \/ ~q.attached THEN q
  ELSE [q EXCEPT !.shown = "ready", !.activated = q.gen, !.unavailable = FALSE]

-----------------------------------------------------------------------------
(* The engine's script.                                                     *)

InitPlayer(r) == LoadVideo([r EXCEPT !.boot = "up", !.up = TRUE])

TryInitPlayer ==
  /\ s.boot = "waiting"
  /\ \/ \E r \in InitPlayer(s) : Becomes(r)
     \/ Becomes([s EXCEPT !.boot = "retrying"])

RetryScriptArrives ==
  /\ s.boot = "retrying"
  /\ \/ \E r \in InitPlayer(s) : Becomes(r)
     \/ Becomes([s EXCEPT !.boot = "error", !.shown = "error"])

-----------------------------------------------------------------------------
(* The steps of a load.                                                     *)

At(t, pc) == s.chain[t].pc = pc

LoadSucceeds(t) ==
  /\ At(t, "loading") \/ At(t, "alternate")
  /\ Becomes(IF IsCurrent(s, t) THEN ActivateSuccessfulLoad(s, t)
             ELSE Aborted(s, t))

(* The engine knows where the manifest came from.                           *)
Via(t) ==
  /\ At(t, "loading") /\ IsCurrent(s, t)
  /\ Becomes(StopStatusPoll(s))

(* What cannot be played as DASH may be there as something else.            *)
LoadRejected(t) ==
  /\ At(t, "loading")
  /\ Becomes(IF IsCurrent(s, t) THEN [s EXCEPT !.chain[t].pc = "probe"]
             ELSE Aborted(s, t))

ProbeFindsAlternate(t) ==
  /\ At(t, "probe")
  /\ Becomes(IF ~IsCurrent(s, t) THEN Aborted(s, t)
             ELSE LET g == s.gen + 1 IN
                  [StopStatusPoll(s) EXCEPT !.gen = g,
                     !.chain[t].pc = "alternate", !.chain[t].gen = g])

ProbeFindsError(t, error) ==
  /\ At(t, "probe")
  /\ Becomes(IF ~IsCurrent(s, t) THEN Aborted(s, t)
             ELSE Thrown(StopStatusPoll(s), t, error))

(* Fault: a probe that timed out looks like one that was aborted. *)
ProbeFails_Fault(t) ==
  /\ At(t, "probe") /\ Becomes(Aborted(s, t))

(* No answer in time, or one that says nothing new.                         *)
ProbeFails(t) ==
  /\ At(t, "probe") /\ Becomes(Thrown(s, t, "load"))

AlternateFails(t) ==
  /\ At(t, "alternate") /\ Becomes(Thrown(s, t, "load"))

WaitForPlayerLoadDelay(t) ==
  /\ At(t, "delay")
  /\ \E r \in Attempt(s, t, s.chain[t].tries + 1) : Becomes(r)

(* The extraction is not waited for longer than half a minute.              *)
WaitForExtractionCompletion(t) ==
  /\ At(t, "await")
  /\ \E r \in Attempt(s, t, s.chain[t].tries + 1) : Becomes(r)

-----------------------------------------------------------------------------
(* What the status sockets tell.                                            *)

Done(r) == FireExtractionDone(StopStatusPoll(r))

StatusTimeout ==
  s.timer /\ \E r \in Done([s EXCEPT !.timer = FALSE]) : Becomes(r)

HandleStatusMsg ==
  /\ s.sse \/ \E i \in Sockets : s.sock[i] = "open"
  /\ \/ Becomes([s EXCEPT !.timer = TRUE])
     \/ \E r \in Done(s) : Becomes(r)

(* Fault: an answer given up still opens the other way. *)
WsError_Fault(i) ==
  /\ s.sock[i] \in {"open", "closing"}
  /\ Becomes([s EXCEPT !.sock[i] = "failed", !.ws = NoSocket, !.fallback = TRUE,
                       !.sse = TRUE])

(* The handlers do not look whether they belong to the current socket.      *)
WsError(i) ==
  LET r == [s EXCEPT !.sock[i] = "failed", !.ws = NoSocket] IN
  /\ s.sock[i] \in {"open", "closing"}
  /\ Becomes(IF r.stopped THEN r
             ELSE StartStatusSSE([r EXCEPT !.fallback = TRUE]))

WsClose(i) ==
  LET r == [s EXCEPT !.sock[i] = "free", !.ws = NoSocket] IN
  /\ s.sock[i] # "free"
  /\ Becomes(IF r.stopped \/ r.done \/ r.sse \/ r.fallback THEN r
             ELSE StartStatusSSE([r EXCEPT !.fallback = TRUE]))

SseError == s.sse /\ \E r \in Done(s) : Becomes(r)

-----------------------------------------------------------------------------
(* After a load.                                                            *)

(* Playback fails after it has begun.                                       *)
OnPlayerTerminalError ==
  /\ s.up /\ s.activated = s.gen
  /\ Becomes(HandlePlayerFailure(s, "playback", s.gen))

TryConnect ==
  /\ s.up /\ s.shown \in {"countdown", "waiting", "manual"}
  /\ s.active < MaxLoads
  /\ \E r \in LoadVideo([s EXCEPT !.shown = "connecting", !.unavailable = FALSE,
                !.connects = IF s.shown = "manual" THEN 1 ELSE @ + 1]) :
       Becomes(r)

Navigate(retry) ==
  /\ reloads < MaxReloads /\ reloads' = reloads + 1
  /\ \E inline \in BOOLEAN : s' = Document(retry, inline)

(* The viewer retries once, the page once more with fresh cookies.          *)
Retry ==
  /\ s.up /\ s.shown = "error" /\ ~s.unavailable /\ s.retry < 2
  /\ Navigate(s.retry + 1)

(* The session is over as well: the page is loaded again as a whole.        *)
AuthExpired == s.up /\ Navigate(0)

(* The place is taken by another video.                                     *)
CleanupPlayer ==
  /\ s.up
  /\ LET q == [StopStatusPoll(s) EXCEPT !.up = FALSE, !.active = 0, !.shown = "gone"]
         waiting == {t \in Loads : At(t, "await") \/ At(t, "delay")}
     IN Becomes(IF waiting = {} THEN q ELSE Aborted(q, CHOOSE t \in waiting : TRUE))

(* The timer of a page that is gone: the load it starts is refused.         *)
GhostConnects ==
  /\ s.ghost
  /\ Becomes([s EXCEPT !.connects = @ + 1, !.ghost = s.connects + 1 < ConnectLimit])

Next ==
  \/ TryInitPlayer \/ RetryScriptArrives
  \/ \E t \in Loads :
       \/ LoadSucceeds(t) \/ Via(t) \/ LoadRejected(t)
       \/ ProbeFindsAlternate(t) \/ ProbeFails(t) \/ AlternateFails(t)
       \/ \E e \in {"server", "permanent", "scheduled"} : ProbeFindsError(t, e)
       \/ WaitForPlayerLoadDelay(t) \/ WaitForExtractionCompletion(t)
  \/ StatusTimeout \/ HandleStatusMsg \/ SseError
  \/ \E i \in Sockets : WsError(i) \/ WsClose(i)
  \/ OnPlayerTerminalError \/ TryConnect \/ Retry \/ AuthExpired
  \/ CleanupPlayer \/ GhostConnects

Spec == Init /\ [][Next]_vars

-----------------------------------------------------------------------------
(* Properties.                                                              *)

Working == {"loading", "probe", "alternate", "await", "delay"}
Running(t) == s.chain[t].pc \in Working /\ IsCurrent(s, t)

TypeOK ==
  /\ s.shown \in {"loading", "ready", "error", "countdown", "connecting",
                  "waiting", "manual", "gone"}
  /\ s.active \in 0 .. MaxLoads /\ s.ws \in Sockets \cup {NoSocket}
  /\ \A t \in Loads : s.chain[t].pc \in Working \cup
       {"none", "loaded", "failed", "aborted"}

(* While the page shows that something is coming, something is: a load that *)
(* goes on by itself.  No failure, timeout or late answer leaves it         *)
(* spinning.                                                                *)
NoLimbo ==
  s.up /\ s.shown \in {"loading", "connecting"} =>
    \E t \in Loads : Running(t)

(* One load runs at a time, and none behind a page that shows its end.      *)
OneLoad ==
  /\ Cardinality({t \in Loads : Running(t)}) <= 1
  /\ s.shown \notin {"loading", "connecting"} => \A t \in Loads : ~Running(t)

(* What is shown as ready is the engine's current load, and no failure of   *)
(* it was told.                                                             *)
ReadyIsCurrent ==
  s.shown = "ready" =>
    /\ s.activated = s.gen /\ s.handled # s.gen
    /\ s.attached /\ ~s.unavailable

(* An attempt waits for the extraction only while nobody said it is done.   *)
AwaitIsHonest == \A t \in Loads : Running(t) /\ s.chain[t].pc = "await" => ~s.done

(* A socket the page has lost sight of: a late answer of an older one was   *)
(* taken for its own.                                                       *)
Stray == \E i \in Sockets : s.sock[i] = "open" /\ i # s.ws

(* Nothing about the extraction is listened to once nothing is loaded; a    *)
(* timer that runs on was started by the answer of a socket lost sight of.  *)
StatusEnds ==
  /\ s.stopped => ~s.sse /\ s.ws = NoSocket
  /\ ~Stray /\ s.shown \notin {"loading", "connecting"} => s.stopped

PlayerPageSafe ==
  TypeOK /\ NoLimbo /\ OneLoad /\ ReadyIsCurrent /\ AwaitIsHonest /\ StatusEnds
=============================================================================
