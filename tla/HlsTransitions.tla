--------------------------- MODULE HlsTransitions ---------------------------
(* The HLS provider's changes of rendition.  A transition is a transaction  *)
(* with a snapshot: it loads the playlists of its target, reconfigures the  *)
(* SourceBuffers, and commits; when it fails, or the viewer wants something *)
(* else meanwhile, it is rolled back.  Playlist refreshes, media appends    *)
(* and recoveries run beside it on the same SourceBuffers.                  *)
(*                                                                          *)
(* p is the provider.  A promise chain is an element of p.chain: its lanes  *)
(* say what it still has to do (a switch reconfigures video and audio at    *)
(* the same time), and the chain that owns the transition is p.inFlight.    *)
(* An initialization segment is named by its rendition.                     *)
EXTENDS Integers, Sequences, FiniteSets

CONSTANTS Videos, Audios,
          Steering,         \* whether the content steering server may answer
          MaxChains,        \* chains alive at a time
          MaxUser,          \* what viewer, bitrate rules and seeks begin
          MaxEvents         \* refreshes, media appends, failures: together

VARIABLES p, left
vars == <<p, left>>

Kinds == {"video", "audio"}
Lanes == Kinds \cup {"main"}
Reps == Videos \cup Audios
KindOf(r) == IF r \in Videos THEN "video" ELSE "audio"
DefaultAudio == CHOOSE a \in Audios : TRUE
Chains == 1 .. MaxChains
NoChain == 0
None == "none"
NoTodo == [l \in Lanes |-> <<>>]
Blank == [r \in Kinds |-> None]

Task(do, kind, rep) == [do |-> do, kind |-> kind, rep |-> rep]
Do(do) == Task(do, None, None)

(* rgen, sel and signal (the transition it was asked under) are those of a  *)
(* refresh; gen is the transition's generation, or the one a refresh found. *)
Idle == [role |-> None, target |-> None, reason |-> None, clear |-> FALSE,
         gen |-> 0, epoch |-> 0, rgen |-> 0, sel |-> Blank, steers |-> FALSE,
         cancelled |-> FALSE, snap |-> None, todo |-> NoTodo, back |-> FALSE,
         failed |-> None, ref |-> NoChain, signal |-> 0]

Init ==
  LET start == [video |-> CHOOSE v \in Videos : TRUE, audio |-> DefaultAudio] IN
  /\ p = [dead |-> FALSE, gen |-> 0, rgen |-> 0, epoch |-> 0,
          inFlight |-> NoChain, active |-> start, list |-> start,
          key |-> start, last |-> [t \in Audios \cup {"video"} |-> None],
          cfg |-> start, manual |-> None, pendVideo |-> <<>>,
          pendAudio |-> None, refresh |-> NoChain, refreshKey |-> Blank,
          life |-> NoChain, commit |-> FALSE, recovering |-> FALSE,
          tried |-> {}, bad |-> {}, owner |-> [k \in Kinds |-> NoChain],
          queue |-> [k \in Kinds |-> <<>>],
          updating |-> [k \in Kinds |-> FALSE],
          chain |-> [c \in Chains |-> Idle], stray |-> {}, crossed |-> FALSE]
  /\ left = [user |-> MaxUser, events |-> MaxEvents]

Busy(s, c) == \/ s.chain[c].role # None \/ s.inFlight = c
              \/ \E k \in Kinds : \E i \in 1 .. Len(s.queue[k]) :
                   s.queue[k][i].c = c
FreeChains(s) == {c \in Chains : ~Busy(s, c)}
NewChain(s) == CHOOSE c \in FreeChains(s) : \A d \in FreeChains(s) : c <= d

Head1(s, c, l) == Head(s.chain[c].todo[l])
Has(s, c, l, dos) == s.chain[c].todo[l] # <<>> /\ Head1(s, c, l).do \in dos
Doing(s, c, dos) == \E l \in Lanes : Has(s, c, l, dos)
Pop(s, c, l) == [s EXCEPT !.chain[c].todo[l] = Tail(@)]
Fails(s, c, why) == [s EXCEPT !.chain[c].failed = why]
FreeChain(s, c) == [s EXCEPT !.chain[c] = Idle,
                             !.life = IF @ = c THEN NoChain ELSE @]

-----------------------------------------------------------------------------
(* Who is current.                                                          *)

Owns(s, c) == ~s.dead /\ s.inFlight = c /\ s.gen = s.chain[c].gen
Current(s, c) == Owns(s, c) /\ ~s.chain[c].cancelled
GenOk(s, c) == ~s.dead /\ s.gen = s.chain[c].gen
RecoveryOk(s, c) == /\ ~s.dead /\ s.epoch = s.chain[c].epoch
                    /\ s.list = s.chain[c].sel
EpochOk(s, c) == ~s.dead /\ s.epoch = s.chain[c].epoch

(* Whether a chain may go on with, or after, a task.                        *)
MayGoOn(s, c, do) ==
  LET x == s.chain[c] IN
  CASE x.back -> do # "get" \/ GenOk(s, c)
    [] x.role = "variant" -> do \in {"put", "clear"} \/ Current(s, c)
    [] x.role = "audio" -> IF do \in {"get", "put", "init"} THEN GenOk(s, c)
                           ELSE Current(s, c)
    [] x.role = "refresh" -> GenOk(s, c)
    [] x.role = "recovery" -> RecoveryOk(s, c)
    [] OTHER -> do # "media" \/ EpochOk(s, c)

-----------------------------------------------------------------------------
(* Transactions.                                                            *)

AbortRequests(s) ==
  [s EXCEPT !.owner = [k \in Kinds |-> NoChain],
            !.chain = [c \in Chains |->
              IF Doing(s, c, {"get"}) THEN [@[c] EXCEPT !.failed = "abort"]
              ELSE @[c]]]

BeginTrackTransition(s, c, x) ==
  [s EXCEPT !.epoch = @ + 1, !.gen = @ + 1, !.inFlight = c,
            !.chain[c] = [x EXCEPT !.gen = s.gen + 1, !.snap =
              [active |-> s.active, list |-> s.list, key |-> s.key,
               manual |-> s.manual]]]

FinishTrackTransition(s, c) ==
  IF s.inFlight = c THEN [s EXCEPT !.inFlight = NoChain] ELSE s

Settle(s, c, failed) ==
  LET waits(d) == s.chain[d].ref = c
  IN [s EXCEPT !.refresh = IF @ = c THEN NoChain ELSE @,
               !.chain = [d \in Chains |->
                 IF ~waits(d) THEN @[d]
                 ELSE IF failed THEN [@[d] EXCEPT !.failed = "error",
                                                  !.ref = NoChain]
                 ELSE [@[d] EXCEPT !.todo.main = Tail(@), !.ref = NoChain]]]

(* The requests of a transition share its signal; a refresh among them finds *)
(* itself stale.                                                            *)
AbortRefreshes(s) ==
  LET hit == {r \in Chains : /\ s.chain[r].signal = s.gen
                             /\ Doing(s, r, {"steer", "lists"})}
      end(t, r) == FreeChain(Settle(t, r, FALSE), r)
  IN IF hit = {} THEN s ELSE end(s, CHOOSE r \in hit : TRUE)

CancelForViewerIntent(s) ==
  LET c == s.inFlight
      x == AbortRefreshes([s EXCEPT
             !.chain[c].cancelled = TRUE, !.rgen = @ + 1,
             !.crossed = @ \/ s.chain[c].steers])
  IN IF s.chain[c].cancelled THEN s
     ELSE AbortRequests(IF Has(s, c, "main", {"list"}) THEN Fails(x, c, "abort")
                        ELSE x)

Desired(snap, k) == IF snap.key[k] = None THEN snap.list[k] ELSE snap.key[k]

(* Back to the SourceBuffers of before: one track after the other, and the  *)
(* initialization each held is fetched again if another took its place.     *)
RestoreTracks(snap) ==
  [NoTodo EXCEPT !.main = <<Task("init", "video", Desired(snap, "video")),
                            Task("init", "audio", Desired(snap, "audio"))>>]

RollbackTrackTransition_Fault(s, c) == (* Fault: the playlists stay. *)
  LET a == AbortRequests(s) IN
  [a EXCEPT !.active = s.chain[c].snap.active,
            !.manual = s.chain[c].snap.manual,
            !.chain[c].back = TRUE, !.chain[c].failed = None,
            !.chain[c].todo = RestoreTracks(s.chain[c].snap)]
RollbackTrackTransition(s, c) ==
  LET a == AbortRequests(s) IN
  [a EXCEPT !.active = s.chain[c].snap.active, !.list = s.chain[c].snap.list,
            !.manual = s.chain[c].snap.manual,
            !.life = IF @ = c THEN NoChain ELSE @,
            !.chain[c].back = TRUE, !.chain[c].failed = None,
            !.chain[c].todo = RestoreTracks(s.chain[c].snap)]

(* A playlist refresh is shared by all who ask for the same playlists.      *)
RefreshMediaPlaylist(s, c) ==
  LET own == c # NoChain
      waits(t, r) == IF own THEN [t EXCEPT !.chain[c].ref = r] ELSE t
      n == NewChain(s)
      fresh == [s EXCEPT
        !.rgen = @ + 1, !.refresh = n, !.refreshKey = s.active,
        !.chain[n] = [Idle EXCEPT !.role = "refresh", !.rgen = s.rgen + 1,
          !.gen = s.gen, !.sel = s.active,
          !.signal = IF s.inFlight = NoChain THEN 0 ELSE s.gen,
          !.todo = [NoTodo EXCEPT !.main =
            IF Steering THEN <<Do("steer"), Do("lists"), Do("life")>>
            ELSE <<Do("lists"), Do("life")>>]]]
  IN IF s.refresh # NoChain /\ s.refreshKey = s.active THEN waits(s, s.refresh)
     ELSE waits(fresh, n)

SwitchVariant(s, v, clear, reason) ==
  LET c == NewChain(s)
      x == [Idle EXCEPT !.role = "variant", !.target = v, !.clear = clear,
              !.reason = reason,
              !.todo = [NoTodo EXCEPT !.main = <<Do("await"), Do("lanes")>>]]
      b == AbortRequests(BeginTrackTransition(s, c, x))
      m == [b EXCEPT !.manual = IF reason = "manual" THEN v ELSE @,
                     !.active = [video |-> v, audio |-> DefaultAudio]]
  IN IF s.dead \/ s.active["video"] = v \/ s.inFlight # NoChain THEN s
     ELSE RefreshMediaPlaylist(m, c)

SelectAudio(s, a) ==
  LET c == NewChain(s)
      x == [Idle EXCEPT !.role = "audio", !.target = a,
              !.todo = [NoTodo EXCEPT !.main =
                 <<Do("list"), Do("life"), Task("clear", "audio", None),
                   Task("init", "audio", a)>>]]
      b == AbortRequests(BeginTrackTransition(s, c, x))
  IN [b EXCEPT !.active["audio"] = a]

FlushPendingVariantSwitch(s) ==
  LET v == s.pendVideo[1]
      t == [s EXCEPT !.pendVideo = <<>>]
  IN IF s.pendVideo = <<>> \/ s.inFlight # NoChain THEN s
     ELSE IF s.active["video"] = v THEN [t EXCEPT !.manual = v]
     ELSE SwitchVariant(t, v, s.pendVideo[2], "manual")

FlushPendingTrackSwitch_Fault(s) == (* Fault: only the rendition is resumed. *)
  IF s.dead \/ s.inFlight # NoChain THEN s ELSE FlushPendingVariantSwitch(s)
FlushPendingTrackSwitch(s) ==
  LET t == FlushPendingVariantSwitch(s)
      u == [t EXCEPT !.pendAudio = None]
  IN IF s.dead \/ s.inFlight # NoChain THEN s
     ELSE IF t.inFlight # NoChain \/ t.pendAudio = None THEN t
     ELSE IF t.pendAudio = t.active["audio"] THEN u
     ELSE SelectAudio(u, t.pendAudio)

Terminal(s) == [s EXCEPT !.dead = TRUE, !.pendVideo = <<>>, !.pendAudio = None]

(* A second attempt for the same reason is not made.                        *)
TryNativeRecovery(s, reason) ==
  LET c == NewChain(s)
      task(do, k) == Task(do, k, s.list[k])
      x == [Idle EXCEPT !.role = "recovery", !.reason = reason,
              !.epoch = s.epoch + 1, !.sel = s.list,
              !.todo = [NoTodo EXCEPT !.main =
                <<task("reset", "video"), task("reset", "audio"),
                  task("get", "video"), task("put", "video"),
                  task("get", "audio"), task("put", "audio")>>]]
      a == AbortRequests([s EXCEPT !.epoch = @ + 1])
  IN IF s.dead \/ s.recovering \/ s.inFlight # NoChain THEN s
     ELSE [a EXCEPT !.recovering = TRUE, !.tried = @ \cup {reason},
                    !.chain[c] = x]

(* Heights are data: the next one may be any that has not failed.           *)
LowerVariants(s) == Videos \ s.bad

HandleAppendFailure(s, k) ==
  LET bad == [s EXCEPT !.bad = @ \cup {s.active["video"]}]
      rest == LowerVariants(bad)
  IN IF k \notin s.tried THEN {TryNativeRecovery(s, k)}
     ELSE IF k = "audio" THEN {s, Terminal(s)}
     ELSE IF rest = {} THEN {Terminal(bad)}
     ELSE {SwitchVariant(bad, v, TRUE, "recovery") : v \in rest}

-----------------------------------------------------------------------------
(* The event loop: what needs no event goes on before the next event.       *)

Immediate(c, l) ==
  /\ p.chain[c].role # None /\ p.chain[c].failed = None
  /\ \/ Has(p, c, l, {"lanes", "init", "prepare", "unlife", "put", "clear",
                      "reset", "media"})
     \/ Has(p, c, l, {"drain"}) /\ p.queue[Head1(p, c, l).kind] = <<>>
     \/ Has(p, c, l, {"life"}) /\ p.life = NoChain
     \/ Has(p, c, l, {"get", "drain", "life"})
        /\ ~MayGoOn(p, c, Head1(p, c, l).do)
AllDone(c) == /\ p.chain[c].role # None /\ p.chain[c].failed = None
              /\ p.chain[c].todo = NoTodo
JobsDone ==
  /\ \A c \in Chains : /\ ~AllDone(c) /\ p.chain[c].failed = None
                       /\ \A l \in Lanes : ~Immediate(c, l)
  /\ \A k \in Kinds : p.queue[k] # <<>> => p.updating[k]
Room(n) == Cardinality(FreeChains(p)) >= n  \* the bound on chains

Act == /\ left.user > 0 /\ ~p.dead /\ JobsDone /\ Room(2)
       /\ left' = [left EXCEPT !.user = @ - 1]
Event == left.events > 0 /\ left' = [left EXCEPT !.events = @ - 1]

-----------------------------------------------------------------------------
(* What the viewer, the bitrate rules and the timers begin.                 *)

SelectVariantTrack == \E v \in Videos, clear \in BOOLEAN :
  LET m == [p EXCEPT !.manual = v] IN
  /\ Act
  /\ p' = IF p.inFlight = NoChain THEN SwitchVariant(m, v, clear, "manual")
          ELSE CancelForViewerIntent([m EXCEPT !.pendVideo = <<v, clear>>])

(* The active rendition is refused, even while it is being left: the call   *)
(* of a viewer who returns to it during a transition is not accepted.       *)
SelectAudioTrack == \E a \in Audios :
  /\ Act /\ a # p.active["audio"]
  /\ p' = IF p.inFlight = NoChain THEN SelectAudio(p, a)
          ELSE CancelForViewerIntent([p EXCEPT !.pendAudio = a])

MaybeSwitchAuto == \E v \in Videos \ p.bad :
  /\ Act /\ p.manual = None /\ p.inFlight = NoChain
  /\ v # p.active["video"]
  /\ p' = SwitchVariant(p, v, FALSE, "auto")

(* A seek out of the buffer; the requests of a switch are left alone.       *)
OnSeek ==
  LET t == [p EXCEPT !.epoch = @ + 1] IN
  /\ Act
  /\ p' = IF p.inFlight # NoChain /\ p.chain[p.inFlight].role = "variant"
          THEN t ELSE AbortRequests(t)

LivePlaylistRefresh ==
  /\ ~p.dead /\ JobsDone /\ Room(2)
  /\ p' = RefreshMediaPlaylist(p, NoChain) /\ p' # p
  /\ Event

(* A fetched segment of the active rendition is appended.                   *)
DrainAppendQueue_Fault == \E k \in Kinds : (* Fault: also during a transition. *)
  LET c == NewChain(p)
      r == p.list[k]
  IN /\ ~p.dead /\ JobsDone /\ Room(3)
     /\ p.owner[k] = NoChain /\ ~p.updating[k] /\ ~p.commit
     /\ p' = [p EXCEPT !.owner[k] = c,
                       !.chain[c] = [Idle EXCEPT !.role = "append",
                         !.target = r, !.epoch = p.epoch,
                         !.todo = [NoTodo EXCEPT !.main =
                           <<Task("prepare", k, r), Task("media", k, r)>>]]]
     /\ Event
DrainAppendQueue == \E k \in Kinds :
  LET c == NewChain(p)
      r == p.list[k]
  IN /\ ~p.dead /\ JobsDone /\ Room(3)
     /\ p.owner[k] = NoChain /\ ~p.updating[k] /\ ~p.commit
     /\ p.inFlight = NoChain
     /\ p' = [p EXCEPT !.owner[k] = c,
                       !.chain[c] = [Idle EXCEPT !.role = "append",
                         !.target = r, !.epoch = p.epoch,
                         !.todo = [NoTodo EXCEPT !.main =
                           <<Task("prepare", k, r), Task("media", k, r)>>]]]
     /\ Event

-----------------------------------------------------------------------------
(* Answers of the network.                                                  *)

(* Content steering may move the player to another variant.                 *)
SteeringDone(c) ==
  LET found(s) == [Pop(s, c, "main") EXCEPT
                     !.chain[c].sel = s.active, !.chain[c].gen = s.gen,
                     !.refreshKey = s.active]
      steered(v) == [BeginTrackTransition(p, c, p.chain[c]) EXCEPT
                       !.active = [video |-> v, audio |-> DefaultAudio],
                       !.chain[c].steers = TRUE]
  IN /\ Has(p, c, "main", {"steer"}) /\ JobsDone
     /\ \/ p' = found(p)
        \/ /\ p.manual = None /\ p.inFlight = NoChain
           /\ \E v \in Videos \ (p.bad \cup {p.active["video"]}) :
                p' = found(steered(v))
     /\ UNCHANGED left

(* Both playlists arrived, are staged and, unless something newer began,    *)
(* committed.                                                               *)
(* Fault: what began since is not looked at. *)
PlaylistsArrive_Fault(c) ==
  LET x == p.chain[c] IN
  /\ Has(p, c, "main", {"lists"}) /\ JobsDone
  /\ \/ /\ p' = [Pop(p, c, "main") EXCEPT !.list = x.sel, !.commit = TRUE]
        /\ UNCHANGED left
     \/ p' = Fails(p, c, "error") /\ Event
PlaylistsArrive(c) ==
  LET x == p.chain[c]
      stale == x.rgen # p.rgen \/ x.sel # p.active
  IN /\ Has(p, c, "main", {"lists"}) /\ JobsDone
     /\ IF stale
        THEN /\ p' = [FreeChain(Settle(p, c, FALSE), c) EXCEPT
                        !.crossed = @ \/ x.steers]
             /\ UNCHANGED left
        ELSE \/ /\ p' = [Pop(p, c, "main") EXCEPT !.list = x.sel,
                                                  !.commit = TRUE]
                /\ UNCHANGED left
             \/ p' = Fails(p, c, "error") /\ Event

AudioPlaylistArrives(c) ==
  /\ Has(p, c, "main", {"list"}) /\ JobsDone
  /\ \/ /\ p' = [Pop(p, c, "main") EXCEPT
                   !.list["audio"] = p.chain[c].target]
        /\ UNCHANGED left
     \/ p' = Fails(p, c, "error") /\ Event

InitArrives(c, l) ==
  /\ Has(p, c, l, {"get"}) /\ JobsDone
  /\ \/ p' = Pop(p, c, l) /\ UNCHANGED left
     \/ p' = Fails(p, c, "error") /\ Event

-----------------------------------------------------------------------------
(* A chain goes on by itself.                                               *)

Runs(c) == p.chain[c].role # None /\ p.chain[c].failed = None

GoesStale(c, l) ==
  /\ Runs(c)
  /\ Has(p, c, l, {"get", "drain", "life", "init", "clear", "lanes"})
  /\ ~MayGoOn(p, c, IF Head1(p, c, l).do = "clear" /\ p.chain[c].role = "audio"
                    THEN "drain" ELSE Head1(p, c, l).do)
  /\ p' = Fails(p, c, "abort")
  /\ UNCHANGED left

(* The playlists are there: video and audio are reconfigured, each by its   *)
(* own promise.                                                             *)
Reconfigure(c) ==
  LET x == p.chain[c]
      r(k) == p.list[k]
      before(k) == IF x.clear THEN <<Task("clear", k, None)>>
                   ELSE IF k = "video" THEN <<Task("drain", k, None)>>
                   ELSE <<>>
      lane(k) == IF ~x.clear /\ p.key[k] = r(k) THEN before(k)
                 ELSE before(k) \o <<Task("get", k, r(k)), Task("put", k, r(k))>>
  IN /\ Runs(c) /\ Has(p, c, "main", {"lanes"}) /\ Current(p, c)
     /\ p' = [p EXCEPT !.chain[c].todo = [main |-> <<>>,
                  video |-> lane("video"), audio |-> lane("audio")]]
     /\ UNCHANGED left

(* New playlists may ask for other SourceBuffers: one track after the       *)
(* other, each configured for what its playlist asks by then.               *)
TransitionTracks == <<Task("init", "video", None), Task("init", "audio", None),
                      Do("unlife")>>

StartLifecycle(c) ==
  /\ Runs(c) /\ Has(p, c, "main", {"life"}) /\ p.life = NoChain
  /\ MayGoOn(p, c, "life")
  /\ p' = [p EXCEPT !.life = c, !.chain[c].todo.main =
             TransitionTracks \o Tail(@)]
  /\ UNCHANGED left

EndLifecycle(c) ==
  /\ Runs(c) /\ Has(p, c, "main", {"unlife"})
  /\ p' = [Pop(p, c, "main") EXCEPT !.life = NoChain]
  /\ UNCHANGED left

(* The initialization segment is fetched and appended unless it was the     *)
(* last one.                                                                *)
AppendInitIfNeeded(c, l) ==
  LET t == Head1(p, c, l)
      r == IF t.rep = None THEN p.list[t.kind] ELSE t.rep
  IN /\ Runs(c) /\ Has(p, c, l, {"init"}) /\ MayGoOn(p, c, "init")
     /\ p' = [p EXCEPT !.chain[c].todo[l] =
                (IF p.key[t.kind] = r THEN <<>>
                 ELSE <<Task("get", t.kind, r), Task("put", t.kind, r)>>)
                \o Tail(@)]
     /\ UNCHANGED left

(* A media append does the same; a SourceBuffer whose record was cleared    *)
(* counts as the track remembers it.                                        *)
Track(r) == IF KindOf(r) = "video" THEN "video" ELSE r
PrepareDiscontinuityAppend(c) ==
  LET t == Head1(p, c, "main")
      appended == IF p.key[t.kind] # None THEN p.key[t.kind]
                  ELSE p.last[Track(t.rep)]
  IN /\ Runs(c) /\ Has(p, c, "main", {"prepare"})
     /\ p' = [p EXCEPT !.chain[c].todo.main =
                (IF appended = t.rep THEN <<>>
                 ELSE <<Task("get", t.kind, t.rep), Task("put", t.kind, t.rep)>>)
                \o Tail(@)]
     /\ UNCHANGED left

WaitForQueue(c, l) ==
  /\ Runs(c) /\ Has(p, c, l, {"drain"})
  /\ p.queue[Head1(p, c, l).kind] = <<>> /\ MayGoOn(p, c, "drain")
  /\ p' = Pop(p, c, l)
  /\ UNCHANGED left

Enqueue(c, l) ==
  LET t == Head1(p, c, l)
      x == p.chain[c]
      op == [c |-> c, lane |-> l, do |-> t.do, kind |-> t.kind,
             rep |-> t.rep, role |-> x.role, back |-> x.back]
  IN /\ Runs(c) /\ Has(p, c, l, {"put", "clear", "reset", "media"})
     /\ (t.do = "clear" /\ x.role = "audio" => Current(p, c))
     /\ p' = [p EXCEPT !.queue[t.kind] = Append(@, op),
                       !.chain[c].todo[l][1].do = "wait"]
     /\ UNCHANGED left

-----------------------------------------------------------------------------
(* A SourceBuffer: one operation at a time.  Only appends of media and      *)
(* recoveries guard theirs.                                                 *)

Op(k) == Head(p.queue[k])
Alive(op) == /\ p.chain[op.c].role = op.role /\ p.chain[op.c].back = op.back
             /\ p.chain[op.c].failed = None
             /\ Has(p, op.c, op.lane, {"wait"})
Dequeue(s, k) == [s EXCEPT !.queue[k] = Tail(@), !.updating[k] = FALSE]
Lose(s, op, why) == IF Alive(op) THEN Fails(s, op.c, why) ELSE s
Guarded(op) == op.do = "media" \/ op.role = "recovery"

OpStarts(k) ==
  /\ p.queue[k] # <<>> /\ ~p.updating[k]
  /\ p' = IF Guarded(Op(k)) /\ ~MayGoOn(p, Op(k).c, Op(k).do)
          THEN Lose(Dequeue(p, k), Op(k), "abort")
          ELSE [p EXCEPT !.updating[k] = TRUE]
  /\ UNCHANGED left

(* What is recorded of an operation that is over: a switch, a rollback and  *)
(* an append record theirs in any case.                                     *)
OpEnds_Fault(k) == (* Fault: the initialization of an append is not recorded. *)
  LET op == Op(k)
      s == [Dequeue(p, k) EXCEPT
              !.cfg[k] = IF op.do = "put" THEN op.rep ELSE @]
      recorded == [s EXCEPT
        !.key[k] = IF op.role = "append" THEN @
                   ELSE IF op.do = "put" THEN op.rep
                   ELSE IF op.do = "clear" THEN None ELSE @]
      may == op.role = "variant" \/ op.back \/ MayGoOn(p, op.c, op.do)
  IN /\ p.updating[k] /\ JobsDone
     /\ p' = IF ~may THEN Lose(s, op, "abort")
             ELSE IF Alive(op) THEN Pop(recorded, op.c, op.lane) ELSE recorded
     /\ UNCHANGED left
OpEnds(k) ==
  LET op == Op(k)
      may == op.role = "variant" \/ op.back \/ MayGoOn(p, op.c, op.do)
      s == [Dequeue(p, k) EXCEPT
              !.cfg[k] = IF op.do = "put" THEN op.rep ELSE @,
              !.stray = IF op.do \in {"put", "clear"}
                        THEN IF may THEN @ \ {k} ELSE @ \cup {k} ELSE @]
      recorded == [s EXCEPT
        !.key[k] = IF op.do = "put" THEN op.rep
                   ELSE IF op.do = "clear" THEN None ELSE @,
        !.last = IF op.do = "put" /\ op.role = "append"
                 THEN [@ EXCEPT ![Track(op.rep)] = op.rep] ELSE @]
  IN /\ p.updating[k] /\ JobsDone
     /\ p' = IF ~may THEN Lose(s, op, "abort")
             ELSE IF Alive(op) THEN Pop(recorded, op.c, op.lane) ELSE recorded
     /\ UNCHANGED left

(* The call throws: the SourceBuffer is as it was.                          *)
OpFails(k) ==
  /\ p.updating[k] /\ JobsDone /\ Event
  /\ p' = Lose(Dequeue(p, k), Op(k), "error")

-----------------------------------------------------------------------------
(* A chain comes to its end.                                                *)

RefreshEnds(c) ==
  LET x == p.chain[c]
      s == [Settle(p, c, FALSE) EXCEPT !.commit = FALSE]
  IN /\ AllDone(c) /\ x.role = "refresh" /\ ~x.back
     /\ p' = FreeChain(IF x.steers /\ Current(p, c)
                       THEN FinishTrackTransition(s, c) ELSE s, c)
     /\ UNCHANGED left

(* A steering transition that failed is rolled back first.                  *)
RefreshFails(c) ==
  LET x == p.chain[c]
      s == [p EXCEPT !.commit = FALSE]
      end == FreeChain(Settle(FinishTrackTransition(s, c), c, TRUE), c)
  IN /\ x.role = "refresh"
     /\ x.failed # None \/ (AllDone(c) /\ x.back)
     /\ p' = IF x.failed = None THEN end
             ELSE IF x.back THEN IF x.failed = "abort" THEN end ELSE Terminal(end)
             ELSE IF x.steers /\ Owns(p, c) THEN RollbackTrackTransition(s, c)
             ELSE FreeChain(Settle(s, c, TRUE), c)
     /\ UNCHANGED left

SwitchEnds(c) ==
  LET x == p.chain[c]
      end == FlushPendingTrackSwitch(FreeChain(FinishTrackTransition(p, c), c))
  IN /\ AllDone(c) /\ x.role \in {"variant", "audio"} /\ Room(2)
     /\ p' = IF x.back
             THEN IF x.reason = "recovery" /\ end.inFlight = NoChain
                  THEN Terminal(end) ELSE end
             ELSE IF Current(p, c) THEN end ELSE Fails(p, c, "abort")
     /\ UNCHANGED left

(* A rollback that is itself aborted ends as if it had succeeded.           *)
SwitchFails(c) ==
  LET x == p.chain[c]
      end == FreeChain(FinishTrackTransition(p, c), c)
  IN /\ x.role \in {"variant", "audio"} /\ x.failed # None /\ Room(2)
     /\ p' = IF ~Owns(p, c) THEN FreeChain(p, c)
             ELSE IF ~x.back THEN RollbackTrackTransition(p, c)
             ELSE IF x.failed = "abort" THEN FlushPendingTrackSwitch(end)
             ELSE Terminal(end)
     /\ UNCHANGED left

AppendEnds(c) ==
  LET x == p.chain[c]
      k == KindOf(x.target)
      mine == p.owner[k] = c
      s == FreeChain([p EXCEPT !.owner[k] = IF mine THEN NoChain ELSE @], c)
  IN /\ x.role = "append" /\ (AllDone(c) \/ x.failed # None)
     /\ Room(2)
     /\ IF mine /\ x.failed = "error" THEN p' \in HandleAppendFailure(s, k)
        ELSE p' = s
     /\ UNCHANGED left

RecoveryEnds(c) ==
  LET x == p.chain[c]
      s == [p EXCEPT !.recovering = FALSE,
                     !.tried = IF x.failed = "abort" THEN @ \ {x.reason} ELSE @]
  IN /\ x.role = "recovery" /\ (AllDone(c) \/ x.failed # None)
     /\ p' = FreeChain(s, c)
     /\ UNCHANGED left

Next ==
  \/ SelectVariantTrack \/ SelectAudioTrack \/ MaybeSwitchAuto \/ OnSeek
  \/ LivePlaylistRefresh \/ DrainAppendQueue
  \/ \E c \in Chains : \/ SteeringDone(c) \/ PlaylistsArrive(c)
                       \/ AudioPlaylistArrives(c) \/ Reconfigure(c)
                       \/ StartLifecycle(c) \/ EndLifecycle(c)
                       \/ PrepareDiscontinuityAppend(c)
                       \/ RefreshEnds(c) \/ RefreshFails(c)
                       \/ SwitchEnds(c) \/ SwitchFails(c)
                       \/ AppendEnds(c) \/ RecoveryEnds(c)
  \/ \E c \in Chains, l \in Lanes :
       \/ InitArrives(c, l) \/ GoesStale(c, l) \/ AppendInitIfNeeded(c, l)
       \/ WaitForQueue(c, l) \/ Enqueue(c, l)
  \/ \E k \in Kinds : OpStarts(k) \/ OpEnds(k) \/ OpFails(k)

Spec == Init /\ [][Next]_vars

-----------------------------------------------------------------------------
TypeOK ==
  /\ p.inFlight \in Chains \cup {NoChain}
  /\ p.owner \in [Kinds -> Chains \cup {NoChain}]
  /\ p.active["video"] \in Videos /\ p.active["audio"] \in Audios
  /\ p.list["video"] \in Videos /\ p.list["audio"] \in Audios

(* Media is appended only under the initialization segment of its own       *)
(* rendition, whatever switch, rollback or refresh ran beside the append.   *)
(* An initialization segment that nobody recorded, because its generation   *)
(* had passed when its append ended, is the exception.                      *)
MediaMeetsItsInit ==
  \A k \in Kinds \ p.stray :
    p.updating[k] /\ Op(k).do = "media" => p.cfg[k] = Op(k).rep

(* A transition in flight is somebody's: a chain goes on that finishes it   *)
(* or rolls it back.                                                        *)
NoStuckTransition ==
  ~p.dead /\ p.inFlight # NoChain => p.chain[p.inFlight].role # None

(* The exception: a transition that content steering began and something    *)
(* newer crossed, a choice of the viewer or another refresh.  Its refresh   *)
(* finds itself stale and leaves it, or rolls it back and forgets to flush. *)
TransitionsEnd == NoStuckTransition \/ p.crossed

(* A choice put off waits for a transition, which flushes it at its end.    *)
NoStrandedChoice ==
  (p.pendVideo # <<>> \/ p.pendAudio # None) /\ ~p.crossed =>
    p.inFlight # NoChain

(* When all is settled the segments are those of the active renditions, and *)
(* these are the viewer's last choice unless it failed.                     *)
Settled == ~p.dead /\ \A c \in Chains : p.chain[c].role = None
SettledRight ==
  Settled /\ p.inFlight = NoChain =>
    /\ p.list = p.active
    /\ \A k \in Kinds \ p.stray : p.key[k] \in {p.cfg[k], None}

HlsSafe == /\ MediaMeetsItsInit /\ TransitionsEnd /\ NoStrandedChoice
           /\ SettledRight
=============================================================================
