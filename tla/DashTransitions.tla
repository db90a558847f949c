-------------------------- MODULE DashTransitions ---------------------------
(* The DASH provider's track switches, recoveries and appends: several      *)
(* promise chains change the same two SourceBuffers, and each re-checks     *)
(* after every wait that it is still the current one.  A SourceBuffer holds *)
(* the initialization segment appended last; media appended under another   *)
(* one is decoded wrongly.                                                  *)
(*                                                                          *)
(* p is the provider, sb its two SourceBuffers with their operation queues, *)
(* left the bounds.  A transaction is a chain: what it still has to do and  *)
(* what it has changed.  The provider's flags that repeat a field of p      *)
(* (videoSwitchInFlight, ..ConfigUncertain) are read off it.                *)
EXTENDS Integers, Sequences, SequencesExt, FiniteSets

CONSTANTS Videos, Audios,   \* the representations of each kind
          Periods,          \* generation keys: one per period of the manifest
          MaxTx,            \* chains alive at a time
          Clears,           \* ways to switch: with the buffer cleared or not
          MaxUser,          \* what viewer and scheduler begin, appends aside
          MaxSegments,      \* appends
          MaxFail           \* failures of a step

VARIABLES p, sb, left
vars == <<p, sb, left>>

Kinds == {"video", "audio"}
Reps == Videos \cup Audios
KindOf(r) == IF r \in Videos THEN "video" ELSE "audio"
Tx == 1 .. MaxTx
NoTx == 0
None == "none"

Idle == [role |-> None, target |-> None, prev |-> None, gen |-> 0, ctl |-> 0,
         clear |-> FALSE, manual |-> FALSE, reason |-> None, todo |-> <<>>,
         busy |-> FALSE, failed |-> None, mut |-> {}, started |-> FALSE,
         back |-> FALSE]

Task(do, kind, rep, key) == [do |-> do, kind |-> kind, rep |-> rep, key |-> key]
Prepare(r) == Task("prepare", KindOf(r), r, 0)

Init ==
  /\ p = [gen |-> 1, ctl |-> 0, inFlight |-> NoTx, dead |-> FALSE,
          active |-> [video |-> CHOOSE v \in Videos : TRUE,
                      audio |-> CHOOSE a \in Audios : TRUE],
          owner |-> [k \in Kinds |-> NoTx], initKey |-> [r \in Reps |-> 0],
          pendVideo |-> <<>>, pendAudio |-> None, reconcile |-> {},
          blacklist |-> {}, appendFailures |-> 0, tried |-> {},
          want |-> None, wantAudio |-> None, tx |-> [t \in Tx |-> Idle]]
  /\ sb = [k \in Kinds |->
             [queue |-> <<>>, updating |-> FALSE, config |-> None]]
  /\ left = [user |-> MaxUser, seg |-> MaxSegments, fail |-> MaxFail]

FreeTx(s) == {t \in Tx : s.tx[t].role = None}
NextTx(s) == CHOOSE t \in FreeTx(s) : \A u \in FreeTx(s) : t <= u

AppendWorkInFlight(s) == \E k \in Kinds : s.owner[k] # NoTx

AppendIsCurrent(s, t) ==
  LET r == s.tx[t].target IN
  /\ ~s.dead
  /\ s.gen = s.tx[t].gen
  /\ s.owner[KindOf(r)] = t
  /\ s.active[KindOf(r)] = r
ControlIsCurrent(s, t) ==
  /\ ~s.dead
  /\ s.inFlight = t
  /\ s.ctl = s.tx[t].ctl
  /\ s.gen = s.tx[t].gen
IsCurrent(s, t) ==
  IF s.tx[t].role = "append" THEN AppendIsCurrent(s, t)
  ELSE ControlIsCurrent(s, t)

-----------------------------------------------------------------------------
(* Configuration: what a chain has appended and not vouched for.            *)

QueueReconciliation_Fault(s, t) == s (* Fault: a half-done change is forgotten. *)
QueueReconciliation(s, t) ==
  IF s.dead \/ t = NoTx THEN s
  ELSE [s EXCEPT !.reconcile = @ \cup s.tx[t].mut]

QueueAppendReconciliation(s) ==
  QueueReconciliation(QueueReconciliation(s, s.owner["video"]),
                      s.owner["audio"])

CommitConfiguration(s, t) == [s EXCEPT !.reconcile = @ \ s.tx[t].mut]

-----------------------------------------------------------------------------
(* Transitions: one in flight, and only while nothing is being appended.    *)

Begin(s, tx) ==
  IF s.dead \/ s.inFlight # NoTx \/ AppendWorkInFlight(s) THEN s
  ELSE [s EXCEPT !.ctl = @ + 1, !.inFlight = NextTx(s),
                 !.tx[NextTx(s)] = [tx EXCEPT !.ctl = s.ctl + 1,
                                              !.gen = s.gen]]

Finish(s, t) == [s EXCEPT !.inFlight = NoTx, !.tx[t] = Idle]

Invalidate_Fault(s) == (* Fault: the viewer's choice dies with its transition. *)
  LET t == s.inFlight
      q == QueueReconciliation(s, t)
  IN [q EXCEPT !.ctl = @ + 1, !.inFlight = NoTx]
Invalidate(s) ==
  LET t == s.inFlight
      q == QueueReconciliation(s, t)
      again == t # NoTx /\ ~s.dead
  IN [q EXCEPT
       !.ctl = @ + 1,
       !.inFlight = NoTx,
       !.pendVideo = IF again /\ s.tx[t].role = "video" /\ s.tx[t].manual
                       /\ @ = <<>>
                     THEN <<s.tx[t].target, s.tx[t].clear>> ELSE @,
       !.pendAudio = IF again /\ s.tx[t].role = "audio" /\ @ = None
                     THEN s.tx[t].target ELSE @]

AbortRequests(s) ==
  [Invalidate(QueueAppendReconciliation(s)) EXCEPT
     !.gen = @ + 1, !.owner = [k \in Kinds |-> NoTx]]

(* The steps of each transition.  The key of an initialization segment is   *)
(* that of the segment at the playhead: any period.                         *)
Configure(s, kind, rep, key) == Task("init", kind, rep, key)

BeginSwitch(s, kind, rep, clear, manual, key) ==
  Begin(s, [Idle EXCEPT !.role = kind, !.target = rep,
              !.prev = s.active[kind], !.clear = clear, !.manual = manual,
              !.todo = <<Prepare(rep),
                         Task(IF clear THEN "reset" ELSE "drain", kind, rep, 0),
                         Configure(s, kind, rep, key)>>])

SwitchVideoNow(s, rep, clear, manual, key) ==
  LET later == IF manual THEN [s EXCEPT !.pendVideo = <<rep, clear>>] ELSE s
  IN IF rep = s.active["video"] \/ s.dead THEN s
     ELSE IF \/ s.inFlight # NoTx
             \/ ~clear /\ AppendWorkInFlight(s) THEN later
     ELSE BeginSwitch(IF clear THEN AbortRequests(s) ELSE s,
                      "video", rep, clear, manual, key)

SwitchAudio_Fault(s, rep, key) == (* Fault: the appends under way go on. *)
  IF rep = s.active["audio"] \/ s.dead THEN s
  ELSE IF s.inFlight # NoTx THEN [s EXCEPT !.pendAudio = rep]
  ELSE BeginSwitch(s, "audio", rep, TRUE, TRUE, key)
SwitchAudio(s, rep, key) ==
  IF rep = s.active["audio"] \/ s.dead THEN s
  ELSE IF s.inFlight # NoTx THEN [s EXCEPT !.pendAudio = rep]
  ELSE BeginSwitch(AbortRequests(s), "audio", rep, TRUE, TRUE, key)

Reconcile(s, key) ==
  LET a == AbortRequests(s)
      fix(k) == IF k \notin a.reconcile THEN <<>>
                ELSE <<Prepare(a.active[k]), Task("drain", k, None, 0),
                       Configure(a, k, a.active[k], key)>>
  IN Begin(a, [Idle EXCEPT !.role = "reconcile",
                           !.todo = fix("video") \o fix("audio")])

FlushPendingVideo(s, key) ==
  IF s.pendVideo = <<>> \/ s.dead \/ s.inFlight # NoTx THEN s
  ELSE SwitchVideoNow([s EXCEPT !.pendVideo = <<>>], s.pendVideo[1],
                      s.pendVideo[2], TRUE, key)

FlushPending_Fault(s, key) == (* Fault: only the reconciliation is resumed. *)
  IF s.dead \/ s.inFlight # NoTx \/ s.reconcile = {} THEN s ELSE Reconcile(s, key)
FlushPending(s, key) ==
  LET v == FlushPendingVideo(s, key)
      a == IF v.pendAudio = None THEN v
           ELSE SwitchAudio([v EXCEPT !.pendAudio = None], v.pendAudio, key)
  IN IF s.dead \/ s.inFlight # NoTx THEN s
     ELSE IF v.inFlight # NoTx THEN v
     ELSE IF a.inFlight # NoTx \/ a.reconcile = {} THEN a
     ELSE Reconcile(a, key)

SwitchVideo(s, rep, clear, manual, key) ==
  IF /\ rep # s.active["video"] /\ ~s.dead
     /\ s.reconcile # {} /\ ~manual
  THEN FlushPending(s, key)
  ELSE SwitchVideoNow(s, rep, clear, manual, key)

TryRecovery(s, reason, key) ==
  LET a == AbortRequests(s)
      task(do, k) == Task(do, k, a.active[k], key)
  IN IF s.dead \/ s.inFlight # NoTx THEN s
     ELSE [Begin(a, [Idle EXCEPT
                !.role = "recovery", !.reason = reason,
                !.todo = <<task("reset", "video"), task("reset", "audio"),
                           task("init", "video"), task("init", "audio")>>])
             EXCEPT !.tried = @ \cup {reason},
                    !.initKey = [r \in Reps |->
                      IF r \in {a.active[k] : k \in Kinds} THEN 0 ELSE @[r]]]

(* quiesce: everything pending is dropped, every guard fails from here on.  *)
Quiesce(s) == [s EXCEPT !.dead = TRUE, !.inFlight = NoTx, !.ctl = @ + 1,
                        !.gen = @ + 1, !.owner = [k \in Kinds |-> NoTx],
                        !.pendVideo = <<>>, !.pendAudio = None]

(* What an append that failed leads to: the results are a set because the   *)
(* bitrate rules may choose any representation that is not blacklisted.     *)
HandleAppendFailure(s, rep, key) ==
  LET reason == "append-" \o KindOf(rep)
      n == [s EXCEPT !.appendFailures = IF @ < 2 THEN @ + 1 ELSE 2]
      bad == [n EXCEPT !.blacklist = @ \cup {rep}]
      rest == Videos \ bad.blacklist
  IN IF reason \notin s.tried THEN {TryRecovery(n, reason, key)}
     ELSE IF rep \in Audios
       THEN {IF n.appendFailures = 2 THEN Quiesce(n) ELSE n}
     ELSE IF rest = {} THEN {Quiesce(bad)}
     ELSE {SwitchVideo(bad, v, TRUE, TRUE, key) : v \in rest}

-----------------------------------------------------------------------------
(* The event loop: the continuations of settled promises run before the     *)
(* next event, whichever of them comes first.                               *)

Next1(t) == Head(p.tx[t].todo)
Alone(t) == \A j \in Kinds \ {KindOf(p.tx[t].target)} : p.owner[j] = NoTx
Waits(t) ==
  /\ p.tx[t].todo # <<>>
  /\ \/ Next1(t).do = "prepare" /\ IsCurrent(p, t)
     \/ Next1(t).do = "drain" /\ sb[Next1(t).kind].queue # <<>>
     \/ Next1(t).do = "peers" /\ IsCurrent(p, t) /\ ~Alone(t)
JobsDone ==
  /\ \A t \in Tx : \/ p.tx[t].role = None \/ p.tx[t].busy
                   \/ p.tx[t].failed = None /\ Waits(t)
  /\ \A k \in Kinds : sb[k].queue # <<>> => sb[k].updating

-----------------------------------------------------------------------------
(* What the viewer, the bitrate rules and the scheduler begin.              *)

Act == /\ left.user > 0 /\ ~p.dead /\ JobsDone
       /\ left' = [left EXCEPT !.user = @ - 1]
Room == Cardinality(FreeTx(p)) >= 2  \* the bound on chains

SelectVariantTrack == \E r \in Videos, clear \in Clears, key \in Periods :
  /\ Act /\ Room
  /\ LET m == [p EXCEPT !.want = r] IN
     p' = IF p.inFlight # NoTx THEN [m EXCEPT !.pendVideo = <<r, clear>>]
          ELSE SwitchVideo(m, r, clear, TRUE, key)
  /\ UNCHANGED sb

SelectAudioTrack == \E r \in Audios, key \in Periods :
  /\ Act /\ Room
  /\ r # p.active["audio"]
  /\ p' = SwitchAudio([p EXCEPT !.wantAudio = r], r, key)
  /\ UNCHANGED sb

(* A seek outside the buffered ranges drops all requests, then resumes.     *)
SeekFar == \E key \in Periods :
  /\ Act /\ Room
  /\ p' = FlushPending(AbortRequests(p), key)
  /\ UNCHANGED sb

ReportStall == \E key \in Periods :
  /\ Act /\ Room
  /\ "stall" \notin p.tried
  /\ p' = TryRecovery(p, "stall", key)
  /\ UNCHANGED sb

(* The periodic tick: an uncertain configuration is repaired first.         *)
TickReconcile == \E key \in Periods :
  /\ ~p.dead /\ p.reconcile # {} /\ p.inFlight = NoTx /\ Room /\ JobsDone
  /\ p' = FlushPending(p, key)
  /\ UNCHANGED <<sb, left>>

MaybeSwitchAuto == \E r \in Videos \ p.blacklist, key \in Periods :
  /\ Act /\ Room
  /\ p.want = None /\ p.reconcile = {} /\ p.inFlight = NoTx
  /\ p' = SwitchVideo(p, r, FALSE, FALSE, key)
  /\ p' # p
  /\ UNCHANGED sb

(* _drainAppendQueue takes a fetched segment of the active representation:  *)
(* its initialization goes first when another key was appended last.        *)
PrepareAppend(s, rep, key) ==
  LET task(do) == Task(do, KindOf(rep), rep, key)
  IN (IF s.initKey[rep] = key THEN <<>>
      ELSE <<Prepare(rep), task("init")>>) \o <<task("media")>>

(* Fault: a switch in flight does not hold appends back. *)
DrainAppendQueue_Fault == \E k \in Kinds, key \in Periods :
  LET r == p.active[k] IN
  /\ ~p.dead /\ Room /\ JobsDone /\ left.seg > 0
  /\ ~sb[k].updating /\ p.owner[k] = NoTx
  /\ p' = [p EXCEPT !.owner[k] = NextTx(p),
                    !.tx[NextTx(p)] =
                      [Idle EXCEPT !.role = "append", !.target = r,
                         !.gen = p.gen, !.todo = PrepareAppend(p, r, key)]]
  /\ left' = [left EXCEPT !.seg = @ - 1]
  /\ UNCHANGED sb
DrainAppendQueue == \E k \in Kinds, key \in Periods :
  LET r == p.active[k] IN
  /\ ~p.dead /\ Room /\ JobsDone /\ left.seg > 0
  /\ ~sb[k].updating /\ p.owner[k] = NoTx
  /\ p.reconcile = {} /\ p.inFlight = NoTx
  /\ p' = [p EXCEPT !.owner[k] = NextTx(p),
                    !.tx[NextTx(p)] =
                      [Idle EXCEPT !.role = "append", !.target = r,
                         !.gen = p.gen, !.todo = PrepareAppend(p, r, key)]]
  /\ left' = [left EXCEPT !.seg = @ - 1]
  /\ UNCHANGED sb

-----------------------------------------------------------------------------
(* A chain goes on: the guard, then the next step.                          *)

Failed(t, why) == p' = [p EXCEPT !.tx[t].failed = why, !.tx[t].busy = FALSE]
Fail == left.fail > 0 /\ left' = [left EXCEPT !.fail = @ - 1]

Runs(t) == p.tx[t].role # None /\ ~p.tx[t].busy /\ p.tx[t].failed = None
Done(s, t) == [s EXCEPT !.tx[t].todo = Tail(@), !.tx[t].busy = FALSE]

GoesStale(t) ==
  /\ Runs(t) /\ ~Waits(t)
  /\ ~IsCurrent(p, t)
  /\ Failed(t, "abort")
  /\ UNCHANGED <<sb, left>>

PrepareRep(t) ==
  /\ Runs(t) /\ p.tx[t].todo # <<>>
  /\ Next1(t).do = "prepare" /\ IsCurrent(p, t) /\ JobsDone
  /\ UNCHANGED sb
  /\ \/ p' = [Done(p, t) EXCEPT !.tx[t].started =
                @ \/ p.tx[t].clear \/ p.tx[t].role = "audio"]
        /\ UNCHANGED left
     \/ Failed(t, "error") /\ Fail

WaitForQueue(t) ==
  /\ Runs(t) /\ p.tx[t].todo # <<>>
  /\ Next1(t).do = "drain" /\ IsCurrent(p, t)
  /\ sb[Next1(t).kind].queue = <<>>
  /\ p' = Done(p, t)
  /\ UNCHANGED <<sb, left>>

(* The quota is exceeded: both tracks are trimmed, which waits until the    *)
(* other track is not appending; two that wait for each other time out.     *)
WaitForPeers(t) ==
  /\ Runs(t) /\ p.tx[t].todo # <<>>
  /\ Next1(t).do = "peers" /\ IsCurrent(p, t)
  /\ IF Alone(t) THEN p' = Done(p, t)
     ELSE JobsDone /\ p' = [p EXCEPT !.tx[t].failed = "error"]
  /\ UNCHANGED <<sb, left>>

(* mutateSourceBuffer: the operation joins the queue of its SourceBuffer.   *)
(* An initialization is marked as a change of configuration before that.    *)
MarkConfiguration(s, t, task) ==
  [s EXCEPT !.tx[t].mut = @ \cup {task.kind}, !.tx[t].started = TRUE,
            !.initKey[task.rep] = 0]
Enqueue(t) ==
  LET task == Next1(t)
      from == IF task.do = "init" THEN MarkConfiguration(p, t, task) ELSE p
  IN /\ Runs(t) /\ p.tx[t].todo # <<>>
     /\ task.do \in {"reset", "init", "media"} /\ IsCurrent(p, t)
     /\ p' = [from EXCEPT !.tx[t].busy = TRUE]
     /\ sb' = [sb EXCEPT ![task.kind].queue = Append(@, <<t, task>>)]
     /\ UNCHANGED left

-----------------------------------------------------------------------------
(* The SourceBuffer: one operation at a time, guarded before and after.     *)

Op(k) == Head(sb[k].queue)
Rest(k) == [sb[k] EXCEPT !.queue = Tail(@), !.updating = FALSE]

OpStarts(k) ==
  /\ sb[k].queue # <<>> /\ ~sb[k].updating
  /\ IF IsCurrent(p, Op(k)[1])
     THEN sb' = [sb EXCEPT ![k].updating = TRUE] /\ UNCHANGED p
     ELSE sb' = [sb EXCEPT ![k] = Rest(k)] /\ Failed(Op(k)[1], "abort")
  /\ UNCHANGED left

OpEnds(k) ==
  LET t == Op(k)[1]
      task == Op(k)[2]
      done == Done(p, t)
      held == <<task.rep, task.key>>
  IN /\ sb[k].updating /\ JobsDone
     /\ sb' = [sb EXCEPT ![k] = [Rest(k) EXCEPT !.config =
                 IF task.do = "init" THEN held ELSE @]]
     /\ UNCHANGED left
     /\ IF ~IsCurrent(p, t) THEN Failed(t, "abort")
        ELSE p' = IF task.do = "init"
                  THEN [done EXCEPT !.initKey[task.rep] = task.key]
                  ELSE done

(* An error, or the watchdog aborts the operation: what the SourceBuffer    *)
(* holds of a broken initialization is unknown.                             *)
OpFails(k) ==
  LET t == Op(k)[1] IN
  /\ sb[k].updating /\ JobsDone
  /\ Fail
  /\ sb' = [sb EXCEPT ![k] = [Rest(k) EXCEPT !.config =
              IF Op(k)[2].do = "init" THEN None ELSE @]]
  /\ Failed(t, "error")

(* appendBuffer throws QuotaExceeded: the first time, room is made and the  *)
(* segment tried again; the second time a video falls to a lower one.       *)
OpOverQuota(k) ==
  LET t == Op(k)[1]
      again == <<Task("peers", k, None, 0)>>
                 \o PrepareAppend(p, p.tx[t].target, Op(k)[2].key)
  IN /\ sb[k].queue # <<>> /\ ~sb[k].updating
     /\ Op(k)[2].do = "media" /\ IsCurrent(p, t)
     /\ Fail
     /\ sb' = [sb EXCEPT ![k] = Rest(k)]
     /\ IF ~p.tx[t].clear
        THEN p' = [p EXCEPT !.tx[t].clear = TRUE, !.tx[t].todo = again,
                            !.tx[t].busy = FALSE]
        ELSE Failed(t, IF k = "video" THEN "quota" ELSE "error")

-----------------------------------------------------------------------------
(* A chain comes to its end.                                                *)

Commit(t) == \E key \in Periods :
  LET tx == p.tx[t]
      append == [CommitConfiguration(p, t) EXCEPT
                   !.owner[KindOf(tx.target)] = NoTx, !.tx[t] = Idle,
                   !.appendFailures = 0]
      switched == [CommitConfiguration(p, t) EXCEPT
                     !.active[tx.role] = IF tx.back THEN tx.prev ELSE tx.target,
                     !.blacklist = IF tx.back /\ tx.role = "video"
                                   THEN @ \cup {tx.target} ELSE @,
                     !.wantAudio = IF tx.back /\ @ = tx.target
                                   THEN None ELSE @]
      repaired == [CommitConfiguration(p, t) EXCEPT
                     !.appendFailures = IF tx.role = "recovery" THEN 0 ELSE @]
  IN /\ Runs(t) /\ tx.todo = <<>> /\ IsCurrent(p, t)
     /\ p' = FlushPending(
               CASE tx.role = "append" -> append
                 [] tx.role \in Kinds -> Finish(switched, t)
                 [] OTHER -> Finish(repaired, t), key)
     /\ UNCHANGED <<sb, left>>

(* An append fails.  Who lost its ownership has nothing left to say.        *)
AppendFails(t) == \E key \in Periods :
  LET tx == p.tx[t]
      k == KindOf(tx.target)
      s == [QueueReconciliation(p, t) EXCEPT !.owner[k] = NoTx,
                                             !.tx[t] = Idle]
      lower == Videos \ (p.blacklist \cup {tx.target})
      over == [p EXCEPT !.blacklist = @ \cup {tx.target}]
  IN /\ tx.role = "append" /\ tx.failed # None
     /\ UNCHANGED <<sb, left>>
     /\ IF tx.failed = "quota" /\ IsCurrent(p, t) /\ lower # {}
        THEN \E v \in lower :
               LET q == SwitchVideo(over, v, TRUE, FALSE, key)
               IN p' = [q EXCEPT !.tx[t].failed = "abort"]
        ELSE IF p.owner[k] # t THEN p' = [p EXCEPT !.tx[t] = Idle]
        ELSE IF tx.failed = "abort"
          THEN p' = IF s.inFlight = NoTx THEN FlushPending(s, key) ELSE s
        ELSE p' \in HandleAppendFailure(s, tx.target, key)

(* A stale transition that is still the one in flight makes room for what   *)
(* was put off.                                                             *)
ReleaseStale(s, t) ==
  IF s.inFlight = t THEN Finish(QueueReconciliation(s, t), t)
  ELSE [s EXCEPT !.tx[t] = Idle]
HandleStale(s, t, key) ==
  IF s.inFlight = t /\ ~s.dead THEN FlushPending(ReleaseStale(s, t), key)
  ELSE ReleaseStale(s, t)

(* A transition fails: a stale one ends, a switch puts the previous         *)
(* initialization back, and what cannot be put back is queued for repair.   *)
TransitionFails(t) == \E key \in Periods :
  LET tx == p.tx[t]
      queued == Finish(QueueReconciliation(p, t), t)
      undo == [tx EXCEPT !.back = TRUE, !.failed = None, !.todo =
                 IF tx.started
                 THEN <<Prepare(tx.prev), Configure(p, tx.role, tx.prev, key)>>
                 ELSE <<>>]
      lost == [queued EXCEPT
                 !.blacklist = IF tx.role = "video" THEN @ \cup {tx.target}
                               ELSE @,
                 !.wantAudio = IF @ = tx.target THEN None ELSE @]
  IN /\ tx.role \notin {None, "append"} /\ tx.failed # None
     /\ UNCHANGED <<sb, left>>
     /\ p' = IF ~ControlIsCurrent(p, t) THEN HandleStale(p, t, key)
             ELSE IF tx.role \in Kinds
               THEN IF tx.back THEN FlushPending(lost, key)
                    ELSE [p EXCEPT !.tx[t] = undo]
             ELSE IF tx.role = "reconcile"
               THEN TryRecovery(queued, "config", key)
             ELSE IF tx.reason = "config" /\ queued.reconcile # {}
               THEN Quiesce(queued)
             ELSE FlushPending(queued, key)

Terminates == Act /\ p' = Quiesce(p) /\ UNCHANGED sb

Next ==
  \/ SelectVariantTrack \/ SelectAudioTrack \/ SeekFar \/ ReportStall
  \/ TickReconcile \/ MaybeSwitchAuto \/ DrainAppendQueue \/ Terminates
  \/ \E t \in Tx : \/ GoesStale(t) \/ PrepareRep(t) \/ WaitForQueue(t)
                    \/ WaitForPeers(t) \/ Enqueue(t) \/ Commit(t)
                    \/ AppendFails(t) \/ TransitionFails(t)
  \/ \E k \in Kinds : \/ OpStarts(k) \/ OpEnds(k)
                       \/ OpFails(k) \/ OpOverQuota(k)

Spec == Init /\ [][Next]_vars

-----------------------------------------------------------------------------
TypeOK ==
  /\ p.inFlight \in Tx \cup {NoTx} /\ p.owner \in [Kinds -> Tx \cup {NoTx}]
  /\ p.active \in [Kinds -> Reps] /\ p.reconcile \subseteq Kinds
  /\ \A k \in Kinds : p.active[k] \in (IF k = "video" THEN Videos ELSE Audios)
  /\ FreeTx(p) # {}

(* Media goes only into a SourceBuffer whose initialization segment is that *)
(* of the media's representation and period, whatever was switched, seeked  *)
(* or recovered between its fetch and its turn in the queue.                *)
MediaMeetsItsInit ==
  \A k \in Kinds :
    sb[k].updating /\ Op(k)[2].do = "media"
      => sb[k].config = <<Op(k)[2].rep, Op(k)[2].key>>

(* When nothing is in flight the viewer's last choice of a rendition plays, *)
(* unless it failed.  This is so of choices that clear the buffer.  One     *)
(* that keeps it is put off until appends are over, and when it is          *)
(* withdrawn meanwhile it plays all the same: choosing the active rendition *)
(* again ends at once and leaves the pending one (native-player-engine.js   *)
(* 7757).                                                                   *)
Settled == /\ ~p.dead /\ p.pendVideo = <<>> /\ p.pendAudio = None
           /\ \A t \in Tx : p.tx[t].role = None
LatestChoiceWins ==
  Settled => p.want \in {None, p.active["video"]} \cup p.blacklist

(* The same of both kinds: a seek or a recovery in the middle of a switch   *)
(* loses neither choice.                                                    *)
ChoiceSurvives ==
  LatestChoiceWins
  /\ (Settled => p.wantAudio \in {None, p.active["audio"]})

(* A choice put off waits for something that will end and resume it.        *)
NoStrandedChoice ==
  p.pendVideo # <<>> \/ p.pendAudio # None =>
    p.inFlight # NoTx \/ AppendWorkInFlight(p)

DashSafe == TypeOK /\ MediaMeetsItsInit /\ ChoiceSurvives /\ NoStrandedChoice
=============================================================================
