--------------------------- MODULE SegmentLedger ----------------------------
(* The DASH provider's ledger of one SourceBuffer: which segment of which   *)
(* rendition is wanted, fetched, appended.  What the SourceBuffer really    *)
(* holds only the browser knows; seeks, trims, watchdogs, switches and      *)
(* manifest refreshes each correct a part of the ledger.                    *)
(*                                                                          *)
(* l is the provider with its ledgers and what is under way, holds what the *)
(* SourceBuffer contains, ct the segment at the playhead, budget the bounds.  *)
EXTENDS Integers, FiniteSets, FiniteSetsExt

CONSTANTS Reps,          \* renditions 1..Reps, best first
          N,             \* segments 1..N of each
          Goal,          \* segments ahead to be fetched
          Behind,        \* segments behind that are kept
          MaxConcurrent, \* maxConcurrentMediaRequests
          Live,          \* the manifest is dynamic
          MaxUser, MaxSlow, MaxFail

VARIABLES l, holds, ct, budget
vars == <<l, holds, ct, budget>>

Segs == 1 .. N
None == 0
Pending == [state |-> "pending", appended |-> FALSE, data |-> FALSE,
            stamped |-> FALSE, late |-> FALSE]
Busy == {"fetching", "fetched", "appending"}

Init ==
  /\ l = [seg |-> [r \in 1 .. Reps |-> [s \in Segs |-> Pending]],
          owner |-> [r \in 1 .. Reps |-> None],
          active |-> 1, gen |-> 1, ranges |-> {}, bad |-> {},
          fetch |-> {}, append |-> {}, remove |-> {}, recovering |-> {},
          refreshed |-> {}, switch |-> None, clear |-> FALSE,
          ended |-> FALSE, refill |-> FALSE, closing |-> FALSE,
          stage |-> 0, reports |-> 0, tried |-> {}, dead |-> FALSE,
          lost |-> {}]
  /\ holds = {} /\ ct = 1
  /\ budget = [user |-> MaxUser, slow |-> MaxSlow, fail |-> MaxFail]

Updating(x) == x.append # {} \/ x.remove # {}

(* A request and an append belong to the segment object they were started   *)
(* for; a refresh may have put another one in its place.                    *)
Job(x, r, s) == [rep |-> r, seg |-> s, gen |-> x.gen, old |-> FALSE]
Mine(x, s) == x.seg[x.active][s]
Mark(x, r, F(_)) == [x EXCEPT !.seg[r] = [s \in Segs |-> F(s)]]

-----------------------------------------------------------------------------
(* What marks the segments of a rendition.                                  *)

IsSegmentBusyOrDone(seg) ==
  seg.appended \/ seg.state \in Busy \cup {"appended"}

MarkUnappended(x, r) ==
  Mark(x, r, LAMBDA s : [x.seg[r][s] EXCEPT !.appended = FALSE,
                                            !.state = "pending"])

MarkCovered(x, r, buffered) ==
  Mark(x, r, LAMBDA s :
    IF s \in buffered
    THEN [x.seg[r][s] EXCEPT !.appended = TRUE, !.state = "appended"]
    ELSE x.seg[r][s])

MarkForTime(x, r, time) ==
  Mark(x, r, LAMBDA s :
    IF s < time - 1 \/ s > time + Goal \/ x.seg[r][s].state = "failed"
    THEN [x.seg[r][s] EXCEPT !.state = "pending", !.appended = FALSE]
    ELSE x.seg[r][s])

Refill_Fault(x, r, buffered, time) == (* Fault: what was trimmed stays done. *)
  MarkForTime(MarkCovered(x, r, buffered), r, time)
Refill(x, r, buffered, time) ==
  MarkForTime(MarkCovered(MarkUnappended(x, r), r, buffered), r, time)

Invalidate_Fault(x, range, kept) == x (* Fault: removed ranges stay appended. *)
Invalidate(x, range, kept) ==
  [x EXCEPT !.seg = [r \in 1 .. Reps |-> [s \in Segs |->
     IF s \notin range \ kept \/ x.seg[r][s].state = "expired"
     THEN x.seg[r][s] ELSE Pending]]]

AbortRequests_Fault(x) == (* Fault: the segments stay marked as requested. *)
  [x EXCEPT !.owner[x.active] = None,
            !.gen = @ + 1, !.ranges = {}, !.switch = None]
AbortRequests(x) ==
  [Mark(x, x.active, LAMBDA s :
     IF Mine(x, s).state \in Busy THEN Pending ELSE Mine(x, s))
     EXCEPT !.owner[x.active] = None,
            !.gen = @ + 1, !.ranges = {}, !.switch = None]

-----------------------------------------------------------------------------
(* The end of a VOD stream.                                                 *)

PrepareVodStreamRefill(x) ==
  IF Live \/ ~x.ended \/ x.refill THEN x
  ELSE [x EXCEPT !.closing = FALSE, !.refill = TRUE]

(* Everything is appended, and the SourceBuffer reaches to the end.         *)
AppendedThroughEnd(x, buffered) == Mine(x, N).appended /\ N \in buffered
Closing(x, buffered) == x.closing \/ AppendedThroughEnd(x, buffered)

MaybeEndVodStream(x, buffered) ==
  LET closing == Closing(x, buffered)
  IN IF Live \/ ~closing THEN x
     ELSE IF x.ended THEN [x EXCEPT !.closing = FALSE]
     ELSE IF Updating(x) THEN [x EXCEPT !.closing = TRUE]
     ELSE [x EXCEPT !.closing = FALSE, !.ended = TRUE, !.refill = FALSE]

-----------------------------------------------------------------------------
(* The scheduler: appends in order, requests from the playhead on.          *)

Wanted(s, time) == s >= time
Earlier(s, time) == {o \in Segs : time <= o /\ o < s}

(* What has been fetching or appending for too long holds nobody back.      *)
Watchdog(x, s, time) ==
  Mark(x, x.active, LAMBDA o :
    IF o \in Earlier(s, time) /\ Mine(x, o).late THEN Pending ELSE Mine(x, o))

DrainAppendQueue(x, time) ==
  LET fetched == {s \in Segs : Wanted(s, time) /\ Mine(x, s).data
                               /\ Mine(x, s).state = "fetched"}
      s == Min(fetched)
      y == Watchdog(x, s, time)
  IN IF \/ x.switch # None \/ Updating(x)
        \/ x.owner[x.active] # None \/ fetched = {} THEN x
     ELSE IF \E o \in Earlier(s, time) : Mine(y, o).state \in Busy THEN y
     ELSE [y EXCEPT !.owner[x.active] = x.gen, !.append = {Job(x, x.active, s)},
                    !.ended = FALSE,
                    !.seg[x.active][s] = [@ EXCEPT !.state = "appending",
                                            !.data = FALSE, !.stamped = TRUE,
                                            !.late = FALSE]]

Candidates(x, time) ==
  {s \in Segs : /\ Wanted(s, time) /\ s < time + Goal
                /\ Mine(x, s).state # "expired"
                /\ ~IsSegmentBusyOrDone(Mine(x, s))}
Capacity(x) == MaxConcurrent - Cardinality(x.ranges)

(* Those that begin: the nearest ones, as many as there is room for.  One   *)
(* whose range is still being fetched does not take a place.                *)
Requested(x, time) ==
  LET free == {s \in Candidates(x, time) : <<x.active, s>> \notin x.ranges}
      now == {s \in free : Cardinality({o \in free : o < s}) < Capacity(x)}
  IN [Mark(x, x.active, LAMBDA s :
        IF s \in now THEN [Mine(x, s) EXCEPT !.state = "fetching",
                              !.stamped = TRUE, !.late = FALSE]
        ELSE Mine(x, s))
      EXCEPT !.ranges = @ \cup {<<x.active, s>> : s \in now},
             !.fetch = @ \cup {Job(x, x.active, s) : s \in now}]
ScheduleMediaRequests(x, time) ==
  IF x.switch # None THEN x ELSE Requested(DrainAppendQueue(x, time), time)

Scheduled(x, time) ==
  IF x.dead \/ (x.ended /\ ~x.refill) \/ x.switch # None THEN x
  ELSE ScheduleMediaRequests(x, time)
Tick(x, buffered, time) == Scheduled(MaybeEndVodStream(x, buffered), time)

-----------------------------------------------------------------------------
(* Switches, recovery and failures.  The operations on the SourceBuffer     *)
(* that make them up are the subject of DashTransitions: here a switch      *)
(* begins, waits until the append under way is over, and ends.              *)

SwitchVideo(x, r, clear) ==
  IF r = x.active \/ x.switch # None \/ (~clear /\ x.owner[x.active] # None)
  THEN x
  ELSE [(IF clear THEN AbortRequests(x) ELSE x)
          EXCEPT !.switch = r, !.clear = clear]

TryNativeRecovery(x, reason) ==
  IF x.switch # None THEN x
  ELSE [AbortRequests(x) EXCEPT !.switch = x.active, !.clear = TRUE,
                                !.tried = @ \cup {reason}]

Lower(x) == {r \in 1 .. Reps : r # x.active /\ r \notin x.bad}

HandleAppendFailure(x) ==
  IF "append" \notin x.tried THEN TryNativeRecovery(x, "append")
  ELSE IF Lower(x) = {} THEN [x EXCEPT !.dead = TRUE]
  ELSE SwitchVideo([x EXCEPT !.bad = @ \cup {x.active}], Min(Lower(x)), TRUE)

SwitchEnds(x, buffered) ==
  LET y == [x EXCEPT !.active = x.switch, !.switch = None,
                     !.reports = IF x.switch = x.active THEN 0 ELSE @]
  IN Tick(IF x.switch = x.active THEN MarkForTime(y, y.active, ct) ELSE y,
          buffered, ct)

-----------------------------------------------------------------------------
Act == budget.user > 0 /\ budget' = [budget EXCEPT !.user = @ - 1]
Fail == budget.fail > 0 /\ budget' = [budget EXCEPT !.fail = @ - 1]
Set(x) == l' = x

Timer == /\ ~l.dead
         /\ Set(Tick(l, holds, ct))
         /\ UNCHANGED <<holds, ct, budget>>

Plays == /\ ct \in holds /\ ct < N
         /\ ct' = ct + 1
         /\ UNCHANGED <<l, holds, budget>>

(* _trim: what lies far behind goes, whatever the ledger says.              *)
Trim == /\ ~l.dead /\ ~Updating(l)
        /\ \E s \in holds : s < ct - Behind
        /\ holds' = {s \in holds : s >= ct - Behind}
        /\ UNCHANGED <<l, ct, budget>>

OnSeek == \E t \in Segs \ {ct} :
  /\ ~l.dead /\ Act
  /\ ct' = t
  /\ Set(IF t \in holds THEN l
         ELSE LET x == PrepareVodStreamRefill(AbortRequests(l))
              IN Tick(Refill(x, x.active, holds, t), holds, t))
  /\ UNCHANGED holds

MaybeSwitch == \E r \in (1 .. Reps) \ {l.active}, clear \in BOOLEAN :
  /\ ~l.dead /\ Act
  /\ Set(SwitchVideo(l, r, clear)) /\ l' # l
  /\ UNCHANGED <<holds, ct>>

(* The buffer is kept, and then what it covers counts as appended; or it is *)
(* removed up to the segment at the playhead, which takes time.             *)
SwitchGoesOn ==
  /\ ~l.dead /\ l.switch # None /\ ~Updating(l)
  /\ Set(IF l.clear /\ holds # {}
         THEN [(IF l.switch = l.active THEN l ELSE MarkUnappended(l, l.switch))
                 EXCEPT !.remove = {[upto |-> ct, gen |-> l.gen, kept |-> {}]}]
         ELSE SwitchEnds(IF l.clear THEN MarkUnappended(l, l.switch)
                         ELSE MarkCovered(l, l.switch, holds), holds))
  /\ UNCHANGED <<holds, ct, budget>>

(* Who waited for a removal corrects the ledgers, if it is still current;   *)
(* l.lost remembers what an outdated one took without anybody noticing.     *)
RemoveDone == \E m \in l.remove :
  LET x == [l EXCEPT !.remove = {}]
      y == Invalidate(x, 1 .. m.upto, m.kept)
  IN /\ holds' = holds \ (1 .. m.upto)
     /\ Set(IF l.dead \/ m.gen # l.gen
            THEN [x EXCEPT !.lost = @ \cup (holds \cap (1 .. m.upto))]
            ELSE IF l.switch = None THEN y
            ELSE SwitchEnds(y, holds'))
     /\ UNCHANGED <<ct, budget>>

-----------------------------------------------------------------------------
(* A request ends.  Its handlers see the object it was started for.         *)

Touch(x, j, f) == IF j.old THEN x ELSE [x EXCEPT !.seg[j.rep][j.seg] = f]
Gone(x, j) == [x EXCEPT !.fetch = @ \ {j}, !.ranges = @ \ {<<j.rep, j.seg>>}]
Of(j) == l.seg[j.rep][j.seg]

(* Whatever such a request brings after an abort is an abort for it.        *)
Outdated(j) == j.gen # l.gen

FetchDone == \E j \in l.fetch :
  /\ ~Outdated(j) /\ ~l.dead
  /\ LET x == Touch(Gone(l, j), j,
                    [Of(j) EXCEPT !.state = "fetched", !.data = TRUE,
                                  !.late = FALSE])
     IN \E y \in {IF j.rep = x.active THEN DrainAppendQueue(x, ct) ELSE x} :
          Set(Tick(y, holds, ct))
  /\ UNCHANGED <<holds, ct, budget>>

(* An aborted request ends later: the range it deletes may be another's.    *)
FetchAborted == \E j \in l.fetch :
  /\ Outdated(j)
  /\ Set(Touch(Gone(l, j), j, [Of(j) EXCEPT !.stamped = FALSE, !.late = FALSE]))
  /\ UNCHANGED <<holds, ct, budget>>

FetchFails == \E j \in l.fetch :
  LET failed(state) == Touch(Gone(l, j), j,
                         [Of(j) EXCEPT !.state = state, !.appended = FALSE,
                                       !.stamped = FALSE, !.late = FALSE])
  IN /\ ~Outdated(j) /\ ~l.dead /\ Fail
     /\ \/ /\ <<j.rep, j.seg>> \notin l.refreshed
           /\ Set([failed("recovering") EXCEPT
                     !.refreshed = @ \cup {<<j.rep, j.seg>>},
                     !.recovering = @ \cup {j}])
        \/ Set(HandleAppendFailure(failed("failed")))
     /\ UNCHANGED <<holds, ct>>

(* The manifest is refreshed.  That of a VOD keeps the segments that are    *)
(* busy; that of a live stream copies their state into new ones.            *)
Refreshed(x) ==
  LET fresh(seg) ==
        IF Live THEN [seg EXCEPT !.data = FALSE, !.stamped = FALSE,
                                 !.late = FALSE]
        ELSE IF seg.state \in Busy THEN seg
        ELSE [Pending EXCEPT !.appended = seg.appended, !.state =
                IF seg.state \in {"failed", "recovering"} THEN "pending"
                ELSE seg.state]
      kept(j) == ~Live /\ l.seg[j.rep][j.seg].state \in Busy
      aged(set) == {IF kept(j) THEN j ELSE [j EXCEPT !.old = TRUE] : j \in set}
  IN [x EXCEPT !.seg = [r \in 1 .. Reps |-> [s \in Segs |-> fresh(@[r][s])]],
               !.fetch = aged(@), !.append = aged(@), !.recovering = aged(@)]

RecoverMediaRequest == \E j \in l.recovering :
  LET x == [Refreshed(l) EXCEPT !.recovering = @ \ {j, [j EXCEPT !.old = TRUE]}]
  IN /\ ~l.dead
     /\ \/ Set(Tick(x, holds, ct)) /\ UNCHANGED budget
        \/ /\ Fail
           /\ Set(HandleAppendFailure(
                    Touch([l EXCEPT !.recovering = @ \ {j}], j,
                          [Of(j) EXCEPT !.state = "failed"])))
     /\ UNCHANGED <<holds, ct>>

LiveRefresh ==
  /\ Live /\ ~l.dead /\ Act
  /\ Set(Tick(Refreshed(l), holds, ct))
  /\ UNCHANGED <<holds, ct>>

(* A request or an append takes long; the next one to be appended sees it.  *)
Slow == \E s \in Segs :
  /\ budget.slow > 0 /\ budget' = [budget EXCEPT !.slow = @ - 1]
  /\ Mine(l, s).stamped /\ ~Mine(l, s).late
  /\ Mine(l, s).state \in {"fetching", "appending"}
  /\ Set([l EXCEPT !.seg[l.active][s].late = TRUE])
  /\ UNCHANGED <<holds, ct>>

-----------------------------------------------------------------------------
(* The append ends: the bytes are there even when nobody waits for them.    *)

Current(j) == /\ j.gen = l.gen /\ l.owner[j.rep] = j.gen /\ l.active = j.rep
AppendDone == \E j \in l.append :
  LET x == Touch([l EXCEPT !.append = {}, !.owner[j.rep] = None,
                           !.stage = 0, !.reports = 0], j,
                 [Of(j) EXCEPT !.state = "appended", !.appended = TRUE,
                               !.stamped = FALSE, !.late = FALSE])
  IN /\ l.remove = {}
     /\ holds' = holds \cup {j.seg}
     /\ \E y \in {MaybeEndVodStream(DrainAppendQueue(x, ct), holds')} :
          Set(IF l.dead \/ ~Current(j) THEN [l EXCEPT !.append = {}]
              ELSE Tick(y, holds', ct))
     /\ UNCHANGED <<ct, budget>>

AppendFails == \E j \in l.append :
  LET x == [l EXCEPT !.append = {}]
      failed == Touch([x EXCEPT !.owner[j.rep] = None], j,
                      [Of(j) EXCEPT !.state = "failed", !.appended = FALSE,
                                    !.stamped = FALSE, !.late = FALSE])
  IN /\ Fail /\ l.remove = {}
     /\ Set(IF l.dead \/ ~Current(j) THEN x ELSE HandleAppendFailure(failed))
     /\ UNCHANGED <<holds, ct>>

(* The quota is exceeded: what lies behind is removed and the append tried  *)
(* again, unless it is outdated by then.                                    *)
RecoverQuota == \E j \in l.append :
  /\ Fail /\ ~l.dead /\ Current(j) /\ \E s \in holds : s < ct
  /\ l.remove = {}
  /\ Set([l EXCEPT !.remove = {[upto |-> ct - 1, gen |-> l.gen,
                                kept |-> {j.seg}]}])
  /\ UNCHANGED <<holds, ct>>

-----------------------------------------------------------------------------
(* The page reports a stall: the ladder of remedies.                        *)

Stalled == ~l.dead /\ ct \notin holds /\ ~Updating(l) /\ l.switch = None
ReportStall == \E x \in {Tick(PrepareVodStreamRefill(l), holds, ct)} :
  LET n == [x EXCEPT !.reports = IF @ < 3 THEN @ + 1 ELSE 3]
      again == Tick(IF l.ended /\ x.refill THEN Refill(n, n.active, holds, ct)
                    ELSE MarkForTime(n, n.active, ct), holds, ct)
  IN /\ Stalled
     /\ UNCHANGED <<holds, ct, budget>>
     /\ Set(IF n.stage = 0 THEN [again EXCEPT !.stage = 1]
            ELSE IF n.stage = 1 /\ "stall" \notin n.tried
              THEN TryNativeRecovery([n EXCEPT !.stage = 2], "stall")
            ELSE IF n.stage = 1 /\ Lower(n) # {}
              THEN SwitchVideo(
                     [n EXCEPT !.stage = 3, !.bad = @ \cup {n.active}],
                     Min(Lower(n)), TRUE)
            ELSE IF n.reports = 3 THEN [n EXCEPT !.dead = TRUE]
            ELSE n)

Next ==
  \/ Timer \/ Plays \/ Trim \/ OnSeek \/ MaybeSwitch \/ SwitchGoesOn
  \/ RemoveDone \/ FetchDone \/ FetchAborted \/ FetchFails
  \/ RecoverMediaRequest \/ LiveRefresh \/ Slow \/ AppendDone \/ AppendFails
  \/ RecoverQuota \/ ReportStall

Spec == Init /\ [][Next]_vars

-----------------------------------------------------------------------------
TypeOK ==
  /\ l.active \in 1 .. Reps /\ l.switch \in 0 .. Reps
  /\ holds \subseteq Segs /\ ct \in Segs /\ Cardinality(l.append) <= 1
  /\ l.ranges \subseteq (1 .. Reps) \X Segs

(* What the ledger calls appended at or after the playhead is in the        *)
(* SourceBuffer: else nobody would ever fetch it and playback would stop.   *)
(* A removal that a seek outdated may take what the seek just entered.      *)
NoHole ==
  \A s \in ct .. N : Mine(l, s).appended => s \in holds \cup l.lost

(* What the ledger calls busy is being worked on.                           *)
BusyHasWork ==
  ~l.dead => \A s \in Segs :
    /\ Mine(l, s).state = "fetching" =>
         \E j \in l.fetch : j.rep = l.active /\ j.seg = s /\ ~j.old
                            /\ j.gen = l.gen
    /\ Mine(l, s).state = "fetched" => Mine(l, s).data
    /\ Mine(l, s).state = "appending" =>
         \E j \in l.append : j.seg = s /\ Current(j)

(* While the segment at the playhead is missing, something is under way or  *)
(* the next tick begins it, without waiting for the page to report a stall. *)
Quiet == /\ l.fetch = {} /\ l.recovering = {} /\ ~Updating(l)
         /\ l.switch = None /\ ~(l.ended /\ ~l.refill)
MissingIsFetched ==
  ~l.dead /\ Quiet /\ ct \notin holds \cup l.lost => Tick(l, holds, ct) # l

LedgerTruthful == NoHole /\ BusyHasWork /\ MissingIsFetched
=============================================================================
