-------------------------- MODULE WatchTimeWrites --------------------------
(***************************************************************************)
(* The coalescing write queue for playback positions (server.ts 397-606    *)
(* and the routes at 768-818).  Progress of a video waits for a quiet      *)
(* period and replaces what waits already; a completion is written at once *)
(* and its request is answered when the database has it.  Every web        *)
(* process has a queue of its own in front of the one database.            *)
(*                                                                         *)
(* A position is its version: the number of the request that brought it.   *)
(* One handler, one timer callback and one settled write are a step each,  *)
(* since nothing in them awaits.                                           *)
(***************************************************************************)
EXTENDS Naturals, FiniteSets, FiniteSetsExt

CONSTANTS Procs,       \* web processes
          Keys,        \* user and video
          MaxPending,  \* WATCH_TIME_MAX_PENDING
          Concurrency, \* WATCH_TIME_WRITE_CONCURRENCY
          MaxUpdates,  \* bound: requests in all
          MaxFaults,   \* bound: failed writes and dead processes
          None

ASSUME WatchTimeAssumption ==
  /\ IsFiniteSet(Procs) /\ IsFiniteSet(Keys)
  /\ MaxPending \in Nat \ {0} /\ Concurrency \in Nat \ {0}
  /\ MaxUpdates \in Nat /\ MaxFaults \in Nat

VARIABLES
  q,       \* the queue of each process: the entry of each key, with its place
           \* in the order of the map, and the active writes
  visible, \* visibleWatchTimes of each process, 0 where there is nothing
  phase,   \* of each process: up, closing, flushing or down
  open,    \* completions of each process that are not answered
  stored,  \* the position of each key in the database
  version, \* requests so far
  faults,
  latest,  \* the last update of each key that was taken (history)
  done,    \* completions of each key answered 200 (history)
  dropped  \* updates given up: no room, evicted, failed or lost (history)

history == <<latest, done, dropped>>
vars == <<q, visible, phase, open, stored, version, faults, history>>

Empty == [entry |-> [k \in Keys |-> None], active |-> {}]

Init ==
  /\ q = [p \in Procs |-> Empty]
  /\ visible = [p \in Procs |-> [k \in Keys |-> 0]]
  /\ phase = [p \in Procs |-> "up"]
  /\ open = [p \in Procs |-> {}]
  /\ stored = [k \in Keys |-> 0]
  /\ version = 0 /\ faults = 0
  /\ latest = [k \in Keys |-> 0]
  /\ done = [k \in Keys |-> {}]
  /\ dropped = {}

-----------------------------------------------------------------------------
(* One queue s.                                                            *)
Pending(s) == {k \in Keys : s.entry[k] # None}
Ready(s) == {k \in Pending(s) : s.entry[k].ready}
ActiveKeys(s) == {w.key : w \in s.active}

(* readyWatchTimeWrites is kept in this order by insertPriorityItem.       *)
Before(s, j, k) ==
  \/ s.entry[j].priority < s.entry[k].priority
  \/ /\ s.entry[j].priority = s.entry[k].priority
     /\ s.entry[j].turn < s.entry[k].turn

(* A number after that of every ready entry, as the growing counter gives, *)
(* and one after that of every entry of the map.                           *)
NextTurn(s) == 1 + Max({0} \cup {s.entry[k].turn : k \in Ready(s)})
NextPlace(s) == 1 + Max({0} \cup {s.entry[k].place : k \in Pending(s)})

(* Fault: a key is taken while a write of it is under way.                 *)
Startable_Twice(s) == Ready(s)

Startable(s) == Ready(s) \ ActiveKeys(s)

(* Fault: the first ready entry holds up the others when it cannot start.  *)
Starting_HeadOnly(s) ==
  {k \in Startable(s) :
     /\ Cardinality(s.active) < Concurrency
     /\ \A j \in Ready(s) \ {k} : Before(s, k, j)}

(* takeReadyWatchTimeWrite, as often as there is room: the first ready     *)
(* entries whose key is not being written.                                 *)
Starting(s) ==
  {k \in Startable(s) :
     Cardinality({j \in Startable(s) : Before(s, j, k)}) + Cardinality(s.active)
       < Concurrency}

Drained(s) ==
  LET go == Starting(s)
  IN  [entry |-> [k \in Keys |-> IF k \in go THEN None ELSE s.entry[k]],
       active |-> s.active \cup
         {[key |-> k, ver |-> s.entry[k].ver, waiters |-> s.entry[k].waiters] :
            k \in go}]

(* enqueueReadyWatchTimeWrite.                                             *)
Enqueued(s, k, refreshOrder) ==
  LET e == s.entry[k]
      turn == IF refreshOrder \/ ~e.ready THEN NextTurn(s) ELSE e.turn
  IN  IF e = None THEN s
      ELSE Drained([s EXCEPT !.entry[k] =
             [e EXCEPT !.timer = FALSE, !.ready = TRUE, !.turn = turn]])

(* evictOldestBackgroundWatchTimeWrite looks in the order of the map.      *)
Evictable(s) ==
  {k \in Pending(s) : s.entry[k].priority = 1 /\ s.entry[k].waiters = {}}

(* Fault: one entry too many.                                              *)
Full_OneMore(s, k) ==
  s.entry[k] = None /\ Cardinality(Pending(s)) > MaxPending

Full(s, k) == s.entry[k] = None /\ Cardinality(Pending(s)) >= MaxPending

(* Fault: whatever is oldest goes, a completion somebody waits for as well.*)
Oldest(s, among) ==
  CHOOSE k \in among : \A j \in among : s.entry[k].place <= s.entry[j].place
Victim_Oldest(s) == Oldest(s, Pending(s))

Victim(s) ==
  CHOOSE k \in Evictable(s) :
    \A j \in Evictable(s) : s.entry[k].place <= s.entry[j].place

Removed(s, k) == [s EXCEPT !.entry[k] = None]

(* A new entry, or the pending one with the new position, last in the map. *)
Coalesced(s, k, v, immediate) ==
  LET e == IF s.entry[k] # None THEN [s.entry[k] EXCEPT !.ver = v]
           ELSE [ver |-> v, priority |-> IF immediate THEN 0 ELSE 1,
                 place |-> 0, turn |-> 0, ready |-> FALSE, timer |-> FALSE,
                 waiters |-> {}]
  IN  [s EXCEPT !.entry[k] = [e EXCEPT !.place = NextPlace(Removed(s, k))]]

(* flushAllPendingWatchTimes raises the entries in the order of the map;   *)
(* what was ready keeps its turn.  Starting writes after each of them or   *)
(* after all is the same: while a slot is free, what is ready waits for a  *)
(* write of its own key.                                                   *)
Raised(s, e) ==
  [e EXCEPT !.priority = 0, !.timer = FALSE, !.ready = TRUE,
            !.turn = IF e.ready THEN @ ELSE NextTurn(s) + e.place]
Flushed(s) ==
  Drained([s EXCEPT !.entry = [k \in Keys |->
             IF s.entry[k] = None THEN None ELSE Raised(s, s.entry[k])]])

-----------------------------------------------------------------------------
(* POST /api/watch-time: queueWatchTimeWrite.  What is shown is changed    *)
(* before the room is looked at.                                           *)
Show(p, k, v) == visible' = [visible EXCEPT ![p][k] = v]

Refuse(p, k) ==
  /\ phase[p] = "up" /\ version < MaxUpdates
  /\ Full(q[p], k) /\ Evictable(q[p]) = {}
  /\ version' = version + 1
  /\ Show(p, k, version')
  /\ dropped' = dropped \cup {version'}
  /\ UNCHANGED <<q, phase, open, stored, faults, latest, done>>

(* The queue with room for k, and the update that had to go.               *)
Room(p, k) ==
  IF Full(q[p], k) THEN Removed(q[p], Victim(q[p])) ELSE q[p]
Evicted(p, k) ==
  IF Full(q[p], k) THEN {q[p].entry[Victim(q[p])].ver} ELSE {}

Accept(p, k) ==
  /\ phase[p] = "up" /\ version < MaxUpdates
  /\ ~Full(q[p], k) \/ Evictable(q[p]) # {}
  /\ version' = version + 1
  /\ Show(p, k, version')
  /\ latest' = [latest EXCEPT ![k] = version']
  /\ dropped' = dropped \cup Evicted(p, k)
  /\ UNCHANGED <<phase, stored, faults, done>>

(* The timer starts anew, unless the entry is ready to be written.         *)
Progress(p, k) ==
  LET s == Coalesced(Room(p, k), k, version + 1, FALSE)
  IN  /\ Accept(p, k)
      /\ q' = [q EXCEPT ![p] =
           IF s.entry[k].ready THEN Enqueued(s, k, TRUE)
           ELSE [s EXCEPT !.entry[k].timer = TRUE]]
      /\ UNCHANGED open

Completion(p, k) ==
  LET s == Coalesced(Room(p, k), k, version + 1, TRUE)
      e == [s.entry[k] EXCEPT !.priority = 0, !.waiters = @ \cup {version + 1}]
  IN  /\ Accept(p, k)
      /\ q' = [q EXCEPT ![p] = Enqueued([s EXCEPT !.entry[k] = e], k, TRUE)]
      /\ open' = [open EXCEPT ![p] = @ \cup {version + 1}]

Fire(p, k) ==
  /\ q[p].entry[k] # None /\ q[p].entry[k].timer
  /\ q' = [q EXCEPT ![p] = Enqueued(@, k, FALSE)]
  /\ UNCHANGED <<visible, phase, open, stored, version, faults, history>>

(* finally: the key is free, and the next write starts.                    *)
Settled(s, w) == Drained([s EXCEPT !.active = @ \ {w}])

Write(p, w) ==
  /\ stored' = [stored EXCEPT ![w.key] = w.ver]
  /\ open' = [open EXCEPT ![p] = @ \ w.waiters]
  /\ done' = [done EXCEPT ![w.key] = @ \cup w.waiters]
  /\ q' = [q EXCEPT ![p] = Settled(@, w)]
  /\ UNCHANGED <<visible, phase, version, faults, latest, dropped>>

(* Fault: the requests that wait are told that all is well.                *)
WriteFails_Answered(p, w) ==
  /\ faults < MaxFaults
  /\ faults' = faults + 1
  /\ open' = [open EXCEPT ![p] = @ \ w.waiters]
  /\ done' = [done EXCEPT ![w.key] = @ \cup w.waiters]
  /\ dropped' = dropped \cup {w.ver}
  /\ q' = [q EXCEPT ![p] = Settled(@, w)]
  /\ UNCHANGED <<visible, phase, stored, version, latest>>

WriteFails(p, w) ==
  /\ faults < MaxFaults
  /\ faults' = faults + 1
  /\ open' = [open EXCEPT ![p] = @ \ w.waiters]
  /\ dropped' = dropped \cup {w.ver}
  /\ q' = [q EXCEPT ![p] = Settled(@, w)]
  /\ UNCHANGED <<visible, phase, stored, version, latest, done>>

(* Fault: it lives no longer than the quiet period.                        *)
VisibleExpires_Short(p, k) ==
  /\ visible[p][k] # 0
  /\ visible' = [visible EXCEPT ![p][k] = 0]
  /\ UNCHANGED <<q, phase, open, stored, version, faults, history>>

(* The entry lives for a minute at least, longer than writes take.         *)
VisibleExpires(p, k) ==
  /\ visible[p][k] # 0
  /\ q[p].entry[k] = None /\ k \notin ActiveKeys(q[p])
  /\ visible' = [visible EXCEPT ![p][k] = 0]
  /\ UNCHANGED <<q, phase, open, stored, version, faults, history>>

-----------------------------------------------------------------------------
(* gracefulShutdown: no new requests; once the last one is answered, all   *)
(* that is pending is written; then the process exits.                     *)
Close(p) ==
  /\ phase[p] = "up"
  /\ phase' = [phase EXCEPT ![p] = "closing"]
  /\ UNCHANGED <<q, visible, open, stored, version, faults, history>>

Flush(p) ==
  /\ phase[p] = "closing" /\ open[p] = {}
  /\ phase' = [phase EXCEPT ![p] = "flushing"]
  /\ q' = [q EXCEPT ![p] = Flushed(@)]
  /\ UNCHANGED <<visible, open, stored, version, faults, history>>

Idle(s) == Pending(s) = {} /\ s.active = {}

(* Fault: the first write that ends lets the process go.                   *)
Exit_FirstSlot(p) ==
  /\ phase[p] = "flushing" /\ Cardinality(q[p].active) < Concurrency
  /\ phase' = [phase EXCEPT ![p] = "down"]
  /\ q' = [q EXCEPT ![p] = Empty]
  /\ visible' = [visible EXCEPT ![p] = [k \in Keys |-> 0]]
  /\ UNCHANGED <<open, stored, version, faults, history>>

Exit(p) ==
  /\ phase[p] = "flushing" /\ Idle(q[p])
  /\ phase' = [phase EXCEPT ![p] = "down"]
  /\ visible' = [visible EXCEPT ![p] = [k \in Keys |-> 0]]
  /\ UNCHANGED <<q, open, stored, version, faults, history>>

(* The process dies, or exits after the five seconds; a write that was     *)
(* under way may have reached the database.                                *)
Crash(p) ==
  /\ phase[p] # "down"
  /\ faults < MaxFaults
  /\ faults' = faults + 1
  /\ \E landed \in SUBSET q[p].active :
       /\ stored' = [k \in Keys |->
            IF \E w \in landed : w.key = k
            THEN (CHOOSE w \in landed : w.key = k).ver ELSE stored[k]]
       /\ dropped' = dropped
            \cup {q[p].entry[k].ver : k \in Pending(q[p])}
            \cup {w.ver : w \in q[p].active \ landed}
  /\ phase' = [phase EXCEPT ![p] = "down"]
  /\ q' = [q EXCEPT ![p] = Empty]
  /\ visible' = [visible EXCEPT ![p] = [k \in Keys |-> 0]]
  /\ open' = [open EXCEPT ![p] = {}]
  /\ UNCHANGED <<version, latest, done>>

(* cluster.ts and systemd start it again.                                  *)
Restart(p) ==
  /\ phase[p] = "down"
  /\ phase' = [phase EXCEPT ![p] = "up"]
  /\ UNCHANGED <<q, visible, open, stored, version, faults, history>>

Next ==
  \E p \in Procs :
    \/ \E k \in Keys :
         \/ Refuse(p, k) \/ Progress(p, k) \/ Completion(p, k)
         \/ Fire(p, k) \/ VisibleExpires(p, k)
    \/ \E w \in q[p].active : Write(p, w) \/ WriteFails(p, w)
    \/ Close(p) \/ Flush(p) \/ Exit(p) \/ Crash(p) \/ Restart(p)

Spec == Init /\ [][Next]_vars

-----------------------------------------------------------------------------
Versions == 1..MaxUpdates

Entry == [ver : Versions, priority : {0, 1}, place : Nat, turn : Nat,
          ready : BOOLEAN, timer : BOOLEAN, waiters : SUBSET Versions]

ASSUME NoneAssumption == None \notin Entry

Queue == [entry : [Keys -> Entry \cup {None}],
          active : SUBSET [key : Keys, ver : Versions,
                           waiters : SUBSET Versions]]

TypeOK ==
  /\ q \in [Procs -> Queue]
  /\ \A p \in Procs :
       /\ Cardinality(Pending(q[p])) <= MaxPending
       /\ Cardinality(q[p].active) <= Concurrency
  /\ visible \in [Procs -> [Keys -> 0..MaxUpdates]]
  /\ phase \in [Procs -> {"up", "closing", "flushing", "down"}]
  /\ open \in [Procs -> SUBSET Versions]
  /\ stored \in [Keys -> 0..MaxUpdates]
  /\ version \in 0..MaxUpdates /\ faults \in 0..MaxFaults
  /\ latest \in [Keys -> 0..MaxUpdates]
  /\ done \in [Keys -> SUBSET Versions]
  /\ dropped \subseteq Versions

(* An update that waits has a timer to run out or a place in the ready     *)
(* array, and nothing ready waits while a write could start: no update is  *)
(* forgotten in the map.                                                   *)
NoForgottenUpdate ==
  \A p \in Procs :
    /\ \A k \in Pending(q[p]) : q[p].entry[k].timer # q[p].entry[k].ready
    /\ Cardinality(q[p].active) < Concurrency => Startable(q[p]) = {}

(* Somebody waits for every completion that is not answered: eviction and  *)
(* coalescing never take an entry from its waiters.                        *)
Waiters(s) ==
  UNION ({s.entry[k].waiters : k \in Pending(s)}
           \cup {w.waiters : w \in s.active})
EveryWaiterKept == \A p \in Procs : open[p] = Waiters(q[p])

(* A completion that was answered is in the database, or something newer   *)
(* is, whatever writes fail or processes die later.                        *)
CompletionDurable == \A k \in Keys : \A v \in done[k] : stored[k] >= v

(* Across processes, where completions of one key may be written in either *)
(* order: at least no progress that was reported before a completion       *)
(* replaces it.                                                            *)
CompletionStays ==
  \A k \in Keys : stored[k] \in done[k] \/ \A v \in done[k] : stored[k] >= v

(* An older position never replaces a newer one.                           *)
NewestWins == [][\A k \in Keys : stored'[k] >= stored[k]]_vars

(* When nothing is pending and nothing being written, the database has the *)
(* last update that was taken and not given up; after an orderly exit too. *)
RestsOnNewest ==
  (\A p \in Procs : Idle(q[p])) =>
    \A k \in Keys : latest[k] \in dropped \/ stored[k] = latest[k]

(* Reads after a write return it, or what came later.                      *)
Read(p, k) == IF visible[p][k] # 0 THEN visible[p][k] ELSE stored[k]
ReadAfterWrite ==
  \A p \in Procs, k \in Keys :
    phase[p] = "up" => latest[k] \in dropped \/ Read(p, k) >= latest[k]

(* No update is forgotten in the map and no waiter is taken from its entry. *)
UpdatesKept == NoForgottenUpdate /\ EveryWaiterKept

(* What was taken is neither lost nor served older than it was: answered   *)
(* completions stay, the database rests on the newest update and reads see *)
(* their own writes.                                                       *)
NothingLost == CompletionDurable /\ RestsOnNewest /\ ReadAfterWrite
=============================================================================
