----------------------------- MODULE LocalSlots -----------------------------
(***************************************************************************)
(* The in-process yt-dlp semaphore of one server process                   *)
(* (routes/stream/shared.ts: acquireLocalYtdlpSlot, releaseLocalYtdlpSlot, *)
(* and the local half of runYtdlpTaskWithAdmission).  At most              *)
(* MaxConcurrent tasks hold a slot; the others wait in an array ordered by *)
(* priority and, within a priority, by arrival.  A release hands its slot  *)
(* to the head of the queue without touching the counter.                  *)
(*                                                                         *)
(* JavaScript runs one callback at a time, so each action is one callback. *)
(* What is not atomic is the gap between a promise being resolved and the  *)
(* awaiting function continuing: a task is "granted" in that gap, and its  *)
(* request may be aborted there.                                           *)
(***************************************************************************)
EXTENDS Naturals, FiniteSets, SequencesExt

CONSTANTS Tasks,          \* requests that may ask for a slot, again and again
          BackgroundTasks,\* those with priority 'background' or 'prefetch'
          MaxConcurrent,  \* MAX_CONCURRENT_YTDLP
          MaxQueue        \* YTDLP_MAX_QUEUE

\* The limits the environment variables are clamped to (shared.ts 233-234).
ASSUME SlotsAssumption ==
  /\ IsFiniteSet(Tasks)
  /\ BackgroundTasks \subseteq Tasks
  /\ MaxConcurrent \in Nat \ {0}
  /\ MaxQueue \in Nat \ {0}

VARIABLES active,   \* activeLocalYtdlp
          queue,    \* ytdlpQueue
          pc,       \* where each task is in runYtdlpTaskWithAdmission
          aborted   \* tasks whose AbortSignal has fired

vars == <<active, queue, pc, aborted>>

-----------------------------------------------------------------------------
Priority(t) == IF t \in BackgroundTasks THEN 10 ELSE 1

(* Faults a change to the comparison could introduce: the newcomer before  *)
(* its peers, always last, and with the priorities the wrong way round.    *)
InsertIndex_BeforePeers(s, t) ==
  Cardinality({i \in DOMAIN s : Priority(s[i]) < Priority(t)}) + 1
InsertIndex_Last(s, t) == Len(s) + 1
InsertIndex_Reversed(s, t) ==
  Cardinality({i \in DOMAIN s : Priority(s[i]) >= Priority(t)}) + 1

(* Where the binary search of insertPriorityItem puts a newcomer: `order`  *)
(* only grows, so it goes behind everything of its priority or better.     *)
InsertIndex(s, t) ==
  Cardinality({i \in DOMAIN s : Priority(s[i]) <= Priority(t)}) + 1

Holders == {t \in Tasks : pc[t] \in {"granted", "running"}}
Waiting == {t \in Tasks : pc[t] = "waiting"}

-----------------------------------------------------------------------------
Init ==
  /\ active = 0
  /\ queue = <<>>
  /\ pc = [t \in Tasks |-> "idle"]
  /\ aborted = {}

(* The request is over; the next one of the same client has a new signal.  *)
Leave(t) ==
  /\ pc' = [pc EXCEPT ![t] = "idle"]
  /\ aborted' = aborted \ {t}

ArriveAborted(t) ==
  /\ pc[t] = "idle"
  /\ t \in aborted
  /\ Leave(t)
  /\ UNCHANGED <<active, queue>>

(* Fault: off by one at the limit.                                         *)
ArriveFree_OneMore(t) ==
  /\ pc[t] = "idle"
  /\ t \notin aborted
  /\ active <= MaxConcurrent
  /\ active' = active + 1
  /\ pc' = [pc EXCEPT ![t] = "granted"]
  /\ UNCHANGED <<queue, aborted>>

ArriveFree(t) ==
  /\ pc[t] = "idle"
  /\ t \notin aborted
  /\ active < MaxConcurrent
  /\ active' = active + 1
  /\ pc' = [pc EXCEPT ![t] = "granted"]
  /\ UNCHANGED <<queue, aborted>>

(* Not even a place in the queue: YtdlpAdmissionError('queue_full').       *)
ArriveQueueFull(t) ==
  /\ pc[t] = "idle"
  /\ t \notin aborted
  /\ active >= MaxConcurrent
  /\ Len(queue) >= MaxQueue
  /\ UNCHANGED vars

(* Fault: the queue limit is checked too late.                             *)
ArriveQueued_OneMore(t) ==
  /\ pc[t] = "idle"
  /\ t \notin aborted
  /\ active >= MaxConcurrent
  /\ Len(queue) <= MaxQueue
  /\ queue' = InsertAt(queue, InsertIndex(queue, t), t)
  /\ pc' = [pc EXCEPT ![t] = "waiting"]
  /\ UNCHANGED <<active, aborted>>

ArriveQueued(t) ==
  /\ pc[t] = "idle"
  /\ t \notin aborted
  /\ active >= MaxConcurrent
  /\ Len(queue) < MaxQueue
  /\ queue' = InsertAt(queue, InsertIndex(queue, t), t)
  /\ pc' = [pc EXCEPT ![t] = "waiting"]
  /\ UNCHANGED <<active, aborted>>

(* Fault: fail() rejects but forgets removeYtdlpWaiter.                    *)
LeaveQueue_StaysInArray(t) ==
  /\ pc[t] = "waiting"
  /\ Leave(t)
  /\ UNCHANGED <<active, queue>>

(* fail(...) of a queued waiter: it leaves the array and rejects.          *)
LeaveQueue(t) ==
  /\ pc[t] = "waiting"
  /\ \E i \in DOMAIN queue :
       /\ queue[i] = t
       /\ queue' = RemoveAt(queue, i)
  /\ Leave(t)
  /\ UNCHANGED active

Timeout(t) == LeaveQueue(t)

(* The request is aborted.  Only a waiter has an abort listener; in every  *)
(* other place the signal is looked at later.                              *)
Abort(t) ==
  /\ t \notin aborted
  /\ \/ LeaveQueue(t)
     \/ /\ pc[t] # "waiting"
        /\ aborted' = aborted \cup {t}
        /\ UNCHANGED <<active, queue, pc>>

(* Faults: the counter drops although the slot is handed over; the slot is *)
(* freed without waking anybody.                                           *)
ReleaseSlot_CountsTwice(t) ==
  /\ aborted' = aborted \ {t}
  /\ active' = IF active > 0 THEN active - 1 ELSE 0
  /\ IF queue # <<>>
     THEN /\ queue' = Tail(queue)
          /\ pc' = [pc EXCEPT ![t] = "idle", ![Head(queue)] = "granted"]
     ELSE /\ pc' = [pc EXCEPT ![t] = "idle"]
          /\ UNCHANGED queue
ReleaseSlot_WakesNobody(t) ==
  /\ Leave(t)
  /\ active' = IF active > 0 THEN active - 1 ELSE 0
  /\ UNCHANGED queue

(* releaseLocalYtdlpSlot by task t, which then leaves.                     *)
ReleaseSlot(t) ==
  /\ aborted' = aborted \ {t}
  /\ IF queue # <<>>
     THEN /\ queue' = Tail(queue)
          /\ pc' = [pc EXCEPT ![t] = "idle", ![Head(queue)] = "granted"]
          /\ UNCHANGED active
     ELSE /\ active' = IF active > 0 THEN active - 1 ELSE 0
          /\ pc' = [pc EXCEPT ![t] = "idle"]
          /\ UNCHANGED queue

(* Fault: throwIfAborted outside the try block whose finally releases.     *)
Resume_AbortSkipsRelease(t) ==
  /\ pc[t] = "granted"
  /\ \/ t \in aborted /\ Leave(t)
     \/ t \notin aborted /\ pc' = [pc EXCEPT ![t] = "running"] /\ UNCHANGED aborted
  /\ UNCHANGED <<active, queue>>

(* The awaiting function continues: throwIfAborted, then the task itself;  *)
(* the finally block releases on either path.                              *)
Resume(t) ==
  /\ pc[t] = "granted"
  /\ \/ /\ t \in aborted
        /\ ReleaseSlot(t)
     \/ /\ t \notin aborted
        /\ pc' = [pc EXCEPT ![t] = "running"]
        /\ UNCHANGED <<active, queue, aborted>>

(* The task's promise settles, with a value or an error.                   *)
Finish(t) ==
  /\ pc[t] = "running"
  /\ ReleaseSlot(t)

Next ==
  \E t \in Tasks :
    \/ ArriveAborted(t) \/ ArriveFree(t) \/ ArriveQueueFull(t)
    \/ ArriveQueued(t) \/ Timeout(t) \/ Abort(t) \/ Resume(t) \/ Finish(t)

Spec == Init /\ [][Next]_vars

(* Node runs a resolved promise's continuation, and every task settles     *)
(* (yt-dlp itself runs under a deadline).  No timer is assumed to fire.    *)
FairSpec ==
  Spec /\ \A t \in Tasks : WF_vars(Resume(t)) /\ WF_vars(Finish(t))

-----------------------------------------------------------------------------
TypeOK ==
  /\ active \in 0 .. MaxConcurrent
  /\ queue \in Seq(Tasks) /\ Len(queue) <= MaxQueue
  /\ pc \in [Tasks -> {"idle", "waiting", "granted", "running"}]
  /\ aborted \in SUBSET Tasks

(* The array holds exactly the waiting tasks, each of them once: no waiter *)
(* is lost by an abort or a timeout, and none is left behind in the array  *)
(* after its promise has settled.                                          *)
QueueHoldsWaiters ==
  /\ IsInjective(queue)
  /\ ToSet(queue) = Waiting

(* The counter is the number of tasks that own a slot, through hand-overs, *)
(* aborts in the resolve-to-continue gap, and failures: no slot leaks and  *)
(* none is counted twice.                                                  *)
SlotConservation == active = Cardinality(Holders)

(* "Transfer the slot directly so a new arrival cannot overbook between    *)
(* the release and the queued task resuming" (shared.ts 374-375).          *)
NoOverbooking == Cardinality(Holders) <= MaxConcurrent

(* No lost wake-up: nobody waits while a slot is free.                     *)
NobodyWaitsForAFreeSlot == queue # <<>> => active = MaxConcurrent

(* The array is ordered by priority, so the head is always a best one.     *)
QueueOrdered ==
  \A i, j \in DOMAIN queue : i < j => Priority(queue[i]) <= Priority(queue[j])

(* The semaphore this module implements.                                   *)
Promised == INSTANCE Semaphore WITH
  Limit <- MaxConcurrent, Rank <- Priority,
  holders <- Holders, waiting <- Waiting

(* Every callback is a step of the semaphore, or changes nothing of it.    *)
ImplementsSemaphore == Promised!Spec

Position(s, t) == CHOOSE i \in DOMAIN s : s[i] = t

(* No overtaking: of two tasks that wait before and after a step, the one  *)
(* in front stays in front, and a newcomer never gets in front of a waiter *)
(* of its own priority or a better one.                                    *)
NoOvertaking ==
  [][/\ \A t, u \in Waiting \cap Waiting' :
          Position(queue, t) < Position(queue, u)
            => Position(queue', t) < Position(queue', u)
     /\ \A t \in Waiting, u \in Waiting' \ Waiting :
          t \in Waiting' /\ Priority(t) <= Priority(u)
            => Position(queue', t) < Position(queue', u)]_vars

(* Playback is served without any help from its timer, however many        *)
(* background tasks keep arriving.                                         *)
PlaybackIsServed ==
  \A t \in Tasks \ BackgroundTasks : pc[t] = "waiting" ~> pc[t] # "waiting"
=============================================================================
