-------------------------- MODULE ExtractionQueue --------------------------
(***************************************************************************)
(* The queue of extraction jobs: producers in the web processes            *)
(* (lib/extraction-queue.ts), the BullMQ jobs they share by video and the  *)
(* worker (extraction-worker.ts), over the admission leases of             *)
(* QueueAdmission.  Jobs have no owner here; the class of a request,       *)
(* clicked playback or speculative background work, decides its priority   *)
(* and which leases it needs.                                              *)
(*                                                                         *)
(* While cache Redis is up, extractFormats lets one producer at a time ask *)
(* for a video; other processes wait for its result and only promote.      *)
(***************************************************************************)
EXTENDS QueueAdmission

CONSTANTS Producers, Worker, None,
          Exclusive,  \* the extraction lock is working
          MaxFaults   \* bound: lost answers, failed calls, stale jobs
                      \* and dead workers to recover from at a time

ASSUME ProducerAssumption ==
  /\ Worker \notin Producers /\ Clients = Producers \cup {Worker}
  /\ Owners = {} /\ None \notin Jobs
  /\ Exclusive \in BOOLEAN /\ MaxFaults \in Nat

VARIABLES
  state,   \* of the BullMQ job of each video
  prio,    \* its priority
  displaced, \* jobs pruned and not run since (history)
  busy,    \* the job the worker runs
  pc, want, class, verdict,  \* of each producer's call
  click,   \* promoteExtraction for a viewer: its video and step
  leaked   \* leases that a fault has left behind (history)

jobs == <<state, prio, displaced, busy>>
calls == <<pc, want, class, verdict>>
vars == <<store, jobs, calls, click, leaked>>

NoClick == [job |-> None, step |-> "no"]

Init ==
  /\ StoreInit
  /\ state = [j \in Jobs |-> "none"]
  /\ prio = [j \in Jobs |-> "background"]
  /\ displaced = {} /\ busy = None
  /\ pc = [p \in Producers |-> "idle"]
  /\ want = [p \in Producers |-> None]
  /\ class = [p \in Producers |-> "background"]
  /\ verdict = [p \in Producers |-> "none"]
  /\ click = NoClick
  /\ leaked = {}

Live(j) == state[j] \in {"waiting", "active"}

At(p, step) == pc[p] = step
Go(p, step) == pc' = [pc EXCEPT ![p] = step]

Stay(p, step) == Go(p, step) /\ UNCHANGED <<want, class, verdict>>

Speculative(p) == class[p] = "background"

(* What the call knows is of no use from here on.                          *)
Forget(p) ==
  /\ class' = [class EXCEPT ![p] = "background"]
  /\ verdict' = [verdict EXCEPT ![p] = "none"]

(* The call waits for its job, or gives a lease back.                      *)
Await(p, step) == Go(p, step) /\ Forget(p) /\ UNCHANGED want

(* The call returns to extractFormats.                                     *)
Leave(p) ==
  /\ Go(p, "idle")
  /\ want' = [want EXCEPT ![p] = None]
  /\ Forget(p)

Fault ==
  Cardinality(leaked) + Cardinality(displaced)
    + Cardinality({p \in Producers : At(p, "failed")}) < MaxFaults

-----------------------------------------------------------------------------
(* enqueueExtraction                                                       *)
MayAsk(j) == Exclusive => \A q \in Producers : want[q] # j

(* The script admits the job or joins it.                                  *)
Admit(p, j, c) ==
  /\ \/ /\ Take(j, c = "background", NoOwner)
        /\ verdict' = [verdict EXCEPT ![p] = "reserved"]
     \/ /\ Join(j, NoOwner)
        /\ verdict' = [verdict EXCEPT ![p] = "joined"]
  /\ Go(p, "lookup")

(* If it refuses the job, stale jobs are pruned before a last try.         *)
Request(p) ==
  /\ At(p, "idle")
  /\ \E j \in Jobs, c \in {"playback", "background"} :
       /\ MayAsk(j)
       /\ want' = [want EXCEPT ![p] = j]
       /\ class' = [class EXCEPT ![p] = c]
       /\ \/ Admit(p, j, c)
          \/ /\ Refuse(j, c = "background", NoOwner)
             /\ Go(p, "prune")
             /\ UNCHANGED verdict
  /\ UNCHANGED <<jobs, click, leaked>>

Retry(p) ==
  /\ At(p, "retry")
  /\ \/ /\ Admit(p, want[p], class[p])
        /\ UNCHANGED <<want, class>>
     \/ /\ Refuse(want[p], Speculative(p), NoOwner)
        /\ Leave(p)
  /\ UNCHANGED <<jobs, click, leaked>>

(* The script runs but its answer comes too late: the circuit opens.       *)
ReserveTimesOut(p) ==
  /\ Fault
  /\ \E j \in Jobs, c \in {"playback", "background"} :
       /\ \/ At(p, "idle") /\ MayAsk(j)
          \/ At(p, "retry") /\ j = want[p] /\ c = class[p]
       /\ Take(j, c = "background", NoOwner)
       /\ leaked' = leaked \cup {j}
  /\ Leave(p)
  /\ UNCHANGED <<jobs, click>>

(* Which jobs have waited longer than JOB_MAX_AGE is left open.            *)
PruneRemove(p) ==
  /\ pc[p] \in {"prune", "pruned"} /\ sent[p] = <<>> /\ Fault
  /\ \E j \in Jobs :
       /\ state[j] = "waiting"
       /\ state' = [state EXCEPT ![j] = "none"]
       /\ prio' = [prio EXCEPT ![j] = "background"]
       /\ displaced' = displaced \cup {j}
       /\ ReleaseQueueJob(p, j, NoOwner)
  /\ Stay(p, "pruned")
  /\ UNCHANGED <<busy, click, leaked>>

PruneFindsNone(p) ==
  /\ At(p, "prune")
  /\ Leave(p)
  /\ UNCHANGED <<store, jobs, click, leaked>>

(* A job that was removed with nobody about can only come back anew.       *)
PruneEnd(p) ==
  /\ At(p, "pruned") /\ sent[p] = <<>>
  /\ displaced' = {j \in displaced :
       \/ state[j] # "none" \/ j \in global \/ Releasing(j)
       \/ click.job = j \/ \E q \in Producers : want[q] = j}
  /\ Stay(p, "retry")
  /\ UNCHANGED <<store, state, prio, busy, click, leaked>>

(* getJob; completed jobs are kept for a while and are found, too.         *)
Lookup(p) ==
  /\ At(p, "lookup")
  /\ IF state[want[p]] = "none" THEN Stay(p, "add")
     ELSE Await(p, IF Speculative(p) THEN "wait" ELSE "promote")
  /\ UNCHANGED <<store, jobs, click, leaked>>

(* queue.add keeps a job that is already there as it is.                   *)
AddJob(j, c) ==
  IF state[j] = "none"
  THEN /\ state' = [state EXCEPT ![j] = "waiting"]
       /\ prio' = [prio EXCEPT ![j] = c]
       /\ UNCHANGED <<displaced, busy>>
  ELSE UNCHANGED jobs

Add(p) ==
  /\ At(p, "add")
  /\ AddJob(want[p], class[p])
  /\ Await(p, "wait")
  /\ UNCHANGED <<store, click, leaked>>

AddFails(p) ==
  /\ At(p, "add") /\ Fault
  /\ Stay(p, "failed")
  /\ UNCHANGED <<store, jobs, click, leaked>>

(* Fault: the failed call keeps its lease.                                 *)
AfterFailedAdd_Keeps(p) ==
  /\ At(p, "failed")
  /\ IF state[want[p]] # "none" THEN Await(p, "wait") ELSE Leave(p)
  /\ UNCHANGED <<store, jobs, click, leaked>>

(* Join a producer that has won the add; otherwise give an own lease back. *)
AfterFailedAdd(p) ==
  /\ At(p, "failed")
  /\ \/ /\ state[want[p]] # "none"
        /\ Await(p, "wait")
        /\ UNCHANGED store
     \/ /\ state[want[p]] = "none" /\ verdict[p] = "reserved"
        /\ ReleaseQueueJob(p, want[p], NoOwner)
        /\ Await(p, "release")
     \/ /\ state[want[p]] = "none" /\ verdict[p] = "joined"
        /\ Leave(p)
        /\ UNCHANGED store
  /\ UNCHANGED <<jobs, click, leaked>>

Raise(j) ==
  prio' = IF state[j] = "waiting" THEN [prio EXCEPT ![j] = "playback"] ELSE prio

(* Fault: only the lease is promoted, not the job.                         *)
Promote_LeaseOnly(p) ==
  /\ At(p, "promote")
  /\ Await(p, "unback")
  /\ UNCHANGED <<store, jobs, click, leaked>>

Promote(p) ==
  /\ At(p, "promote")
  /\ Raise(want[p])
  /\ Await(p, "unback")
  /\ UNCHANGED <<store, state, displaced, busy, click, leaked>>

Unback(p) ==
  /\ At(p, "unback")
  /\ background' = background \ {want[p]}
  /\ Await(p, "wait")
  /\ UNCHANGED <<global, owned, unrenewed, by, sent, jobs, click, leaked>>

(* Fault: a caller leaves the lease of a finished job to the worker.       *)
Finished_Leaves(p) ==
  /\ At(p, "wait") /\ state[want[p]] = "done"
  /\ Leave(p)
  /\ UNCHANGED <<store, jobs, click, leaked>>

Finished(p) ==
  /\ At(p, "wait") /\ state[want[p]] = "done"
  /\ ReleaseQueueJob(p, want[p], NoOwner)
  /\ Await(p, "release")
  /\ UNCHANGED <<jobs, click, leaked>>

Released(p) ==
  /\ At(p, "release") /\ sent[p] = <<>>
  /\ Leave(p)
  /\ UNCHANGED <<store, jobs, click, leaked>>

(* Fault: a call that waits no longer gives the lease of a clicked job up. *)
Deadline_Frees(p) ==
  /\ At(p, "wait") /\ state[want[p]] \notin {"ending", "done"}
  /\ \/ /\ prio[want[p]] = "playback"
        /\ ReleaseQueueJob(p, want[p], NoOwner)
        /\ Await(p, "release")
     \/ /\ prio[want[p]] = "background"
        /\ Leave(p)
        /\ UNCHANGED store
  /\ UNCHANGED <<jobs, click, leaked>>

(* The wait is over; a job that has released its lease is done before.     *)
Deadline(p) ==
  /\ At(p, "wait") /\ state[want[p]] \notin {"ending", "done"}
  /\ Leave(p)
  /\ UNCHANGED <<store, jobs, click, leaked>>

-----------------------------------------------------------------------------
(* promoteExtraction, for a viewer whose process waits for the producer.   *)
Click(j) ==
  /\ click = NoClick
  /\ \E p \in Producers : want[p] = j
  /\ click' = [job |-> j,
               step |-> IF state[j] = "none" THEN "watching" ELSE "promote"]
  /\ UNCHANGED <<store, jobs, calls, leaked>>

ClickPromote ==
  /\ click.step = "promote"
  /\ Raise(click.job)
  /\ click' = [click EXCEPT !.step = "unback"]
  /\ UNCHANGED <<store, state, displaced, busy, calls, leaked>>

ClickUnback ==
  /\ click.step = "unback"
  /\ background' = background \ {click.job}
  /\ click' = [click EXCEPT !.step = "watching"]
  /\ UNCHANGED <<global, owned, unrenewed, by, sent, jobs, calls, leaked>>

(* The viewer has the result, or its wait is over.                         *)
ViewerLeaves ==
  /\ click.step = "watching"
  /\ click' = NoClick
  /\ UNCHANGED <<store, jobs, calls, leaked>>

-----------------------------------------------------------------------------
(* The worker takes playback jobs first and releases the lease before      *)
(* BullMQ marks the job completed.                                         *)
Claim(j) ==
  /\ busy = None /\ state[j] = "waiting"
  /\ prio[j] = "background" =>
       \A i \in Jobs : state[i] = "waiting" => prio[i] = "background"
  /\ busy' = j
  /\ state' = [state EXCEPT ![j] = "active"]
  /\ UNCHANGED <<store, prio, displaced, calls, click, leaked>>

WorkerReleases ==
  /\ busy # None /\ state[busy] = "active"
  /\ ReleaseQueueJob(Worker, busy, NoOwner)
  /\ state' = [state EXCEPT ![busy] = "ending"]
  /\ prio' = [prio EXCEPT ![busy] = "background"]
  /\ UNCHANGED <<displaced, busy, calls, click, leaked>>

WorkerCompletes ==
  /\ busy # None /\ state[busy] = "ending" /\ sent[Worker] = <<>>
  /\ state' = [state EXCEPT ![busy] = "done"]
  /\ displaced' = displaced \ {busy}
  /\ busy' = None
  /\ UNCHANGED <<store, prio, calls, click, leaked>>

(* BullMQ runs a job whose worker died once more, or fails it.             *)
WorkerDies ==
  /\ busy # None /\ state[busy] = "active" /\ Fault
  /\ \/ state' = [state EXCEPT ![busy] = "waiting"] /\ UNCHANGED prio
     \/ /\ state' = [state EXCEPT ![busy] = "done"]
        /\ prio' = [prio EXCEPT ![busy] = "background"]
  /\ leaked' = leaked \cup {busy}
  /\ busy' = None
  /\ UNCHANGED <<store, displaced, calls, click>>

(* removeOnComplete and removeOnFail keep a job longer than any call takes *)
(* to be told that it has finished.                                        *)
Evict(j) ==
  /\ state[j] = "done" /\ ~Releasing(j)
  /\ \A p \in Producers : want[p] # j
  /\ click.job = j => click.step = "watching"
  /\ state' = [state EXCEPT ![j] = "none"]
  /\ UNCHANGED <<store, prio, displaced, busy, calls, click, leaked>>

(* A lease outlives every job and call; only a leaked one runs out.        *)
LeaseLapses(j) ==
  /\ j \in leaked /\ ~Live(j) /\ ~Releasing(j)
  /\ \A p \in Producers : want[p] # j
  /\ Lapse(j)
  /\ leaked' = leaked \ {j}
  /\ UNCHANGED <<jobs, calls, click>>

Command(c) ==
  /\ Zrem(c)
  /\ leaked' = IF Head(sent[c])[1] = "global"
               THEN leaked \ {Head(sent[c])[2]} ELSE leaked
  /\ UNCHANGED <<jobs, calls, click>>

ProducerStep(p) ==
  \/ Request(p) \/ Retry(p) \/ ReserveTimesOut(p)
  \/ PruneRemove(p) \/ PruneFindsNone(p) \/ PruneEnd(p)
  \/ Lookup(p) \/ Add(p) \/ AddFails(p) \/ AfterFailedAdd(p)
  \/ Promote(p) \/ Unback(p) \/ Finished(p) \/ Released(p) \/ Deadline(p)

JobStep(j) ==
  \/ Click(j) \/ Claim(j) \/ Evict(j) \/ LeaseLapses(j)

ViewerStep ==
  \/ ClickPromote \/ ClickUnback \/ ViewerLeaves

Next ==
  \/ \E p \in Producers : ProducerStep(p)
  \/ \E j \in Jobs : JobStep(j)
  \/ \E c \in Clients : Command(c)
  \/ ViewerStep
  \/ WorkerReleases \/ WorkerCompletes \/ WorkerDies

Spec == Init /\ [][Next]_vars

-----------------------------------------------------------------------------
JobsTypeOK ==
  /\ state \in [Jobs -> {"none", "waiting", "active", "ending", "done"}]
  /\ prio \in [Jobs -> {"playback", "background"}]
  /\ displaced \subseteq Jobs /\ busy \in Jobs \cup {None}

CallsTypeOK ==
  /\ pc \in [Producers -> {"idle", "prune", "pruned", "retry", "lookup",
                           "add", "failed", "promote", "unback", "wait",
                           "release"}]
  /\ want \in [Producers -> Jobs \cup {None}]
  /\ class \in [Producers -> {"playback", "background"}]
  /\ verdict \in [Producers -> {"none", "reserved", "joined"}]

ClickTypeOK ==
  click \in [job : Jobs \cup {None},
            step : {"no", "promote", "unback", "watching"}]

TypeOK ==
  /\ StoreTypeOK /\ JobsTypeOK /\ CallsTypeOK /\ ClickTypeOK
  /\ leaked \subseteq Jobs

(* The jobs in the queue, waiting or running, keep to its limit, those     *)
(* aside that a prune removed and a producer put back without their lease. *)
QueueBounded == Cardinality({j \in Jobs \ displaced : Live(j)}) <= MaxJobs

(* Jobs that wait as speculative work leave the playback reserve alone,    *)
(* those aside whose lease a fault or a prune has taken away.              *)
SpeculationBounded ==
  Cardinality({j \in Jobs \ (leaked \cup displaced) :
                 state[j] = "waiting" /\ prio[j] = "background"})
    <= MaxBackground

(* A lease is held for a job, by a producer that is still on its way, or   *)
(* until commands already sent; otherwise a fault has left it behind.      *)
NoLeakedLease ==
  \A j \in global :
    \/ Live(j) \/ Releasing(j) \/ j \in leaked
    \/ \E p \in Producers : want[p] = j

(* The jobs, the speculative ones among them and the slots taken for them  *)
(* keep to their limits, and no slot is lost to a job that is gone.        *)
JobsBounded == QueueBounded /\ SpeculationBounded /\ NoStrandedSlot
=============================================================================
