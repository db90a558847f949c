-------------------------- MODULE ExtractionFlight --------------------------
(***************************************************************************)
(* How the web processes share one extraction of a video                   *)
(* (routes/stream/extraction.ts): a map of promises in each process        *)
(* (lib/bounded-singleflight.ts), a lock with a lease on the coordination  *)
(* Redis and a shared cache on the cache Redis (lib/cache.ts).  The model  *)
(* follows one video; a step is what a process does between two awaits.    *)
(* Requests are names of calls of extractFormats, and also their tokens; a *)
(* name is used again once nothing of its last call is left.               *)
(***************************************************************************)
EXTENDS Naturals, Sequences, FiniteSets

CONSTANTS Procs, Requests, Home, None,
          MaxFaults   \* bound: Redis errors, lost leases and dead processes

ASSUME FlightAssumption ==
  /\ Home \in [Requests -> Procs]
  /\ None \notin Requests
  /\ MaxFaults \in Nat

VARIABLES
  pc,        \* where each call is
  flight,    \* extractionInflight: the call that owns each process's promise
  timers,    \* calls whose timer renews a lease
  lock,      \* the token stored under lock:extract:<video>
  replies,   \* to each process from the coordination Redis, by call
  published, \* the shared cache has an unexpired result
  held,      \* and so has the first-level cache of each process
  faults     \* so far (history)

vars == <<pc, flight, timers, lock, replies, published, held, faults>>

Init ==
  /\ pc = [r \in Requests |-> "idle"]
  /\ flight = [p \in Procs |-> None]
  /\ timers = {} /\ lock = None
  /\ replies = [p \in Procs |-> <<>>]
  /\ published = FALSE
  /\ held = [p \in Procs |-> FALSE]
  /\ faults = 0

At(r, step) == pc[r] = step
Go(r, step) == pc' = [pc EXCEPT ![r] = step]

Fault == faults < MaxFaults /\ faults' = faults + 1

Answer(r) == Go(r, "idle")

Calls(p) == {r \in Requests : Home[r] = p}

(* Replies on a connection come in the order of the commands.              *)
Reply(r) == replies' = [replies EXCEPT ![Home[r]] = Append(@, r)]

Receive(r) ==
  /\ replies[Home[r]] # <<>> /\ Head(replies[Home[r]]) = r
  /\ replies' = [replies EXCEPT ![Home[r]] = Tail(@)]

-----------------------------------------------------------------------------
(* extractFormats up to dedup                                              *)
Arrive(r) ==
  /\ At(r, "idle") /\ r # lock /\ r \notin timers
  /\ ~held[Home[r]]
  /\ Go(r, IF flight[Home[r]] # None THEN "join" ELSE "read")
  /\ UNCHANGED <<flight, timers, lock, replies, published, held, faults>>

(* getAsync                                                                *)
ReadHit(r) ==
  /\ At(r, "read") /\ published
  /\ held' = [held EXCEPT ![Home[r]] = TRUE]
  /\ Answer(r)
  /\ UNCHANGED <<flight, timers, lock, replies, published, faults>>

ReadMiss(r) ==
  /\ At(r, "read") /\ ~published
  /\ Go(r, "lock")
  /\ UNCHANGED <<flight, timers, lock, replies, published, held, faults>>

(* Fault: the token names the process.                                     *)
Acquire_ByProcess(r) ==
  /\ At(r, "lock")
  /\ \/ lock = None /\ lock' = Home[r] /\ Go(r, "granted")
     \/ lock # None /\ Go(r, "denied") /\ UNCHANGED lock
  /\ Reply(r)
  /\ UNCHANGED <<flight, timers, published, held, faults>>

(* acquireLock: Redis runs SET NX; the reply is still to come.             *)
Acquire(r) ==
  /\ At(r, "lock")
  /\ \/ lock = None /\ lock' = r /\ Go(r, "granted")
     \/ lock # None /\ Go(r, "denied") /\ UNCHANGED lock
  /\ Reply(r)
  /\ UNCHANGED <<flight, timers, published, held, faults>>

(* The call starts the flight, joins the one of its process or, when the   *)
(* map is full of other videos, gives up.                                  *)
Join(r) ==
  /\ flight[Home[r]] # None
  /\ Go(r, "join")
  /\ UNCHANGED flight

(* Fault: the map is not looked at again after the lock was awaited.       *)
TakeOff_Blind(r) ==
  /\ flight' = [flight EXCEPT ![Home[r]] = r]
  /\ Go(r, "work")

TakeOff(r) ==
  /\ flight[Home[r]] = None
  /\ flight' = [flight EXCEPT ![Home[r]] = r]
  /\ Go(r, "work")

Granted(r) ==
  /\ At(r, "granted") /\ Receive(r)
  /\ \/ timers' = timers \cup {r} /\ (Join(r) \/ TakeOff(r))
     \/ /\ flight[Home[r]] = None /\ Go(r, "unlock")
        /\ UNCHANGED <<timers, flight>>
  /\ UNCHANGED <<lock, published, held, faults>>

(* The lock is refused: join the flight of this process or poll.           *)
Denied(r) ==
  /\ At(r, "denied") /\ Receive(r)
  /\ \/ Join(r)
     \/ flight[Home[r]] = None /\ Go(r, "poll") /\ UNCHANGED flight
  /\ UNCHANGED <<timers, lock, published, held, faults>>

(* The command fails, with or without effect, or Redis is not ready:       *)
(* acquireLock fails open.                                                 *)
FailOpen(r) ==
  /\ At(r, "lock") /\ Fault
  /\ lock' \in {lock, IF lock = None THEN r ELSE lock}
  /\ \/ Join(r)
     \/ TakeOff(r)
     \/ flight[Home[r]] = None /\ Answer(r) /\ UNCHANGED flight
  /\ UNCHANGED <<timers, replies, published, held>>

PollHit(r) ==
  /\ At(r, "poll") /\ published
  /\ held' = [held EXCEPT ![Home[r]] = TRUE]
  /\ Answer(r)
  /\ UNCHANGED <<flight, timers, lock, replies, published, faults>>

(* Fault: after the wait the call starts an extraction of its own.         *)
PollDeadline_Starts(r) ==
  /\ At(r, "poll")
  /\ Join(r) \/ TakeOff(r)
  /\ UNCHANGED <<timers, lock, replies, published, held, faults>>

(* Fault: the call polls until there is a result.                          *)
PollDeadline_Never(r) ==
  /\ At(r, "poll") /\ published
  /\ Answer(r)
  /\ UNCHANGED <<flight, timers, lock, replies, published, held, faults>>

PollDeadline(r) ==
  /\ At(r, "poll")
  /\ Answer(r)
  /\ UNCHANGED <<flight, timers, lock, replies, published, held, faults>>

-----------------------------------------------------------------------------
(* The flight: what extracts has its own modules; it ends with a result to *)
(* publish or, when queue and backends have none, without.                 *)
Extracted(r) ==
  /\ At(r, "work")
  /\ held' = [held EXCEPT ![Home[r]] = TRUE]
  /\ Go(r, "publish")
  /\ UNCHANGED <<flight, timers, lock, replies, published, faults>>

(* The promise settles: it leaves the map, and all who joined are answered,*)
(* with those whose replies are handled before the promise's reactions run.*)
Land(r, late) ==
  /\ flight' = [flight EXCEPT ![Home[r]] = None]
  /\ pc' = [q \in Requests |->
              IF q = r \/ q \in late \/ (q \in Calls(Home[r]) /\ At(q, "join"))
              THEN "idle" ELSE pc[q]]

(* finally: the timer stops and the release goes out, if there is a token  *)
(* to release.                                                             *)
Finally(r) ==
  /\ timers' = timers \ {r}
  /\ \/ r \in timers /\ Go(r, "unlock") /\ UNCHANGED flight
     \/ r \notin timers /\ Land(r, {})

NoResult(r) ==
  /\ At(r, "work")
  /\ Finally(r)
  /\ UNCHANGED <<lock, replies, published, held, faults>>

(* Fault: set where setAsync is needed; the write comes after the release. *)
Published_Unawaited(r) ==
  /\ At(r, "publish")
  /\ Finally(r)
  /\ UNCHANGED <<lock, replies, published, held, faults>>

Published(r) ==
  /\ At(r, "publish")
  /\ published' = TRUE
  /\ Finally(r)
  /\ UNCHANGED <<lock, replies, held, faults>>

(* The write is lost; the warning is all that remains.                     *)
PublishFails(r) ==
  /\ At(r, "publish") /\ Fault
  /\ Finally(r)
  /\ UNCHANGED <<lock, replies, published, held>>

(* releaseLock: Redis compares the token and deletes the key.              *)
Release(r) ==
  /\ At(r, "unlock")
  /\ lock' = IF lock = r THEN None ELSE lock
  /\ Go(r, "released") /\ Reply(r)
  /\ UNCHANGED <<flight, timers, published, held, faults>>

ReleaseFails(r) ==
  /\ At(r, "unlock") /\ Fault
  /\ \/ flight[Home[r]] = r /\ Land(r, {})
     \/ flight[Home[r]] # r /\ Answer(r) /\ UNCHANGED flight
  /\ UNCHANGED <<timers, lock, replies, published, held>>

(* The reply to a flight's release may come in one chunk with later ones:  *)
(* those calls go on, and join, before the promise has left the map.       *)
Released(r) ==
  /\ At(r, "released") /\ Receive(r) /\ flight[Home[r]] # r
  /\ Answer(r)
  /\ UNCHANGED <<flight, timers, lock, published, held, faults>>

ReleasedFlight(r) ==
  /\ At(r, "released") /\ flight[Home[r]] = r
  /\ LET come == replies[Home[r]] IN
     /\ come # <<>> /\ Head(come) = r
     /\ \E n \in 1..Len(come) :
          LET late == {q \in Calls(Home[r]) : \E i \in 2..n : come[i] = q} IN
          /\ replies' = [replies EXCEPT
                           ![Home[r]] = SubSeq(come, n + 1, Len(come))]
          /\ timers' = timers \cup {q \in late : At(q, "granted")}
          /\ Land(r, late)
  /\ UNCHANGED <<lock, published, held, faults>>

-----------------------------------------------------------------------------
(* The entry expires in both caches at the same time.                      *)
Expire ==
  /\ published \/ \E p \in Procs : held[p]
  /\ \A r \in Requests : ~At(r, "publish")
  /\ published' = FALSE
  /\ held' = [p \in Procs |-> FALSE]
  /\ UNCHANGED <<pc, flight, timers, lock, faults, replies>>

(* The lease of a call that renews or releases it runs out only when Redis *)
(* is away or the process stalls; one that nobody renews just runs out.    *)
Tended(r) == r \in timers \/ pc[r] \in {"granted", "unlock"}

LeaseEnds ==
  /\ lock # None
  /\ \/ Tended(lock) /\ Fault
     \/ ~Tended(lock) /\ UNCHANGED faults
  /\ lock' = None
  /\ UNCHANGED <<pc, flight, timers, replies, published, held>>

Crash(p) ==
  /\ Fault
  /\ pc' = [r \in Requests |-> IF Home[r] = p THEN "idle" ELSE pc[r]]
  /\ flight' = [flight EXCEPT ![p] = None]
  /\ timers' = {r \in timers : Home[r] # p}
  /\ replies' = [replies EXCEPT ![p] = <<>>]
  /\ held' = [held EXCEPT ![p] = FALSE]
  /\ UNCHANGED <<lock, published>>

Step(r) ==
  \/ ReadHit(r) \/ ReadMiss(r) \/ Acquire(r) \/ Granted(r) \/ Denied(r)
  \/ PollHit(r) \/ PollDeadline(r)
  \/ Extracted(r) \/ NoResult(r) \/ Published(r)
  \/ Release(r) \/ Released(r) \/ ReleasedFlight(r)

Disturb(r) == FailOpen(r) \/ PublishFails(r) \/ ReleaseFails(r)

Next ==
  \/ \E r \in Requests : Arrive(r) \/ Step(r) \/ Disturb(r)
  \/ Expire \/ LeaseEnds
  \/ \E p \in Procs : Crash(p)

Spec == Init /\ [][Next]_vars

(* Commands have timeouts, the extraction and the polling have deadlines,  *)
(* and the event loop gets round to every reply.                           *)
FairSpec == Spec /\ \A r \in Requests : WF_vars(Step(r))

-----------------------------------------------------------------------------
Steps == {"idle", "read", "lock", "granted", "denied", "poll", "join",
          "work", "publish", "unlock", "released"}

TypeOK ==
  /\ pc \in [Requests -> Steps]
  /\ flight \in [Procs -> Requests \cup {None}]
  /\ timers \subseteq Requests /\ lock \in Requests \cup {None}
  /\ replies \in [Procs -> Seq(Requests)]
  /\ published \in BOOLEAN /\ held \in [Procs -> BOOLEAN]
  /\ faults \in 0..MaxFaults

Extracting(r) == pc[r] \in {"work", "publish"}

(* Whatever Redis does, a process never runs two extractions of a video:   *)
(* "fail-open; the process-local in-flight map still deduplicates".        *)
LocalDedup == \A r \in Requests : Extracting(r) => flight[Home[r]] = r

(* While Redis works, neither do two processes.                            *)
OneExtraction ==
  faults = 0 =>
    \A r, q \in Requests : Extracting(r) /\ Extracting(q) => r = q

(* While Redis works, a result that a process has is in the shared cache,  *)
(* or the lock is still held by the call that is about to put it there:    *)
(* whoever gets the lock can find it.                                      *)
SharedBeforeUnlocked ==
  faults = 0 /\ ~published =>
    \A p \in Procs : held[p] =>
      \E r \in Requests : Home[r] = p /\ At(r, "publish") /\ lock = r

(* Every call is answered, though its flight, the lock's owner or Redis    *)
(* may fail it.                                                            *)
EveryCallAnswered ==
  \A r \in Requests : pc[r] # "idle" ~> At(r, "idle")
=============================================================================
