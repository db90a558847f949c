--------------------------- MODULE UpstreamParser ---------------------------
(* A lane of the parser: large answers are parsed one at a time by a worker *)
(* thread.  A task that takes too long costs the worker its life; messages  *)
(* and exits of a worker that was given up still arrive.                    *)
(*                                                                          *)
(* lane is the ParserLane, threads what each worker thread has to do and    *)
(* has to tell, outcome what each caller got, late the tasks past their     *)
(* deadline.                                                                *)
EXTENDS Integers, Sequences, FiniteSets

CONSTANTS Tasks,      \* numbered in the order of their calls
          Unsendable, \* those whose bytes cannot be handed to a worker
          MaxPending, MaxThreads

VARIABLES lane, threads, outcome, late
vars == <<lane, threads, outcome, late>>

Nil == 0
Init ==
  /\ lane = [worker |-> Nil, active |-> Nil, queue |-> <<>>]
  /\ threads = <<>>
  /\ outcome = [t \in Tasks |-> "unborn"]
  /\ late = {}

-----------------------------------------------------------------------------
(* x is a lane with its threads and outcomes.                               *)

Now == [worker |-> lane.worker, active |-> lane.active, queue |-> lane.queue,
        threads |-> threads, outcome |-> outcome]
Becomes(x) ==
  /\ Len(x.threads) <= MaxThreads
  /\ lane' = [worker |-> x.worker, active |-> x.active, queue |-> x.queue]
  /\ threads' = x.threads /\ outcome' = x.outcome

Settle(x, t, how) ==
  [x EXCEPT !.outcome[t] = IF @ = "waiting" THEN how ELSE "twice"]

Post(x, t) ==
  LET w == IF x.worker # Nil THEN x.worker ELSE Len(x.threads) + 1
      fresh == [todo |-> <<>>, tells |-> <<>>, alive |-> TRUE]
      ths == IF w \in DOMAIN x.threads THEN x.threads
             ELSE Append(x.threads, fresh)
  IN [x EXCEPT !.worker = w, !.active = t,
               !.threads = [ths EXCEPT ![w].todo = Append(@, t)]]

(* A worker that is terminated says nothing more but that it has exited.    *)
Terminate(x, w) ==
  IF w = Nil \/ ~x.threads[w].alive THEN x
  ELSE [x EXCEPT !.threads[w] =
          [todo |-> <<>>, tells |-> Append(@.tells, Nil), alive |-> FALSE]]

(* The first n tasks of the queue fail; those that cannot be sent fail with  *)
(* the worker they were to be sent to.                                      *)
DropFirst(x, n) ==
  LET failed == {x.queue[j] : j \in 1 .. n}
      spoiled == \E t \in failed : t \notin late
      y == IF spoiled THEN Terminate(x, x.worker) ELSE x
  IN [y EXCEPT !.queue = SubSeq(@, n + 1, Len(@)),
               !.worker = IF spoiled THEN Nil ELSE @,
               !.outcome = [t \in Tasks |-> IF t \notin failed THEN @[t]
                              ELSE IF @[t] = "waiting" THEN "failed"
                              ELSE "twice"]]

(* Those at the head of the queue that are late or cannot be sent fail, and *)
(* the next one is posted.                                                  *)
DispatchNext(x) ==
  LET q == x.queue
      bad(t) == t \in late \/ t \in Unsendable
      n == CHOOSE i \in 0 .. Len(q) : /\ \A j \in 1 .. i : bad(q[j])
                                      /\ i = Len(q) \/ ~bad(q[i + 1])
      z == DropFirst(x, n)
  IN IF x.active # Nil THEN x
     ELSE IF z.queue = <<>> THEN z
     ELSE Post([z EXCEPT !.queue = Tail(@)], Head(z.queue))

FailWorker_Fault(x, w) == (* Fault: whichever worker it was. *)
  LET t == x.active
      y == Terminate([x EXCEPT !.worker = Nil, !.active = Nil], w)
  IN DispatchNext(IF t = Nil THEN y ELSE Settle(y, t, "failed"))
FailWorker(x, w) ==
  LET t == x.active
      y == Terminate([x EXCEPT !.worker = Nil, !.active = Nil], w)
  IN IF x.worker # w THEN x
     ELSE DispatchNext(IF t = Nil THEN y ELSE Settle(y, t, "failed"))

-----------------------------------------------------------------------------
EnqueueParse == \E t \in Tasks :
  /\ outcome[t] = "unborn" /\ \A u \in Tasks : u < t => outcome[u] # "unborn"
  /\ LET pending == Len(lane.queue) + IF lane.active = Nil THEN 0 ELSE 1
     IN IF pending >= MaxPending
        THEN Becomes([Now EXCEPT !.outcome[t] = "refused"])
        ELSE Becomes(DispatchNext([Now EXCEPT !.outcome[t] = "waiting",
                                              !.queue = Append(@, t)]))
  /\ UNCHANGED late

(* Deadlines pass in the order of the calls.                                *)
DeadlinePasses == \E t \in Tasks \ late :
  /\ outcome[t] = "waiting"
  /\ \A u \in Tasks : u < t => u \in late \/ outcome[u] # "waiting"
  /\ late' = late \cup {t}
  /\ UNCHANGED <<lane, threads, outcome>>

TimerFires_Fault == (* Fault: the task stays active and fails once more. *)
  /\ lane.active \in late
  /\ Becomes(FailWorker(Settle(Now, lane.active, "timeout"), lane.worker))
  /\ UNCHANGED late
TimerFires ==
  /\ lane.active \in late
  /\ Becomes(FailWorker([Settle(Now, lane.active, "timeout")
                           EXCEPT !.active = Nil], lane.worker))
  /\ UNCHANGED late

(* The worker thread.  Its bad news are an error and its exit, or that only. *)
Parses == \E w \in DOMAIN threads :
  /\ threads[w].alive /\ threads[w].todo # <<>>
  /\ threads' = [threads EXCEPT ![w] =
       [todo |-> Tail(@.todo), tells |-> Append(@.tells, Head(@.todo)),
        alive |-> TRUE]]
  /\ UNCHANGED <<lane, outcome, late>>

Dies == \E w \in DOMAIN threads, news \in {<<Nil>>, <<Nil, Nil>>} :
  /\ threads[w].alive
  /\ threads' = [threads EXCEPT ![w] =
                   [todo |-> <<>>, tells |-> @.tells \o news, alive |-> FALSE]]
  /\ UNCHANGED <<lane, outcome, late>>

(* An event of a worker reaches the main thread.                            *)
OnEvent == \E w \in DOMAIN threads :
  LET said == Head(threads[w].tells)
      x == [Now EXCEPT !.threads[w].tells = Tail(@)]
  IN /\ threads[w].tells # <<>>
     /\ Becomes(IF said = Nil THEN FailWorker(x, w)
                ELSE IF lane.worker # w \/ lane.active # said THEN x
                ELSE DispatchNext(Settle([x EXCEPT !.active = Nil],
                                         said, "parsed")))
     /\ UNCHANGED late

Next == \/ EnqueueParse \/ DeadlinePasses \/ TimerFires \/ Parses \/ Dies
        \/ OnEvent

Spec == Init /\ [][Next]_vars

-----------------------------------------------------------------------------
(* Nobody gets two answers.                                                 *)
SettledOnce == \A t \in Tasks : outcome[t] # "twice"

(* The lane does not stop while somebody waits: a task is active, and it is *)
(* with the lane's worker or that worker has news of it.                    *)
LaneRuns ==
  /\ \A t \in Tasks : outcome[t] = "waiting" <=>
       t = lane.active \/ \E i \in DOMAIN lane.queue : lane.queue[i] = t
  /\ lane.queue # <<>> => lane.active # Nil
  /\ lane.active # Nil =>
       /\ lane.worker # Nil
       /\ LET w == threads[lane.worker]
          IN w.todo = <<lane.active>> \/ w.tells # <<>>

(* A worker thread that nobody uses any more does not live on.              *)
NoThreadLeak == \A w \in DOMAIN threads : threads[w].alive => w = lane.worker

ParserSafe == SettledOnce /\ LaneRuns /\ NoThreadLeak
=============================================================================
