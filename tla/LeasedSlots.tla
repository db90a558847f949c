---------------------------- MODULE LeasedSlots ----------------------------
(* Slots that are leases in Redis: the yt-dlp slots, the requests to        *)
(* YouTube, the RSS refreshes and the semaphore that download workers and   *)
(* the playlist refresh share.  A lease is a member of a sorted set; the    *)
(* script that adds it first drops the members whose time is over and adds  *)
(* only while there are fewer than Limit.  The holder renews it; a holder   *)
(* that cannot loses it when its time is over, though it may still work.    *)
(*                                                                          *)
(* The kinds differ in what happens around that: whether a local slot is    *)
(* taken first, whether a caller gives up waiting, and what an error of     *)
(* Redis means.  A process sends its commands in order over one connection, *)
(* and a caller may stop waiting for the answer of one that is executed     *)
(* later.                                                                   *)
EXTENDS Integers, Sequences, FiniteSets, SequencesExt

CONSTANTS Callers, Procs, Home,
          Kinds,            \* of "ytdlp", "youtube", "rss", "worker"
          Limit,            \* leases, and local slots in each process
          MaxWaiters, MaxFaults

VARIABLES kind, call, pipe, leases, over, left
vars == <<kind, call, pipe, leases, over, left>>

NoToken == "none"
LocalFirst == {"youtube"}
Waiting == {"ask", "asking", "sleep", "cleaning"}
Running == {"run", "fall"}

Command(op, c) == [op |-> op, call |-> c]
Send(op, c) == pipe' = [pipe EXCEPT ![Home[c]] = Append(@, Command(op, c))]
In(c, at) == call[c].at \in at
At(x, at) == [x EXCEPT !.at = at]

(* Before the task starts, an abort still ends the call.                    *)
Runs(x, at) ==
  IF x.aborted THEN At(x, "ending") ELSE [x EXCEPT !.at = at, !.runs = @ + 1]
Go(c, at) == call' = [call EXCEPT ![c].at = at]

(* lease: whether the caller knows that it has one; slot: a local slot;     *)
(* cleaned: its removal has been confirmed; lost: it never reached Redis.   *)
Init ==
  /\ kind \in Kinds
  /\ call = [c \in Callers |-> [at |-> "new", lease |-> FALSE, slot |-> FALSE,
                              cleaned |-> FALSE, lost |-> FALSE,
                              aborted |-> FALSE, runs |-> 0]]
  /\ pipe = [p \in Procs |-> <<>>]
  /\ leases = {}
  /\ over = {}
  /\ left = MaxFaults

Locals(p) == {c \in Callers : Home[c] = p /\ call[c].slot}
Waiters(p) == {c \in Callers : Home[c] = p /\ In(c, Waiting)}

-----------------------------------------------------------------------------
(* Admission.                                                               *)

(* Only yt-dlp bounds how many wait for a lease.                            *)
Begin(c) ==
  /\ In(c, {"new"})
  /\ Go(c, CASE kind \in LocalFirst -> "local"
             [] kind = "ytdlp" /\ Cardinality(Waiters(Home[c])) >= MaxWaiters
                  -> "failed"
             [] OTHER -> "ask")
  /\ UNCHANGED <<kind, pipe, leases, over, left>>

(* With a local slot a YouTube request asks for a lease; a task of yt-dlp    *)
(* has come here without one, and runs.                                     *)
AcquireLocalSlot(c) ==
  LET x == [call[c] EXCEPT !.slot = TRUE]
  IN /\ In(c, {"local"})
     /\ Cardinality(Locals(Home[c])) < Limit
     /\ call' = [call EXCEPT ![c] = IF kind \in LocalFirst THEN At(x, "ask")
                                    ELSE Runs(x, "fall")]
     /\ UNCHANGED <<kind, pipe, leases, over, left>>

(* An aborted caller does not ask again.                                    *)
Ask(c) ==
  /\ In(c, {"ask"})
  /\ IF call[c].aborted /\ kind # "rss"
     THEN Go(c, "ending") /\ UNCHANGED pipe
     ELSE Go(c, "asking") /\ Send("try", c)
  /\ UNCHANGED <<kind, leases, over, left>>

AskAgain(c) ==
  /\ In(c, {"sleep"})
  /\ Go(c, "ask")
  /\ UNCHANGED <<kind, pipe, leases, over, left>>

(* The wait is over, in Redis or in the local queue.  RSS waits on.         *)
TimesOut(c) ==
  /\ In(c, {"ask", "sleep", "local"}) /\ kind # "rss"
  /\ Go(c, "ending")
  /\ UNCHANGED <<kind, pipe, leases, over, left>>

AbortCall(c) ==
  LET x == call[c]
      stops == x.at \in {"sleep", "local"}
  IN /\ kind \notin {"rss", "worker"} /\ ~x.aborted /\ left > 0
     /\ ~In(c, {"done", "failed", "ending", "leaving"})
     /\ call' = [call EXCEPT ![c] =
          [x EXCEPT !.aborted = TRUE,
                    !.at = IF stops THEN "ending" ELSE x.at]]
     /\ left' = left - 1
     /\ UNCHANGED <<kind, pipe, leases, over>>

-----------------------------------------------------------------------------
(* What Redis does with a command, and what the caller makes of it.         *)

(* Fault: a lease that may have been taken is not removed. *)
Error_Fault(x) == IF kind = "worker" THEN At(x, "ending") ELSE Runs(x, "fall")

(* Redis did not answer.  yt-dlp takes back the lease it may have got, and  *)
(* then waits for a local slot; YouTube and RSS requests just go ahead; a   *)
(* worker's task fails.                                                     *)
Error(x) ==
  CASE kind = "ytdlp" -> At(x, "cleaning")
    [] kind = "worker" -> At(x, "ending")
    [] OTHER -> Runs(x, "fall")

(* After the removal of a lease that may not be there, or its failure.      *)
Cleaned(x) == At(x, IF x.aborted THEN "ending" ELSE "local")

(* Fault: a renewal adds the lease again that was dropped meanwhile. *)
Renewed_Fault(c) == leases \cup {c}

(* A renewal renews what is there.                                          *)
Renewed(c) == leases

(* Fault: a caller that asks again is not counted against the limit. *)
Tried_Fault(c) ==
  LET live == leases \ over
  IN IF Cardinality(live) <= Limit THEN live \cup {c} ELSE live

(* Members whose time is over are dropped, and then the rest is counted.    *)
Tried(c) ==
  LET live == leases \ over
  IN IF Cardinality(live) < Limit THEN live \cup {c} ELSE live

Execute(p) ==
  LET x == Head(pipe[p])
      c == x.call
      after == CASE x.op = "try" -> Tried(c)
                 [] x.op = "renew" -> Renewed(c)
                 [] OTHER -> leases \ {c}
  IN /\ pipe[p] # <<>>
     /\ leases' = after
     /\ over' = IF x.op = "try" THEN {} ELSE over \ {c}
     /\ call' = [call EXCEPT ![c] =
          CASE x.op = "try" /\ @.at = "asking" ->
                 IF c \in after THEN Runs([@ EXCEPT !.lease = TRUE], "run")
                 ELSE At(@, "sleep")
            [] x.op = "zrem" /\ @.at = "cleaning" ->
                 Cleaned([@ EXCEPT !.cleaned = TRUE])
            [] x.op = "zrem" /\ @.at = "leaving" ->
                 At([@ EXCEPT !.cleaned = TRUE], "done")
            [] OTHER -> @]
     /\ pipe' = [pipe EXCEPT ![p] = Tail(@)]
     /\ UNCHANGED <<kind, left>>

(* What a caller does that waits for an answer in vain.                     *)
Unanswered(x) ==
  CASE x.at = "asking" -> Error(x)
    [] x.at = "cleaning" -> Cleaned(x)
    [] x.at = "leaving" -> At(x, "done")
    [] OTHER -> x

(* The removals of those whose lease may have been taken without an answer. *)
Removals(cs) ==
  LET unsure == SetToSeq({c \in cs : In(c, {"asking"})
                                   /\ Error(call[c]).at = "cleaning"})
  IN [i \in 1 .. Len(unsure) |-> Command("zrem", unsure[i])]

(* The caller stops waiting; the command may still come to be executed.     *)
CommandTimesOut(c) ==
  /\ left > 0
  /\ In(c, {"asking", "cleaning", "leaving"})
  /\ call' = [call EXCEPT ![c] = Unanswered(@)]
  /\ pipe' = [pipe EXCEPT ![Home[c]] = @ \o Removals({c})]
  /\ left' = left - 1
  /\ UNCHANGED <<kind, leases, over>>

(* The connection breaks: nothing that was sent is executed.                *)
ConnectionBreaks(p) ==
  LET sent == {pipe[p][i].call : i \in 1 .. Len(pipe[p])}
  IN /\ left > 0 /\ pipe[p] # <<>>
     /\ call' = [c \in Callers |->
          IF c \in sent
          THEN [Unanswered(call[c]) EXCEPT
                  !.lost = @ \/ \E i \in 1 .. Len(pipe[p]) :
                                  pipe[p][i] = Command("zrem", c)]
          ELSE call[c]]
     /\ pipe' = [pipe EXCEPT ![p] = Removals(sent)]
     /\ left' = left - 1
     /\ UNCHANGED <<kind, leases, over>>

-----------------------------------------------------------------------------
(* Holding and releasing.                                                   *)

Renew(c) ==
  /\ In(c, {"run"})
  /\ \A i \in 1 .. Len(pipe[Home[c]]) : pipe[Home[c]][i] # Command("renew", c)
  /\ Send("renew", c)
  /\ UNCHANGED <<kind, call, leases, over, left>>

(* The time of a lease is over: nobody renews it, or its renewals do not    *)
(* come through.                                                            *)
Lapses(c) ==
  /\ c \in leases \ over
  /\ IF In(c, {"run"}) THEN left > 0 /\ left' = left - 1 ELSE left' = left
  /\ over' = over \cup {c}
  /\ UNCHANGED <<kind, call, pipe, leases>>

(* Fault: a task that fails counts as a failure of Redis. *)
TaskEnds_Fault(c) ==
  /\ In(c, Running)
  /\ \/ Go(c, "ending")
     \/ call' = [call EXCEPT ![c] = Error(@)]
  /\ UNCHANGED <<kind, pipe, leases, over, left>>

TaskEnds(c) ==
  /\ In(c, Running)
  /\ Go(c, "ending")
  /\ UNCHANGED <<kind, pipe, leases, over, left>>

(* Fault: who gave up does not hand his local slot back. *)
Release_Fault(c) ==
  /\ In(c, {"ending"})
  /\ IF call[c].lease
     THEN /\ Send("zrem", c)
          /\ call' = [call EXCEPT ![c] =
               [@ EXCEPT !.at = "leaving", !.slot = FALSE, !.lease = FALSE]]
     ELSE UNCHANGED pipe /\ Go(c, "done")
  /\ UNCHANGED <<kind, leases, over, left>>

(* The local slot is free before the lease is.                              *)
Release(c) ==
  /\ In(c, {"ending"})
  /\ call' = [call EXCEPT ![c] =
       [@ EXCEPT !.slot = FALSE, !.lease = FALSE,
                 !.at = IF call[c].lease THEN "leaving" ELSE "done"]]
  /\ IF call[c].lease THEN Send("zrem", c) ELSE UNCHANGED pipe
  /\ UNCHANGED <<kind, leases, over, left>>

CallStep(c) ==
  \/ Begin(c) \/ AcquireLocalSlot(c) \/ Ask(c) \/ AskAgain(c)
  \/ TaskEnds(c) \/ Release(c)

Next ==
  \/ \E c \in Callers :
       \/ CallStep(c) \/ TimesOut(c) \/ AbortCall(c)
       \/ CommandTimesOut(c) \/ Renew(c) \/ Lapses(c)
  \/ \E p \in Procs : Execute(p) \/ ConnectionBreaks(p)

Spec == Init /\ [][Next]_vars

-----------------------------------------------------------------------------
(* Properties.                                                              *)

TypeOK ==
  /\ leases \subseteq Callers /\ over \subseteq leases
  /\ \A c \in Callers : call[c].runs \in Nat

(* There are never more leases than slots, and a process never runs more    *)
(* under local slots than it has of them.                                   *)
WithinLimit ==
  /\ Cardinality(leases) <= Limit
  /\ \A p \in Procs : Cardinality(Locals(p)) <= Limit

(* No task runs twice, whatever Redis answers before or after it.           *)
RunsOnce == \A c \in Callers : call[c].runs <= 1

(* A lease whose removal was confirmed does not come back: not by a command *)
(* executed late, nor by a renewal.                                         *)
RemovedForGood == \A c \in Callers : call[c].cleaned => c \notin leases

(* Who ended holds no local slot.                                           *)
NothingKept == \A c \in Callers : In(c, {"done", "failed"}) => ~call[c].slot

(* A task of yt-dlp leaves no lease behind that nobody knows of, though the *)
(* answer that would have told it was lost: only the loss of the removal    *)
(* can.                                                                     *)
NoGhosts ==
  kind = "ytdlp" =>
    \A c \in leases :
      \/ ~In(c, {"done", "failed"}) \/ call[c].lost
      \/ \E i \in 1 .. Len(pipe[Home[c]]) :
           pipe[Home[c]][i] = Command("zrem", c)

LeasesSafe ==
  WithinLimit /\ RunsOnce /\ RemovedForGood /\ NothingKept /\ NoGhosts
=============================================================================
