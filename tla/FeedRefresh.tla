----------------------------- MODULE FeedRefresh -----------------------------
(* How a channel's feed is refreshed (youtube/rss.ts, lib/rss-refresh-      *)
(* queue.ts, extraction-worker.ts): web processes answer from their map,    *)
(* Redis or the database, and leave stale feeds to the worker's queue or,   *)
(* when it does not help, to a queue of their own.  A refresh asks YouTube  *)
(* only for what has changed since the validators it knows.                 *)
EXTENDS Integers, Sequences, FiniteSets, SequencesExt, FiniteSetsExt

CONSTANTS Web,          \* web processes
          Feeds, Calls,
          HomeOf,       \* [call -> web process], the feed it asks for,
          FeedOf,       \* [call -> feed]
          Waits,        \* calls that wait for the refresh
          Durable,      \* the refresh queue is enabled
          Concurrency, MaxQueue,
          MaxClock, MaxVersion, MaxFaults

VARIABLES feed,    \* [feed -> version YouTube serves]
          row,     \* the library: version, its validators, time of the fetch
          shared,  \* Redis: version and the end of its freshness
          lock,    \* [feed -> the process that may fetch]
          job,     \* [feed, bucket -> state of the durable job]
          news,    \* [process -> job results on their way]
          proc,    \* what a process keeps
          run,     \* [process, feed -> the refresh under way]
          call, now, faults,
          misled,  \* "nothing new" was said to who had older data
          parted   \* who lost its lease of a feed and went on

vars == <<feed, row, shared, lock, job, news, proc, run, call, now, faults,
          misled, parted>>

Worker == "worker"
Processes == Web \cup {Worker}
NoFeed == 0
NoData == [data |-> 0, exp |-> 0]
Buckets == 0 .. MaxClock + 1
Ids == Feeds \X Buckets
Idle == [pc |-> "no", stale |-> 0, valid |-> 0, got |-> 0, tag |-> 0,
         id |-> <<>>]

Init ==
  /\ feed = [f \in Feeds |-> 1]
  /\ row = [f \in Feeds |-> [data |-> 0, tag |-> 0, at |-> 0]]
  /\ shared = [f \in Feeds |-> NoData] /\ lock = [f \in Feeds |-> "free"]
  /\ job = [i \in Ids |-> "no"] /\ news = [p \in Web |-> {}]
  /\ proc = [p \in Processes |->
       [l1 |-> [f \in Feeds |-> NoData], valid |-> [f \in Feeds |-> 0],
        queue |-> <<>>, scheduled |-> {}, active |-> 0, timer |-> FALSE,
        failing |-> {}, up |-> Durable, recent |-> [i \in Ids |-> "no"]]]
  /\ run = [p \in Processes |-> [f \in Feeds |-> Idle]]
  /\ call = [c \in Calls |->
       [pc |-> "no", id |-> <<>>, stale |-> 0, got |-> -1]]
  /\ now = 1 /\ faults = 0 /\ misled = {} /\ parted = {}

Fresh(entry) == entry.data # 0 /\ now < entry.exp
RssTtl == 1
FetchedEntry(f) == [data |-> row[f].data, exp |-> row[f].at + RssTtl]

(* getAsync: the own copy while it is fresh, else what Redis has.           *)
GetAsync(p, f) == IF Fresh(proc[p].l1[f]) THEN proc[p].l1[f] ELSE shared[f]

Fault == faults < MaxFaults /\ faults' = faults + 1
Finish(c, data) == call' = [call EXCEPT ![c].pc = "done", ![c].got = data]

-----------------------------------------------------------------------------
(* The local queue: one task for each feed, the pump armed by a timer.      *)
Arm(s) == [s EXCEPT !.timer = TRUE]

(* Fault: the new task goes first.                                          *)
InsertRssRefresh_Fault(s, task) == [s EXCEPT !.queue = <<task>> \o @]

InsertRssRefresh(s, task) ==
  LET n == Cardinality({i \in DOMAIN s.queue : s.queue[i].pri <= task.pri})
  IN [s EXCEPT !.queue = InsertAt(@, n + 1, task)]

Refused(s, f) == f \in s.failing \/ Len(s.queue) >= MaxQueue
ScheduleRssRefresh(s, f, stale, pri) ==
  IF f \in s.scheduled \/ Refused(s, f) THEN s
  ELSE Arm(InsertRssRefresh([s EXCEPT !.scheduled = @ \cup {f}],
                            [feed |-> f, stale |-> stale, pri |-> pri]))

(* The caller gets the promise of the task, or what is stale at once.  Who  *)
(* joins a task falls back on what that one began with, even if it knows    *)
(* more itself.                                                             *)
Begun(p, f) ==
  IF run[p][f].pc # "no" THEN run[p][f].stale
  ELSE (CHOOSE task \in Range(proc[p].queue) : task.feed = f).stale

Schedules(c, p, f, stale, s) ==
  LET t == ScheduleRssRefresh(s, f, stale, IF c \in Waits THEN 1 ELSE 10)
      begun == IF f \in s.scheduled THEN Begun(p, f) ELSE stale IN
  /\ proc' = [proc EXCEPT ![p] = t]
  /\ IF c \in Waits /\ f \in t.scheduled
     THEN call' = [call EXCEPT ![c].pc = "scheduled", ![c].stale = begun]
     ELSE call' = [call EXCEPT ![c] = [pc |-> "done", id |-> <<>>,
                                       stale |-> stale, got |-> stale]]

PumpRssRefreshQueue(s) ==
  IF s.active >= Concurrency \/ s.queue = <<>> THEN [s EXCEPT !.timer = FALSE]
  ELSE Arm([s EXCEPT !.queue = Tail(@), !.active = @ + 1])

Begin(stale, id) == [Idle EXCEPT !.pc = "locking", !.stale = stale, !.id = id]

Pump == \E p \in Web :
  LET s == proc[p]
      starts == s.active < Concurrency /\ s.queue # <<>> IN
  /\ s.timer
  /\ proc' = [proc EXCEPT ![p] = PumpRssRefreshQueue(s)]
  /\ run' = IF ~starts THEN run ELSE
       [run EXCEPT ![p][s.queue[1].feed] = Begin(s.queue[1].stale, <<>>)]
  /\ UNCHANGED <<feed, row, shared, lock, job, news, call, now, faults, misled,
                 parted>>

-----------------------------------------------------------------------------
(* fetchChannelRSS.  The job's name holds the time at which what is stale   *)
(* ceased to be fresh: one job for each version that is to be replaced.     *)
FreshnessJobId(f, at) == <<f, at>>

(* Fault: results that have come already are not looked at.                 *)
PrepareJobWaiter_Fault(p, id) == "waiting"

PrepareJobWaiter(p, id) ==
  IF proc[p].recent[id] = "no" THEN "waiting" ELSE proc[p].recent[id]

FetchChannelRSS == \E c \in Calls :
  LET p == HomeOf[c]
      f == FeedOf[c]
      s == proc[p]
      copy == IF GetAsync(p, f).data # 0 THEN GetAsync(p, f) ELSE s.l1[f]
      fromDb == copy.data = 0 /\ row[f].data # 0
      cached == IF fromDb THEN FetchedEntry(f) ELSE copy
      known == [s EXCEPT !.l1[f] = cached,
                         !.valid[f] = IF fromDb THEN row[f].tag ELSE @]
      id == FreshnessJobId(f, IF cached.data = 0 THEN now ELSE cached.exp)
  IN
  /\ call[c].pc = "no"
  /\ IF Fresh(cached)
     THEN Finish(c, cached.data) /\ proc' = [proc EXCEPT ![p] = known]
     ELSE IF s.up
     THEN /\ proc' = [proc EXCEPT ![p] = known]
          /\ call' = [call EXCEPT ![c] =
               [pc |-> "adding", id |-> id, stale |-> cached.data,
                got |-> IF c \in Waits THEN -1 ELSE cached.data]]
     ELSE Schedules(c, p, f, cached.data, known)
  /\ UNCHANGED <<feed, row, shared, lock, job, news, run, now, faults, misled,
                 parted>>

(* The waiter is there before the job is added.                             *)
EnqueueRssRefresh == \E c \in Calls :
  LET p == HomeOf[c]
      id == call[c].id
      status == IF c \in Waits THEN PrepareJobWaiter(p, id) ELSE "done" IN
  /\ call[c].pc = "adding"
  /\ call' = [call EXCEPT ![c].pc = "sent", ![c].id = <<id, status>>]
  /\ UNCHANGED <<feed, row, shared, lock, job, news, proc, run, now, faults,
                 misled, parted>>

Sent(c) == call[c].pc = "sent"
Id(c) == call[c].id[1]
Status(c) == call[c].id[2]

JobIsAdded == \E c \in Calls :
  /\ Sent(c)
  /\ job' = [job EXCEPT ![Id(c)] = IF @ = "no" THEN "queued" ELSE @]
  /\ call' = [call EXCEPT ![c].pc =
                IF c \notin Waits THEN "done"
                ELSE Status(c),
              ![c].id = Id(c)]
  /\ UNCHANGED <<feed, row, shared, lock, news, proc, run, now, faults, misled,
                 parted>>

(* No answer in time: the waiter goes, and the queue rests for a while.     *)
AddFails == \E c \in Calls :
  LET p == HomeOf[c] IN
  /\ Sent(c) /\ Fault
  /\ job' \in {job, [job EXCEPT ![Id(c)] = IF @ = "no" THEN "queued" ELSE @]}
  /\ Schedules(c, p, FeedOf[c], call[c].stale, [proc[p] EXCEPT !.up = FALSE])
  /\ UNCHANGED <<feed, row, shared, lock, news, run, now, misled, parted>>

CircuitCloses == \E p \in Web :
  /\ Durable /\ ~proc[p].up
  /\ proc' = [proc EXCEPT ![p].up = TRUE]
  /\ UNCHANGED <<feed, row, shared, lock, job, news, run, call, now, faults,
                 misled, parted>>

(* QueueEvents: all waiters of the job are told, and it is remembered.      *)
RecordJobResult == \E p \in Web : \E n \in news[p] :
  /\ news' = [news EXCEPT ![p] = @ \ {n}]
  /\ proc' = [proc EXCEPT ![p].recent[n.id] = n.status]
  /\ call' = [c \in Calls |->
       IF /\ HomeOf[c] = p
          /\ \/ call[c].pc = "waiting" /\ call[c].id = n.id
       THEN [call[c] EXCEPT !.pc = n.status]
       ELSE IF HomeOf[c] = p /\ Sent(c) /\ call[c].id = <<n.id, "waiting">>
       THEN [call[c] EXCEPT !.id = <<n.id, n.status>>] ELSE call[c]]
  /\ UNCHANGED <<feed, row, shared, lock, job, run, now, faults, misled,
                 parted>>

WaitTimesOut == \E c \in Calls :
  /\ call[c].pc = "waiting" /\ Finish(c, call[c].stale)
  /\ UNCHANGED <<feed, row, shared, lock, job, news, proc, run, now, faults,
                 misled, parted>>

CallGoesOn == \E c \in Calls :
  LET p == HomeOf[c]
      f == FeedOf[c]
      copy == GetAsync(p, f) IN
  /\ \/ /\ call[c].pc = "completed"
        /\ proc' = [proc EXCEPT ![p].l1[f] = IF copy.data # 0 THEN copy ELSE @]
        /\ Finish(c, IF Fresh(copy) THEN copy.data ELSE row[f].data)
     \/ /\ call[c].pc = "failed"
        /\ Schedules(c, p, f, call[c].stale, proc[p])
  /\ UNCHANGED <<feed, row, shared, lock, job, news, run, now, faults, misled,
                 parted>>

-----------------------------------------------------------------------------
(* The worker (refreshChannelRSSNow): what it knows is what the row says.   *)
WorkerStarts == \E id \in Ids :
  LET f == id[1] IN
  /\ job[id] = "queued" /\ run[Worker][f].pc = "no"
  /\ job' = [job EXCEPT ![id] = "active"]
  /\ proc' = [proc EXCEPT ![Worker].valid[f] =
                IF row[f].data # 0 THEN row[f].tag ELSE @]
  /\ run' = [run EXCEPT ![Worker][f] = Begin(row[f].data, id)]
  /\ UNCHANGED <<feed, row, shared, lock, news, call, now, faults, misled,
                 parted>>

(* refreshChannelRSSOwned: without the lock it waits for what the owner     *)
(* shares, for a second.                                                    *)
Step(p, f, r) == run' = [run EXCEPT ![p][f] = r]
At(p, f, pc) == run[p][f].pc = pc

Locks == \E p \in Processes, f \in Feeds :
  /\ At(p, f, "locking")
  /\ IF lock[f] = "free"
     THEN /\ lock' = [lock EXCEPT ![f] = p]
          /\ Step(p, f, [run[p][f] EXCEPT !.pc = "fetching"])
     ELSE UNCHANGED lock /\ Step(p, f, [run[p][f] EXCEPT !.pc = "polling"])
  /\ UNCHANGED <<feed, row, shared, job, news, proc, call, now, faults, misled,
                 parted>>

Polls == \E p \in Processes, f \in Feeds :
  LET copy == GetAsync(p, f)
      r == run[p][f] IN
  /\ At(p, f, "polling")
  /\ \/ /\ Fresh(copy)
        /\ proc' = [proc EXCEPT ![p].l1[f] = copy]
        /\ Step(p, f, [r EXCEPT !.pc = "ending", !.got = copy.data])
     \/ /\ UNCHANGED proc
        /\ Step(p, f, [r EXCEPT !.pc = "ending",
                         !.got = IF r.stale # 0 THEN r.stale ELSE row[f].data])
  /\ UNCHANGED <<feed, row, shared, lock, job, news, call, now, faults, misled,
                 parted>>

(* Without validators of its own it takes those of the row, and the row's   *)
(* data only when it has none.                                              *)
FetchChannelRSSFromYouTube == \E p \in Processes, f \in Feeds :
  LET r == run[p][f]
      adopts == proc[p].valid[f] = 0 /\ row[f].data # 0
      valid == IF adopts THEN row[f].tag ELSE proc[p].valid[f] IN
  /\ At(p, f, "fetching")
  /\ proc' = [proc EXCEPT ![p].valid[f] = valid]
  /\ Step(p, f, [r EXCEPT !.pc = "asking", !.valid = valid,
                   !.stale = IF adopts /\ @ = 0 THEN row[f].data ELSE @])
  /\ UNCHANGED <<feed, row, shared, lock, job, news, call, now, faults, misled,
                 parted>>

(* Nothing new (304) is told to who has something; else the whole feed.     *)
YouTubeAnswers == \E p \in Processes, f \in Feeds :
  LET r == run[p][f] IN
  /\ At(p, f, "asking")
  /\ Step(p, f,
       IF r.valid = feed[f] /\ r.stale # 0
       THEN [r EXCEPT !.pc = "touching", !.got = r.stale, !.tag = feed[f]]
       ELSE IF r.valid = feed[f] THEN [r EXCEPT !.pc = "unlocking", !.got = 0]
       ELSE [r EXCEPT !.got = feed[f], !.tag = feed[f],
               !.pc = IF r.stale = feed[f] THEN "touching" ELSE "setting"])
  /\ misled' = IF r.valid = feed[f] /\ 0 < r.stale /\ r.stale < r.valid
               THEN misled \cup {f} ELSE misled
  /\ UNCHANGED <<feed, row, shared, lock, job, news, proc, call, now, faults,
                 parted>>

(* The request, the body or the database fails: what is stale stays.        *)
RefreshFails == \E p \in Processes, f \in Feeds :
  /\ run[p][f].pc \in {"asking", "touching", "setting"} /\ Fault
  /\ Step(p, f, [run[p][f] EXCEPT !.pc = "unlocking", !.got = run[p][f].stale])
  /\ UNCHANGED <<feed, row, shared, lock, job, news, proc, call, now, misled,
                 parted>>

TouchRssCache(r, tag) ==
  IF r.data = 0 THEN r ELSE [r EXCEPT !.at = now, !.tag = tag]

(* Fault: the validators are written, the data is left for later.           *)
SetRssCache_Fault(r, data, tag) ==
  [data |-> IF r.data = 0 THEN data ELSE r.data, tag |-> tag, at |-> now]

SetRssCache(r, data, tag) == [data |-> data, tag |-> tag, at |-> now]

Writes == \E p \in Processes, f \in Feeds :
  LET r == run[p][f] IN
  /\ r.pc \in {"touching", "setting"}
  /\ row' = [row EXCEPT ![f] = IF r.pc = "touching" THEN TouchRssCache(@, r.tag)
                               ELSE SetRssCache(@, r.got, r.tag)]
  /\ proc' = [proc EXCEPT ![p].valid[f] = r.tag]
  /\ Step(p, f, [r EXCEPT !.pc = "sharing"])
  /\ UNCHANGED <<feed, shared, lock, job, news, call, now, faults, misled,
                 parted>>

Shares == \E p \in Processes, f \in Feeds :
  LET entry == [data |-> run[p][f].got, exp |-> now + RssTtl] IN
  /\ At(p, f, "sharing")
  /\ shared' = [shared EXCEPT ![f] = entry]
  /\ proc' = [proc EXCEPT ![p].l1[f] = entry]
  /\ Step(p, f, [run[p][f] EXCEPT !.pc = "unlocking"])
  /\ UNCHANGED <<feed, row, lock, job, news, call, now, faults, misled, parted>>

(* Fault: whoever holds it now, the lock is removed.                        *)
ReleaseLock_Fault(f, p) == [lock EXCEPT ![f] = "free"]
ReleaseLock(f, p) == [lock EXCEPT ![f] = IF @ = p THEN "free" ELSE @]

Unlocks == \E p \in Processes, f \in Feeds :
  /\ At(p, f, "unlocking")
  /\ lock' = ReleaseLock(f, p)
  /\ Step(p, f, [run[p][f] EXCEPT !.pc = "ending"])
  /\ UNCHANGED <<feed, row, shared, job, news, proc, call, now, faults, misled,
                 parted>>

LeaseIsLost == \E p \in Processes, f \in Feeds :
  /\ lock[f] = p /\ Fault
  /\ lock' = [lock EXCEPT ![f] = "free"]
  /\ parted' = parted \cup {<<p, f>>}
  /\ UNCHANGED <<feed, row, shared, job, news, proc, run, call, now, misled>>

(* The refresh ends: the pump's task is resolved, the worker's job done.  A *)
(* task that got nothing fresh is not tried again for a while.              *)
(* Fault: nothing is started in the place of what has ended.                *)
RefreshEnds_Fault(s, f) ==
  [s EXCEPT !.active = @ - 1, !.scheduled = @ \ {f},
     !.failing = IF Fresh(s.l1[f]) THEN @ \ {f} ELSE @ \cup {f}]

RefreshEnds(s, f) ==
  Arm([s EXCEPT !.active = @ - 1, !.scheduled = @ \ {f},
         !.failing = IF Fresh(s.l1[f]) THEN @ \ {f} ELSE @ \cup {f}])

RefreshIsOver == \E p \in Processes, f \in Feeds :
  LET r == run[p][f]
      fresh == Fresh(proc[p].l1[f])
      status == IF fresh THEN "completed" ELSE "failed" IN
  /\ At(p, f, "ending") /\ Step(p, f, Idle)
  /\ IF p = Worker
     THEN /\ \/ /\ job' = [job EXCEPT ![r.id] = status]
                /\ news' = [w \in Web |->
                     news[w] \cup {[id |-> r.id, status |-> status]}]
                /\ UNCHANGED faults
             \/ /\ ~fresh /\ Fault /\ job' = [job EXCEPT ![r.id] = "queued"]
                /\ UNCHANGED news
          /\ UNCHANGED <<proc, call>>
     ELSE /\ proc' = [proc EXCEPT ![p] = RefreshEnds(@, f)]
          /\ call' = [c \in Calls |->
               IF call[c].pc = "scheduled" /\ HomeOf[c] = p /\ FeedOf[c] = f
               THEN [call[c] EXCEPT !.pc = "done", !.got = r.got] ELSE call[c]]
          /\ UNCHANGED <<job, news, faults>>
  /\ UNCHANGED <<feed, row, shared, lock, now, misled, parted>>

-----------------------------------------------------------------------------
YouTubeChanges == \E f \in Feeds :
  /\ feed[f] < MaxVersion /\ feed' = [feed EXCEPT ![f] = @ + 1]
  /\ UNCHANGED <<row, shared, lock, job, news, proc, run, call, now, faults,
                 misled, parted>>

TimePasses ==
  /\ now < MaxClock /\ now' = now + 1
  /\ proc' = [p \in Processes |-> [proc[p] EXCEPT !.failing = {}]]
  /\ UNCHANGED <<feed, row, shared, lock, job, news, run, call, faults, misled,
                 parted>>

(* A web process starts anew: its map and validators are gone.              *)
Restarts == \E p \in Web :
  /\ Fault
  /\ \A c \in Calls : HomeOf[c] = p => call[c].pc \in {"no", "done"}
  /\ \A f \in Feeds : run[p][f] = Idle
  /\ proc[p].queue = <<>>
  /\ proc' = [proc EXCEPT ![p].l1 = [f \in Feeds |-> NoData],
       ![p].valid = [f \in Feeds |-> 0], ![p].failing = {},
       ![p].recent = [i \in Ids |-> "no"]]
  /\ UNCHANGED <<feed, row, shared, lock, job, news, run, call, now, misled,
                 parted>>

(* BullMQ keeps a failed job for five minutes.                              *)
JobIsRemoved == \E i \in Ids :
  /\ job[i] = "failed" /\ job' = [job EXCEPT ![i] = "no"]
  /\ UNCHANGED <<feed, row, shared, lock, news, proc, run, call, now, faults,
                 misled, parted>>

Local == Pump \/ FetchChannelRSS \/ EnqueueRssRefresh \/ JobIsAdded
         \/ RecordJobResult \/ WaitTimesOut \/ CallGoesOn
Refresh == Locks \/ Polls \/ FetchChannelRSSFromYouTube \/ YouTubeAnswers
           \/ Writes \/ Shares \/ Unlocks \/ RefreshIsOver
Next == Local \/ Refresh \/ WorkerStarts \/ AddFails \/ CircuitCloses
        \/ RefreshFails \/ LeaseIsLost \/ YouTubeChanges \/ TimePasses
        \/ Restarts \/ JobIsRemoved

Spec == Init /\ [][Next]_vars

-----------------------------------------------------------------------------
Working == {"fetching", "asking", "touching", "setting", "sharing", "unlocking"}

TypeOK ==
  /\ \A f \in Feeds : /\ row[f].data <= feed[f] /\ row[f].tag <= feed[f]
                      /\ lock[f] \in Processes \cup {"free"}
  /\ \A p \in Processes : Len(proc[p].queue) <= MaxQueue

(* The validators in the library are never newer than its data: otherwise   *)
(* YouTube would say "nothing new" and the old data stayed (rss.ts 236).    *)
NeverFrozen == \A f \in Feeds :
  (\A p \in Processes : <<p, f>> \notin parted) => row[f].tag <= row[f].data

(* What Redis holds as fresh is what the library holds, once the refresh    *)
(* has shared it.  The exception is a refresh that began with older data    *)
(* than the validators it finds when its turn comes, the row's or those of  *)
(* another refresh of its process: it is told "nothing new" and shares the  *)
(* older data as fresh (rss.ts 217-243).                                    *)
FreshIsNewest == \A f \in Feeds :
  \/ f \in misled \/ \E p \in Processes : <<p, f>> \in parted
  \/ \E p \in Processes : run[p][f].pc = "sharing"
  \/ Fresh(shared[f]) => shared[f].data = row[f].data

(* Nobody is told less than was known when the question came or, of a       *)
(* refresh that another call began, when that one began.                    *)
NobodyGoesBack == \A c \in Calls :
  \/ call[c].pc # "done" \/ FeedOf[c] \in misled
  \/ \E p \in Processes : <<p, FeedOf[c]>> \in parted
  \/ call[c].got >= call[c].stale

(* One process asks YouTube for a feed: who lost its lease may go on, but   *)
(* it does not let a third one in.                                          *)
OneFetcher == \A f \in Feeds :
  Cardinality({p \in Processes : /\ run[p][f].pc \in Working
                             /\ <<p, f>> \notin parted}) <= 1

(* Nobody waits for a result that has come (rss-refresh-queue.ts 110).      *)
NoMissedResult == \A c \in Calls :
  call[c].pc = "waiting" => proc[HomeOf[c]].recent[call[c].id] = "no"

(* The pump is armed while it could start something, starts interactive     *)
(* refreshes first, and no feed is scheduled that nobody will refresh.      *)
PumpIsArmed == \A p \in Web :
  LET s == proc[p]
      running == {f \in Feeds : run[p][f].pc # "no"} IN
  /\ s.queue # <<>> /\ s.active < Concurrency => s.timer
  /\ \A i, j \in DOMAIN s.queue : i < j => s.queue[i].pri <= s.queue[j].pri
  /\ s.active = Cardinality(running) /\ s.active <= Concurrency
  /\ s.scheduled = running \cup {s.queue[i].feed : i \in DOMAIN s.queue}

FeedSafe == /\ TypeOK /\ NeverFrozen /\ FreshIsNewest /\ NobodyGoesBack
            /\ OneFetcher /\ NoMissedResult /\ PumpIsArmed
=============================================================================
