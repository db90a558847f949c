---------------------------- MODULE ExploreFeed ----------------------------
(* The Explore feed of one user: who builds it, what the build reads of the *)
(* user's choices, how the feed is put together, and how a choice drops the *)
(* cached feed.  What a score is made of is data: a ranking is any order of *)
(* the candidates, a shuffle any order.  A tag does here what a dismissal   *)
(* does, and a queued video what a boost does.                              *)
EXTENDS Integers, FiniteSets, Sequences, SequencesExt, FiniteSetsExt, TLC

CONSTANTS
  Procs,          \* web processes, each with a local level of the cache
  Askers, ProcOf,  \* requests for the feed, and the process of each
  Routes, RouteAt,       \* requests that choose, and the process of each
  Acts,           \* what they may choose
  Channels, Videos, ChannelOf,
  Recency,        \* the videos of subscribed channels, newest first
  Related,        \* videos that watched videos link to
  Old,            \* videos of a week and more
  Favourites,     \* channels the user watches most
  MinWatches,     \* REWATCH_MIN_WATCHES
  Emerging,       \* subscribed channels that few know
  Shelves,        \* initial states of what is stored
  Threshold,      \* DISMISS_MUTE_THRESHOLD
  Candidates,     \* EXPLORE_RICH_SCORE_CANDIDATE_LIMIT
  TopCount, DiversitySlots, DeepCutSlots, ExplorationSlots, EmergingAt,
  Every,          \* one diversity pick in so many places
  DeepFrom, DeepEvery,   \* the places of deep cuts
  PoolStart, PoolEnd,    \* the middle of the ranking
  HeadCount, HeadCap,    \* TOP_SLOT_COUNT, TOP_SLOT_CAP
  MaxPolls,       \* attempts of a call that waits for another process
  MaxFaults, MaxExpiries \* bounds on failures and on the end of a TTL

VARIABLES
  shelf,    \* the rows: what was watched, and the choices
  made,     \* how many statements have changed the choices
  told,     \* the last one whose route has dropped the feed, by process
  route,    \* the requests that choose
  call,     \* the requests for the feed
  copy,     \* the local level of each process
  shared,   \* the level in Redis
  pending,  \* what a process has still to tell Redis, in order
  lock,     \* whose token is in explore-build:<user>
  flight,   \* exploreInflight of each process: the call that leads
  faults, expired

vars == <<shelf, made, told, route, call, copy, shared, pending, lock,
          flight, faults, expired>>

choices == <<shelf, made, told, route>>
levels == <<copy, shared, pending>>
troubles == <<faults, expired>>

NoFeed == [list |-> <<>>, made |-> 0, late |-> FALSE, blind |-> FALSE,
           none |-> TRUE]
NoOne == 0
Ghost == 0 - 1  \* a token whose owner was not told

\* Rows of a user who has watched nothing and chosen nothing.  What was seen
\* of a video is a percentage.
Unseen == 0 - 1
NoRows == [seen |-> [v \in Videos |-> Unseen], struggling |-> FALSE,
           muted |-> {}, boosted |-> {}, dismissed |-> {}, disliked |-> {}]

\* What a build keeps: the rows, what it read at first and after that, and
\* the choices as they stood when it read them.
NoReading == [rows |-> {}, first |-> NoRows, signals |-> NoRows,
              chosen |-> NoRows, blind |-> FALSE, of |-> 0]

Subscribed == {ChannelOf[v] : v \in ToSet(Recency)}
Has(feed) == ~feed.none

Init ==
  /\ shelf \in Shelves
  /\ made = 0 /\ told = [p \in Procs |-> 0]
  /\ route = [r \in Routes |->
       [pc |-> "idle", act |-> "none", on |-> "none", of |-> 0]]
  /\ call = [c \in Askers |->
       [pc |-> "idle", at |-> "ask", since |-> 0, wait |-> 0, got |-> NoFeed,
        stale |-> NoFeed, polls |-> 0, late |-> FALSE] @@ NoReading]
  /\ copy = [p \in Procs |-> NoFeed] /\ shared = NoFeed
  /\ pending = [p \in Procs |-> <<>>]
  /\ lock = NoOne /\ flight = [p \in Procs |-> NoOne]
  /\ faults = 0 /\ expired = 0

-----------------------------------------------------------------------------
(* What a build reads.                                                      *)

\* The rows a snapshot may offer: not tagged, dismissed or muted, and not
\* watched, unless the channel is boosted or has videos in the queue.
Offered(db) ==
  {v \in ToSet(Recency) :
     /\ v \notin db.dismissed /\ ChannelOf[v] \notin db.muted
     /\ \/ db.seen[v] < 50
        \/ db.seen[v] > 90 /\ ChannelOf[v] \in db.boosted}

\* The newest of each channel first, then an old one of each, then the rest.
SelectExploreRssCandidates(db) ==
  LET rows == SelectSeq(Recency, LAMBDA v : v \in Offered(db))
      FirstOf(s) == SelectSeq(s, LAMBDA v :
        \A i \in 1..Len(s) : s[i] = v =>
          \A j \in 1..(i - 1) : ChannelOf[s[j]] # ChannelOf[v])
      oldest == SelectSeq(Reverse(rows), LAMBDA v : v \in Old)
      preferred == FirstOf(rows) \o FirstOf(oldest)
      Once(s, v) == IF v \in ToSet(s) THEN s ELSE Append(s, v)
      chosen == FoldLeft(Once, <<>>, preferred \o rows)
  IN  ToSet(SubSeq(chosen, 1, Min({Candidates, Len(chosen)})))

\* What a channel's watched videos say of it.
WatchedOf(ch, first) ==
  {v \in Videos : ChannelOf[v] = ch /\ first.seen[v] # Unseen}
Comfort(ch, first) ==
  LET watched == WatchedOf(ch, first)
  IN  /\ Cardinality(watched) >= MinWatches
      /\ MapThenSumSet(LAMBDA v : first.seen[v], watched)
           >= 80 * Cardinality(watched)

QueryUserSignals_Fault(rows) == (* Fault: about its own rows alone. *)
  LET channels == {ChannelOf[v] : v \in rows}
  IN  [shelf EXCEPT !.dismissed = @ \cap rows, !.disliked = @ \cap rows,
                    !.muted = @ \cap channels, !.boosted = @ \cap channels]

\* The choices about what the build may show: its rows and related videos.
QueryUserSignals(rows) ==
  LET relevant == rows \cup Related
      channels == {ChannelOf[v] : v \in relevant}
  IN  [shelf EXCEPT !.dismissed = @ \cap relevant, !.disliked = @ \cap relevant,
                    !.muted = @ \cap channels, !.boosted = @ \cap channels]

\* Channels watched often and to the end, if the user asks for them.
RewatchEligible(first, signals) == {ch \in signals.boosted : Comfort(ch, first)}

\* The rows that the second reading leaves.
Eligible(rows, first, signals) ==
  {v \in rows :
     /\ v \notin signals.dismissed /\ ChannelOf[v] \notin signals.muted
     /\ \/ first.seen[v] < 50
        \/ /\ first.seen[v] > 90
           /\ ChannelOf[v] \in RewatchEligible(first, signals)}

\* Videos of other channels that watched ones link to.
MixedIn(rows, first, signals) ==
  {v \in Related :
     /\ ChannelOf[v] \notin Subscribed \cup signals.muted
     /\ v \notin rows \cup signals.dismissed \cup signals.disliked
     /\ first.seen[v] <= 90}

-----------------------------------------------------------------------------
(* How the feed is put together.                                            *)

Orders(S) == {s \in [1..Cardinality(S) -> S] : IsInjective(s)}

\* The first video of each channel in a shuffled order, slots of them at most.
Picks(S, slots) ==
  LET n == Min({slots, Cardinality({ChannelOf[v] : v \in S})}) IN
  {s \in [1..n -> S] : IsInjective([i \in 1..n |-> ChannelOf[s[i]]])}

\* splice(min(at[i], length), 0, picks[i]) for one pick after the other.
Splice(list, picks, at) ==
  LET Insert(s, i) == InsertAt(s, Min({at[i], Len(s)}) + 1, picks[i])
  IN  FoldLeftDomain(Insert, list, picks)

\* When sessions find little, half as many slots again are given to surprise.
Slots(base, struggling) == IF struggling THEN (3 * base + 1) \div 2 ELSE base

DiversityAt == [i \in 1..DiversitySlots |-> i * Every - 1]
DeepCutAt == [i \in 1..Slots(DeepCutSlots, TRUE) |-> DeepFrom + (i - 1) * DeepEvery]
ExplorationAt == [i \in 1..Slots(ExplorationSlots, TRUE) |->
                    i * Every - Every \div 2]

CountOf(ch, list) == Cardinality({i \in DOMAIN list : ChannelOf[list[i]] = ch})

CapHead_Fault(list) == (* Fault: the head is left as it is. *)
  list

\* A third video of a channel leaves the head and follows right behind it.
CapHead(list) ==
  LET fits(i) == CountOf(ChannelOf[list[i]], SubSeq(list, 1, i)) <= HeadCap
      ends == {n \in 0..Len(list) :
                 Cardinality({i \in 1..n : fits(i)}) = HeadCount}
      last == IF ends = {} THEN Len(list) ELSE Min(ends)
      At(test(_)) == LET at == SetToSortSeq({i \in 1..last : test(i)}, <)
                     IN  [k \in DOMAIN at |-> list[at[k]]]
  IN  IF Len(list) <= HeadCount THEN list
      ELSE At(fits) \o At(LAMBDA i : ~fits(i))
             \o SubSeq(list, last + 1, Len(list))

Prefix(list, n) == SubSeq(list, 1, Min({n, Len(list)}))

\* The first n of a list in an order that mixes their topics, and the rest;
\* a list that is not longer is returned as it is.
EnsureTopicDiversity(list, n) ==
  IF Len(list) <= n THEN {list}
  ELSE {r \in Orders(ToSet(list)) : Head(r) = Head(list)}

\* The head alone is reordered.
MixTopics(list) ==
  IF Len(list) <= HeadCount THEN {list}
  ELSE {r \o SubSeq(list, HeadCount + 1, Len(list)) :
          r \in EnsureTopicDiversity(Prefix(list, HeadCount), HeadCount)}

\* Every feed that a ranking, and the shuffles of the picks, may give.
Feeds(rows, first, signals) ==
  LET scored == Eligible(rows, first, signals)
      pool == scored \cup MixedIn(rows, first, signals)
      explore == Slots(ExplorationSlots, first.struggling)
      deep == Slots(DeepCutSlots, first.struggling)
      Fresh(S, list) == S \ ToSet(list)
  IN  UNION {
        LET topN == Prefix(order, TopCount - DiversitySlots - explore)
            missing == Subscribed \ {ChannelOf[v] : v \in ToSet(topN)}
        IN UNION {
          LET a == Splice(topN, diverse, DiversityAt) IN UNION {
            LET b == Splice(a, cuts, DeepCutAt)
                ranked == Prefix(order, PoolEnd)
                middle == ToSet(SubSeq(ranked, PoolStart + 1, Len(ranked)))
            IN UNION {
              LET c == Splice(b, surprises, ExplorationAt) IN UNION {
                {Prefix(mixed, TopCount) : mixed \in MixTopics(CapHead(
                   Splice(c, rising, EmergingAt)))} :
                rising \in Picks({v \in Fresh(scored, c) :
                                    ChannelOf[v] \in Emerging}, Len(EmergingAt))} :
              surprises \in Picks({v \in Fresh(middle, b) :
                                     CountOf(ChannelOf[v], b) < 2}, explore)} :
            cuts \in Picks({v \in Fresh(scored, a) \cap Old :
                              /\ ChannelOf[v] \in Favourites
                              /\ WatchedOf(ChannelOf[v], first) # {}}, deep)} :
          diverse \in Picks({v \in Fresh(scored, topN) :
                               ChannelOf[v] \in missing}, DiversitySlots)} :
        order \in Orders(pool)}
-----------------------------------------------------------------------------
(* The cache of two levels.                                                 *)

Goes(c, ch) == call' = [call EXCEPT ![c] = ch @@ @]
Told(p, m) == pending' = [pending EXCEPT ![p] = Append(@, m)]

\* getAsync: the local level, or Redis behind what this process has to tell it.
Look(c) ==
  LET p == ProcOf[c] IN
  /\ call[c].pc = "look"
  /\ IF Has(copy[p]) THEN Goes(c, [pc |-> "found", got |-> copy[p]])
     ELSE Goes(c, [pc |-> "read", wait |-> Len(pending[p]), late |-> FALSE])
  /\ UNCHANGED <<choices, levels, lock, flight, troubles>>

RedisAnswers(c) ==
  /\ call[c].pc = "read" /\ call[c].wait = 0
  /\ \/ /\ Goes(c, [pc |-> "reply", got |-> shared])
        /\ UNCHANGED faults
     \/ /\ faults < MaxFaults /\ faults' = faults + 1
        /\ Goes(c, [pc |-> "reply", got |-> NoFeed])
  /\ UNCHANGED <<choices, levels, lock, flight, expired>>

Arrives(c) ==
  LET feed == [call[c].got EXCEPT !.late = @ \/ call[c].late] IN
  /\ call[c].pc = "reply"
  /\ copy' = IF Has(feed) THEN [copy EXCEPT ![ProcOf[c]] = feed] ELSE copy
  /\ Goes(c, [pc |-> "found", got |-> feed, late |-> FALSE])
  /\ UNCHANGED <<choices, shared, pending, lock, flight, troubles>>

\* The first mutation of a process reaches Redis, or fails: the feed that a
\* failed delete leaves there will be found late.
Execute(p) ==
  /\ pending[p] # <<>>
  /\ \/ shared' = Head(pending[p]) /\ UNCHANGED faults
     \/ /\ faults < MaxFaults /\ faults' = faults + 1
        /\ shared' = IF Has(shared) /\ ~Has(Head(pending[p]))
                     THEN [shared EXCEPT !.late = TRUE] ELSE shared
  /\ pending' = [pending EXCEPT ![p] = Tail(@)]
  /\ call' = [c \in Askers |->
       IF ProcOf[c] = p /\ call[c].wait > 0
       THEN [call[c] EXCEPT !.wait = @ - 1] ELSE call[c]]
  /\ UNCHANGED <<choices, copy, lock, flight, expired>>

\* EXPLORE_TTL is over: getAsync drops what is expired, and so does Redis.
Expire ==
  /\ expired < MaxExpiries /\ expired' = expired + 1
  /\ \/ /\ \E p \in Procs : Has(copy[p]) /\ copy' = [copy EXCEPT ![p] = NoFeed]
        /\ UNCHANGED shared
     \/ Has(shared) /\ shared' = NoFeed /\ UNCHANGED copy
  /\ UNCHANGED <<choices, call, pending, lock, flight, faults>>

-----------------------------------------------------------------------------
(* Who builds: one call of a process leads, one process holds the lock.     *)

Request(c) ==
  /\ call[c].pc = "idle"
  /\ Goes(c, [pc |-> "look", at |-> "ask", since |-> told[ProcOf[c]]])
  /\ UNCHANGED <<choices, levels, lock, flight, troubles>>

Answered(c, feed) == [pc |-> "done", got |-> feed, stale |-> NoFeed, wait |-> 0,
                      late |-> FALSE] @@ NoReading
Failed(c) == [pc |-> "failed", got |-> NoFeed, stale |-> NoFeed, wait |-> 0,
              late |-> FALSE] @@ NoReading

\* The flight settles: who leads it and who has joined it get its result, and
\* from some errors each falls back on what it found expired.
Settle(c, feed, lenient) ==
  LET p == ProcOf[c]
      End(d) ==
        IF Has(feed) THEN Answered(d, feed)
        ELSE IF lenient /\ Has(call[d].stale) THEN Answered(d, call[d].stale)
        ELSE Failed(d)
  IN  /\ call' = [d \in Askers |->
           IF d = c \/ (ProcOf[d] = p /\ call[d].pc = "joined")
           THEN End(d) @@ call[d] ELSE call[d]]
      /\ flight' = [flight EXCEPT ![p] = NoOne]

\* A feed whose time is over between the look at it and the caller's look at
\* the clock is what a caller has as a stale one.
JustExpired(c) ==
  Has(call[c].got) /\ expired < MaxExpiries /\ expired' = expired + 1

RunBoundedSingleFlight_Fault(c, stale) == (* Fault: every call leads. *)
  /\ Goes(c, [pc |-> "lock", got |-> NoFeed, stale |-> stale, polls |-> 0])
  /\ flight' = [flight EXCEPT ![ProcOf[c]] = c] /\ UNCHANGED faults

RunBoundedSingleFlight(c, stale) ==
  LET p == ProcOf[c] IN
  IF flight[p] # NoOne
  THEN /\ Goes(c, [pc |-> "joined", got |-> NoFeed, stale |-> stale])
       /\ UNCHANGED <<flight, faults>>
  ELSE \/ /\ Goes(c, [pc |-> "lock", got |-> NoFeed, stale |-> stale,
                       polls |-> 0])
          /\ flight' = [flight EXCEPT ![p] = c] /\ UNCHANGED faults
       \/ /\ faults < MaxFaults /\ faults' = faults + 1  \* too many users at once
          /\ Goes(c, IF Has(stale) THEN Answered(c, stale) ELSE Failed(c))
          /\ UNCHANGED flight

Asked(c) ==
  /\ call[c].pc = "found" /\ call[c].at = "ask"
  /\ \/ /\ Has(call[c].got) /\ Goes(c, Answered(c, call[c].got))
        /\ UNCHANGED <<flight, troubles>>
     \/ /\ ~Has(call[c].got) /\ RunBoundedSingleFlight(c, NoFeed)
        /\ UNCHANGED expired
     \/ JustExpired(c) /\ RunBoundedSingleFlight(c, call[c].got)
  /\ UNCHANGED <<choices, levels, lock>>

\* While another process builds, a call looks again from time to time.
Polled(c) ==
  /\ call[c].pc = "found" /\ call[c].at = "poll"
  /\ \/ /\ Has(call[c].got) /\ Settle(c, call[c].got, TRUE) /\ UNCHANGED expired
     \/ /\ \/ ~Has(call[c].got) /\ UNCHANGED expired
           \/ JustExpired(c)
        /\ Goes(c, [pc |-> "lock", got |-> NoFeed]) /\ UNCHANGED flight
  /\ UNCHANGED <<choices, levels, lock, faults>>

Wakes(c) ==
  /\ call[c].pc = "wait"
  /\ Goes(c, [pc |-> "look", at |-> "poll", polls |-> call[c].polls + 1])
  /\ UNCHANGED <<choices, levels, lock, flight, troubles>>

\* acquireLock: granted, refused, or let through because Redis does not answer.
AcquireLock(c) ==
  /\ call[c].pc = "lock"
  /\ \/ /\ lock = NoOne /\ lock' = c
        /\ Goes(c, [pc |-> "look", at |-> "build"])
        /\ UNCHANGED <<flight, faults>>
     \/ /\ faults < MaxFaults /\ faults' = faults + 1
        /\ lock' \in {lock, IF lock = NoOne THEN Ghost ELSE lock}
        /\ Goes(c, [pc |-> "look", at |-> "build"]) /\ UNCHANGED flight
     \/ /\ lock # NoOne /\ UNCHANGED <<lock, faults>>
        /\ CASE call[c].polls = 0 /\ Has(call[c].stale) ->
                  Settle(c, call[c].stale, TRUE)
             [] call[c].polls = MaxPolls -> Settle(c, NoFeed, FALSE)
             [] OTHER -> Goes(c, [pc |-> "wait"]) /\ UNCHANGED flight
  /\ UNCHANGED <<choices, levels, expired>>

Tends(c) ==
  \/ call[c].at = "build" /\ call[c].pc \in {"look", "read", "reply", "found"}
  \/ call[c].pc \in {"snapshot", "signals", "rank", "publish"}

\* A lease ends when nobody renews it, or when no renewal gets through.
Lapses ==
  /\ lock # NoOne /\ lock' = NoOne
  /\ IF lock \in Askers /\ Tends(lock)
     THEN faults < MaxFaults /\ faults' = faults + 1 ELSE UNCHANGED faults
  /\ UNCHANGED <<choices, call, levels, flight, expired>>

-----------------------------------------------------------------------------
(* A build.                                                                 *)

LooksAgain(c) ==
  /\ call[c].pc = "found" /\ call[c].at = "build"
  /\ \/ /\ Has(call[c].got) /\ Goes(c, [pc |-> "release"]) /\ UNCHANGED expired
     \/ /\ \/ ~Has(call[c].got) /\ UNCHANGED expired
           \/ JustExpired(c)
        /\ Goes(c, [pc |-> "snapshot", got |-> NoFeed])
  /\ UNCHANGED <<choices, levels, lock, flight, faults>>

\* Sessions, the rows on offer and what was watched; SQLite's reader may be
\* overloaded or too slow.
ReadSnapshot(c) ==
  /\ call[c].pc = "snapshot"
  /\ \/ /\ Goes(c, [pc |-> "signals", first |-> shelf,
                     rows |-> SelectExploreRssCandidates(shelf)])
        /\ UNCHANGED faults
     \/ /\ faults < MaxFaults /\ faults' = faults + 1
        /\ Goes(c, [pc |-> "release"])
  /\ UNCHANGED <<choices, levels, lock, flight, expired>>

Feed(c, list) == [list |-> list, made |-> call[c].of, late |-> call[c].late,
                  blind |-> call[c].blind, none |-> FALSE]

\* The choices; SQLite's reader gives none when it fails.
ReadSignals(c) ==
  /\ call[c].pc = "signals"
  /\ \/ /\ Goes(c, [pc |-> "rank", signals |-> QueryUserSignals(call[c].rows),
                     chosen |-> shelf, of |-> made, late |-> FALSE,
                     blind |-> FALSE])
        /\ UNCHANGED faults
     \/ /\ faults < MaxFaults /\ faults' = faults + 1
        /\ Goes(c, [pc |-> "rank", signals |-> NoRows, chosen |-> NoRows,
                    blind |-> TRUE, of |-> made, late |-> FALSE])
  /\ UNCHANGED <<choices, levels, lock, flight, expired>>

\* A feed is stored here at once and in Redis before the lock is given back;
\* an empty one does not wait for Redis.
BuildExploreVideos(c) ==
  LET p == ProcOf[c]  b == call[c] IN
  /\ b.pc = "rank"
  /\ IF b.rows = {}
     THEN /\ copy' = [copy EXCEPT ![p] = Feed(c, <<>>)]
          /\ Goes(c, [pc |-> "release", got |-> copy'[p]])
     ELSE \E list \in Feeds(b.rows, b.first, b.signals) :
          /\ copy' = [copy EXCEPT ![p] = Feed(c, list)]
          /\ Goes(c, [pc |-> "publish", got |-> copy'[p],
                      wait |-> Len(pending[p]) + 1])
  /\ Told(p, copy'[p])
  /\ UNCHANGED <<choices, shared, lock, flight, troubles>>

Published(c) ==
  /\ call[c].pc = "publish" /\ call[c].wait = 0
  /\ Goes(c, [pc |-> "release"] @@ NoReading)
  /\ UNCHANGED <<choices, levels, lock, flight, troubles>>

\* The token is given back by its owner only, unless Redis does not answer.
ReleaseLock(c) ==
  /\ call[c].pc = "release"
  /\ \/ lock' = (IF lock = c THEN NoOne ELSE lock) /\ UNCHANGED faults
     \/ lock = c /\ faults < MaxFaults /\ faults' = faults + 1 /\ UNCHANGED lock
  /\ Settle(c, call[c].got, TRUE)
  /\ UNCHANGED <<choices, levels, expired>>

-----------------------------------------------------------------------------
(* Choices.                                                                 *)

Writes(r, db, ch) ==
  /\ shelf' = db /\ made' = made + 1
  /\ route' = [route EXCEPT ![r] = [of |-> made + 1] @@ ch @@ @]

\* The statement of a route: muting takes a second one.
Choose(r) ==
  /\ route[r].pc = "idle"
  /\ \E act \in Acts :
       LET Done(db) == Writes(r, db, [pc |-> "drop"])  on == {act.on} IN
       CASE act.kind = "mute" ->
              Writes(r, [shelf EXCEPT !.muted = @ \cup on],
                     [pc |-> "unboost", act |-> "mute", on |-> act.on])
         [] act.kind = "dismiss" ->
              Writes(r, [shelf EXCEPT !.dismissed = @ \cup on],
                     [pc |-> "drop", act |-> "dismiss", on |-> act.on])
         [] act.kind = "unmute" -> Done([shelf EXCEPT !.muted = @ \ on])
         [] act.kind = "boost" -> Done([shelf EXCEPT !.boosted = @ \cup on])
         [] act.kind = "unboost" -> Done([shelf EXCEPT !.boosted = @ \ on])
         [] act.kind = "undismiss" -> Done([shelf EXCEPT !.dismissed = @ \ on])
         [] act.kind = "dislike" -> Done([shelf EXCEPT !.disliked = @ \cup on])
  /\ UNCHANGED <<told, call, levels, lock, flight, troubles>>

Unboost(r) ==
  /\ route[r].pc = "unboost"
  /\ Writes(r, [shelf EXCEPT !.boosted = @ \ {route[r].on}],
            [pc |-> IF route[r].act = "mute" THEN "drop" ELSE "done"])
  /\ UNCHANGED <<told, call, levels, lock, flight, troubles>>

\* What is on its way while a choice drops the feed: builds that have read,
\* reads of Redis, and feeds that are not published yet.
Overtaken(p) ==
  /\ call' = [c \in Askers |->
       LET b == call[c]
           mine == ProcOf[c] = p /\ b.pc \in {"found", "publish", "release"}
           reads == ProcOf[c] = p /\ b.pc \in {"read", "reply"}
       IN  [b EXCEPT !.late = @ \/ b.pc = "rank" \/ reads,
                     !.got.late = @ \/ (mine /\ Has(b.got)),
                     !.stale.late = @ \/ (ProcOf[c] = p /\ Has(b.stale))]]
  /\ pending' = [q \in Procs |->
       LET marked == [i \in DOMAIN pending[q] |->
             [pending[q][i] EXCEPT !.late = Has(pending[q][i])]]
       IN  IF q = p THEN Append(marked, NoFeed) ELSE marked]

DropFeed_Fault(r) == (* Fault: Redis is told, the local level is not. *)
  LET p == RouteAt[r] IN
  /\ route[r].pc = "drop"
  /\ told' = [told EXCEPT ![p] = Max({@, route[r].of})]
  /\ Overtaken(p)
  /\ route' = [route EXCEPT ![r].pc =
                  IF route[r].act = "dismiss" THEN "count" ELSE "done"]
  /\ UNCHANGED <<shelf, made, copy, shared, lock, flight, troubles>>

\* cache.exploreVideos.delete.
DropFeed(r) ==
  LET p == RouteAt[r] IN
  /\ route[r].pc = "drop"
  /\ copy' = [copy EXCEPT ![p] = NoFeed]
  /\ told' = [told EXCEPT ![p] = Max({@, route[r].of})]
  /\ Overtaken(p)
  /\ route' = [route EXCEPT ![r].pc =
                  IF route[r].act = "dismiss" THEN "count" ELSE "done"]
  /\ UNCHANGED <<shelf, made, shared, lock, flight, troubles>>

\* After so many dismissals a channel is muted; the feed is not dropped again.
MuteDismissed(r) ==
  LET ch == ChannelOf[route[r].on] IN
  /\ route[r].pc = "count"
  /\ IF Cardinality({v \in shelf.dismissed : ChannelOf[v] = ch}) >= Threshold
     THEN Writes(r, [shelf EXCEPT !.muted = @ \cup {ch}],
                 [pc |-> "unboost", on |-> ch])
     ELSE route' = [route EXCEPT ![r].pc = "done"] /\ UNCHANGED <<shelf, made>>
  /\ UNCHANGED <<told, call, levels, lock, flight, troubles>>

Next ==
  \/ \E c \in Askers :
       \/ Request(c) \/ Look(c) \/ RedisAnswers(c) \/ Arrives(c) \/ Asked(c)
       \/ Polled(c) \/ Wakes(c) \/ AcquireLock(c) \/ LooksAgain(c)
       \/ ReadSnapshot(c) \/ ReadSignals(c) \/ BuildExploreVideos(c)
       \/ Published(c) \/ ReleaseLock(c)
  \/ \E p \in Procs : Execute(p)
  \/ Expire \/ Lapses
  \/ \E r \in Routes :
       Choose(r) \/ Unboost(r) \/ DropFeed(r) \/ MuteDismissed(r)

Spec == Init /\ [][Next]_vars
-----------------------------------------------------------------------------
FeedType == [list : Seq(Videos), made : Nat, late : BOOLEAN, blind : BOOLEAN,
             none : BOOLEAN]
Stages == {"idle", "look", "read", "reply", "found", "joined", "lock", "wait",
           "snapshot", "signals", "rank", "publish", "release", "done",
           "failed"}

TypeOK ==
  /\ made \in Nat /\ told \in [Procs -> Nat]
  /\ \A c \in Askers :
       /\ call[c].pc \in Stages /\ call[c].at \in {"ask", "poll", "build"}
       /\ call[c].wait \in 0..Len(pending[ProcOf[c]])
       /\ call[c].polls \in 0..MaxPolls
       /\ call[c].got \in FeedType /\ call[c].rows \subseteq Videos
  /\ \A p \in Procs : copy[p] \in FeedType /\ pending[p] \in Seq(FeedType)
  /\ shared \in FeedType /\ lock \in Askers \cup {NoOne, Ghost}
  /\ flight \in [Procs -> Askers \cup {NoOne}]

Building(c) == Tends(c) \/ call[c].pc = "release"
Leading == {"lock", "wait", "look", "read", "reply", "found", "snapshot",
            "signals", "rank", "publish", "release"}

(* Whoever has joined a flight waits for a call that leads it and has not   *)
(* ended, and a token in Redis that no fault has left there belongs to a    *)
(* build that will give it back (explore.ts:1931, 1953).                    *)
NobodyForgotten ==
  /\ \A c \in Askers : call[c].pc = "joined" => flight[ProcOf[c]] # NoOne
  /\ \A p \in Procs : flight[p] # NoOne =>
       ProcOf[flight[p]] = p /\ call[flight[p]].pc \in Leading
  /\ faults = 0 /\ lock # NoOne => lock \in Askers /\ Building(lock)

(* A process builds the feed once at a time, and all of them together do    *)
(* unless Redis failed or a lease lapsed (explore.ts:1931).                 *)
OneBuild ==
  /\ \A c, d \in Askers :
       c # d /\ Building(c) /\ Building(d) => ProcOf[c] # ProcOf[d]
  /\ faults = 0 => \A c, d \in Askers : Tends(c) /\ Tends(d) => c = d

(* After a choice was answered its process shows no feed from before it,    *)
(* neither from its cache nor to who asks then, except one that was on its  *)
(* way while the choice was made (routes: cache.exploreVideos.delete).      *)
OwnChoicesShow ==
  /\ \A p \in Procs : Has(copy[p]) /\ copy[p].made < told[p] => copy[p].late
  /\ \A c \in Askers : Has(call[c].got) /\ call[c].pc = "done"
       /\ call[c].got.made < call[c].since => call[c].got.late

(* A feed lists no video twice and none that the choices it was built from  *)
(* exclude: those of the second reading, and for the user's own channels    *)
(* those of the first (explore.ts:968, 986, 1571).                          *)
FeedObeysChoices ==
  \A c \in Askers : call[c].pc = "publish" =>
    LET b == call[c]  list == b.got.list
        Excluded(v, db) == v \in db.dismissed \/ ChannelOf[v] \in db.muted
    IN  /\ IsInjective(list) /\ Len(list) <= TopCount
        /\ \A v \in ToSet(list) :
             /\ ~Excluded(v, b.chosen)
             /\ v \in ToSet(Recency) => ~Excluded(v, b.first)
             /\ v \notin ToSet(Recency) => v \notin b.chosen.disliked
             /\ b.first.seen[v] > 90 =>
                  ChannelOf[v] \in b.chosen.boosted \cap b.first.boosted

(* The head of a feed has a third video of a channel only where no other    *)
(* channel was left to take its place (explore.ts:1789).                    *)
HeadIsMixed ==
  \A c \in Askers : call[c].pc = "publish" =>
    LET list == call[c].got.list
        head == Prefix(list, HeadCount)
    IN  \A ch \in Channels : CountOf(ch, head) > HeadCap =>
          \A i \in (HeadCount + 1)..Len(list) :
            CountOf(ChannelOf[list[i]], head) >= HeadCap

(* Nobody who looks at the feed is forgotten, it is built once, shows the   *)
(* user's own choices and obeys them.                                       *)
ExploreSafe ==
  /\ NobodyForgotten /\ OneBuild /\ OwnChoicesShow
  /\ FeedObeysChoices /\ HeadIsMixed
=============================================================================
