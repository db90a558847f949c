--------------------------- MODULE ExploreRollups ---------------------------
(* The library's counters for recommendations (db.ts, db-pg.ts): how many   *)
(* users engaged with a video, rated it, subscribe to a channel or saw it,   *)
(* what a user did with a channel, and which videos one user watched         *)
(* together.  Triggers keep them beside the rows they count.  SQLite and     *)
(* PostgreSQL have triggers of their own, so both libraries are run side by  *)
(* side on the same requests.                                                *)
EXTENDS Integers, Sequences, FiniteSets, SequencesExt, FiniteSetsExt

CONSTANTS Users, Videos, Channels,
          ChannelsOf,    \* channels a page may name for a video, [video -> set]
          Work,          \* kinds of requests: "watch", "opinion", "event"
          MaxClock,      \* writes and days that pass
          RefreshAge,    \* a row older than this refreshes its edges
          MaxAge,        \* age of edges and events that are kept
          PerUser        \* recent videos of a user that edges are made to

VARIABLES db,         \* [backend -> tables]
          now,
          resetting,  \* [user -> the statement a reset is about to run]
          moved,      \* channels of a video shown under two channels
          torn,       \* users who acted while a reset was under way
          pruned,     \* edges have been removed for their age
          parted      \* a request that only SQLite accepts has been made

vars == <<db, now, resetting, moved, torn, pruned, parted>>

Backends == {"sqlite", "postgres"}
Types == {"impression", "click", "bounce", "return"}

NoVideo == [engaged |-> 0, up |-> 0, down |-> 0]
NoChannel == [subscribers |-> 0, impressions |-> 0]
NoBehavior == [impressions |-> 0, clicks |-> 0, bounces |-> 0, returns |-> 0,
               lastReturn |-> 0]

Monus(a, b) == IF a > b THEN a - b ELSE 0
One(cond) == IF cond THEN 1 ELSE 0
Newer(a, b) == IF a > b THEN a ELSE b
Older(a, b) == IF a < b THEN a ELSE b
Without(f, keys) == [k \in DOMAIN f \ keys |-> f[k]]
Put(f, k, x) == [j \in DOMAIN f \cup {k} |-> IF j = k THEN x ELSE f[j]]

(* INSERT ... ON CONFLICT DO UPDATE, and UPDATE ... WHERE.                  *)
Upsert(f, k, zero, Change(_)) ==
  Put(f, k, Change(IF k \in DOMAIN f THEN f[k] ELSE zero))
Update(f, k, Change(_)) == IF k \in DOMAIN f THEN Put(f, k, Change(f[k])) ELSE f

-----------------------------------------------------------------------------
(* Watched rows.  A row is good when its video was finished or more than    *)
(* 30% of it was watched.                                                   *)
Row(t, u, v) == t.watch[<<u, v>>]
Good(t, u, v) == <<u, v>> \in DOMAIN t.watch /\ Row(t, u, v).good

(* The user's most recent good rows, other than v's.                        *)
Recent(t, u, v, time) ==
  LET all == {w \in Videos \ {v} :
                Good(t, u, w) /\ Row(t, u, w).at > time - MaxAge}
  IN {w \in all : Cardinality({x \in all : Row(t, u, x).at > Row(t, u, w).at})
                    < PerUser}

Pairs(t, u, v, time) ==
  {<<u, v, w>> : w \in Recent(t, u, v, time)} \cup
  {<<u, w, v>> : w \in Recent(t, u, v, time)}
Born(t, pair) == Older(Row(t, pair[1], pair[2]).at, Row(t, pair[1], pair[3]).at)

InsertOrIgnore(t, pairs) ==
  [t EXCEPT !.edges = [e \in DOMAIN @ \cup pairs |->
                         IF e \in DOMAIN @ THEN @[e] ELSE Born(t, e)]]
InsertOrRefresh(t, pairs) ==
  [t EXCEPT !.edges = [e \in DOMAIN @ \cup pairs |->
     IF e \notin pairs THEN @[e] ELSE
     IF e \in DOMAIN @ THEN Newer(@[e], Born(t, e)) ELSE Born(t, e)]]

Engage(t, v) ==
  [t EXCEPT !.video = Upsert(@, v, NoVideo,
                             LAMBDA x : [x EXCEPT !.engaged = @ + 1])]
Disengage(t, u, v) ==
  [t EXCEPT !.video = Update(@, v,
                             LAMBDA x : [x EXCEPT !.engaged = Monus(@, 1)]),
            !.edges = Without(@, {e \in DOMAIN @ :
                                    e[1] = u /\ v \in {e[2], e[3]}})]

(* SQLite: five triggers.                                                   *)
TrgExploreWatchInsert(t, u, v, time) ==
  IF Good(t, u, v) THEN InsertOrIgnore(Engage(t, v), Pairs(t, u, v, time)) ELSE t

TrgExploreWatchQualified(old, t, u, v, time) ==
  IF ~old.good /\ Good(t, u, v)
  THEN InsertOrIgnore(Engage(t, v), Pairs(t, u, v, time)) ELSE t

(* Fault: the trigger forgets that the row may have been good before.       *)
TrgExploreWatchUnqualified_Fault(old, t, u, v) ==
  IF ~Good(t, u, v) THEN Disengage(t, u, v) ELSE t

TrgExploreWatchUnqualified(old, t, u, v) ==
  IF old.good /\ ~Good(t, u, v) THEN Disengage(t, u, v) ELSE t

TrgExploreWatchRefresh(old, t, u, v, time) ==
  IF old.good /\ Good(t, u, v) /\ old.at < time - RefreshAge
  THEN InsertOrRefresh(t, Pairs(t, u, v, time)) ELSE t

TrgExploreWatchDelete(old, t, u, v) ==
  IF old.good THEN Disengage(t, u, v) ELSE t

(* PostgreSQL: one function for all of them.                                *)
(* Fault: a row that is deleted keeps its edges and its count.              *)
MaintainExploreWatchRollups_Fault(op, old, t, u, v, time) ==
  LET was == op = "UPDATE" /\ old.good IN
  LET is == op # "DELETE" /\ Good(t, u, v) IN
  LET a == IF was /\ ~is THEN Disengage(t, u, v) ELSE t IN
  LET b == IF is /\ ~was THEN Engage(a, v) ELSE a IN
  IF is /\ ~was THEN InsertOrRefresh(b, Pairs(t, u, v, time)) ELSE b

MaintainExploreWatchRollups(op, old, t, u, v, time) ==
  LET was == op # "INSERT" /\ old.good IN
  LET is == op # "DELETE" /\ Good(t, u, v) IN
  LET a == IF was /\ ~is THEN Disengage(t, u, v) ELSE t IN
  LET b == IF is /\ ~was THEN Engage(a, v) ELSE a IN
  IF is /\ (~was \/ (op = "UPDATE" /\ old.at < time - RefreshAge))
  THEN InsertOrRefresh(b, Pairs(t, u, v, time)) ELSE b

SetWatchTime(back, t, u, v, good, time) ==
  LET k == <<u, v>> IN
  LET new == k \notin DOMAIN t.watch IN
  LET old == IF new THEN [good |-> FALSE, at |-> 0] ELSE t.watch[k] IN
  LET s == [t EXCEPT !.watch = Put(@, k, [good |-> good, at |-> time])] IN
  IF back = "postgres"
  THEN MaintainExploreWatchRollups(IF new THEN "INSERT" ELSE "UPDATE",
                                   old, s, u, v, time)
  ELSE IF new THEN TrgExploreWatchInsert(s, u, v, time)
  ELSE TrgExploreWatchRefresh(old,
         TrgExploreWatchUnqualified(old,
           TrgExploreWatchQualified(old, s, u, v, time), u, v), u, v, time)

DeleteWatched(back, t, u, time) ==
  LET keys == {k \in DOMAIN t.watch : k[1] = u} IN
  FoldSet(LAMBDA k, s :
            IF back = "postgres"
            THEN MaintainExploreWatchRollups("DELETE", t.watch[k], s, u, k[2],
                                             time)
            ELSE TrgExploreWatchDelete(t.watch[k], s, u, k[2]),
          [t EXCEPT !.watch = Without(@, keys)], keys)

-----------------------------------------------------------------------------
(* Ratings and subscriptions.                                               *)
Up(r) == One(r = 1)
Down(r) == One(r = -1)

TrgExploreRatingInsert(t, v, r) ==
  [t EXCEPT !.video = Upsert(@, v, NoVideo, LAMBDA x :
     [x EXCEPT !.up = @ + Up(r), !.down = @ + Down(r)])]

(* Fault: a changed opinion is added without taking back the old one.       *)
TrgExploreRatingUpdate_Fault(t, v, old, new) ==
  [t EXCEPT !.video = Update(@, v, LAMBDA x :
     [x EXCEPT !.up = @ + Up(new), !.down = @ + Down(new)])]

TrgExploreRatingUpdate(t, v, old, new) ==
  [t EXCEPT !.video = Update(@, v, LAMBDA x :
     [x EXCEPT !.up = Monus(@ + Up(new), Up(old)),
               !.down = Monus(@ + Down(new), Down(old))])]

TrgExploreRatingDelete(t, v, old) ==
  [t EXCEPT !.video = Update(@, v, LAMBDA x :
     [x EXCEPT !.up = Monus(@, Up(old)), !.down = Monus(@, Down(old))])]

MaintainExploreRatingRollups(op, t, v, old, new) ==
  [t EXCEPT !.video =
     CASE op = "INSERT" -> Upsert(@, v, NoVideo, LAMBDA x :
            [x EXCEPT !.up = @ + Up(new), !.down = @ + Down(new)])
       [] op = "UPDATE" -> Update(@, v, LAMBDA x :
            [x EXCEPT !.up = Monus(@ + Up(new), Up(old)),
                      !.down = Monus(@ + Down(new), Down(old))])
       [] OTHER -> Update(@, v, LAMBDA x :
            [x EXCEPT !.up = Monus(@, Up(old)), !.down = Monus(@, Down(old))])]

RateVideo(back, t, u, v, r) ==
  LET k == <<u, v>> IN
  LET new == k \notin DOMAIN t.rating IN
  LET s == [t EXCEPT !.rating = Put(@, k, r)] IN
  IF back = "postgres"
  THEN MaintainExploreRatingRollups(IF new THEN "INSERT" ELSE "UPDATE", s, v,
                                    IF new THEN 0 ELSE t.rating[k], r)
  ELSE IF new THEN TrgExploreRatingInsert(s, v, r)
       ELSE TrgExploreRatingUpdate(s, v, t.rating[k], r)

DeleteRatings(back, t, keys) ==
  FoldSet(LAMBDA k, s :
            IF back = "postgres"
            THEN MaintainExploreRatingRollups("DELETE", s, k[2], t.rating[k], 0)
            ELSE TrgExploreRatingDelete(s, k[2], t.rating[k]),
          [t EXCEPT !.rating = Without(@, keys)], keys)

TrgExploreSubscriptionInsert(t, c) ==
  [t EXCEPT !.channel = Upsert(@, c, NoChannel, LAMBDA x :
     [x EXCEPT !.subscribers = @ + 1])]
TrgExploreSubscriptionDelete(t, c) ==
  [t EXCEPT !.channel = Update(@, c, LAMBDA x :
     [x EXCEPT !.subscribers = Monus(@, 1)])]

(* A row that exists is updated, which fires no trigger.                    *)
InsertSubscriptions(t, u, list) ==
  FoldSeq(LAMBDA c, s :
    IF <<u, c>> \in s.subs THEN s
    ELSE TrgExploreSubscriptionInsert([s EXCEPT !.subs = @ \cup {<<u, c>>}], c),
    t, list)
DeleteSubscriptions(t, u, gone) ==
  FoldSet(LAMBDA c, s : TrgExploreSubscriptionDelete(s, c),
          [t EXCEPT !.subs = @ \ {<<u, c>> : c \in gone}],
          {c \in gone : <<u, c>> \in t.subs})

Distinct(list) == Cardinality(ToSet(list)) = Len(list)

(* SQLite goes through the list in a transaction; one statement inserts it  *)
(* in PostgreSQL, and fails when a channel is in it twice.                  *)
UpsertSubscriptionsSqlite(t, u, list, fullSync) ==
  LET s == InsertSubscriptions(t, u, list) IN
  IF fullSync /\ list # <<>>
  THEN DeleteSubscriptions(s, u, Channels \ ToSet(list)) ELSE s
UpsertSubscriptionsPostgres(t, u, list, fullSync) ==
  IF ~Distinct(list) THEN t ELSE
  LET s == IF list = <<>> THEN t ELSE InsertSubscriptions(t, u, list) IN
  IF fullSync /\ list # <<>>
  THEN DeleteSubscriptions(s, u, {c \in Channels : c \notin ToSet(list)}) ELSE s

-----------------------------------------------------------------------------
(* What users did with the videos of the Explore page.                      *)
Count(e, type) == One(e = type)

(* Impressions are added by the statements below, not by the trigger.       *)
TrgExploreUserEventInsert(t, u, k, row) ==
  [t EXCEPT !.behavior = Upsert(@, <<u, row.ch>>, NoBehavior, LAMBDA x :
     [x EXCEPT !.clicks = @ + Count(k, "click"),
               !.bounces = @ + Count(k, "bounce"),
               !.returns = IF k = "return" THEN @ + row.n ELSE @,
               !.lastReturn = IF k = "return" THEN row.at ELSE @])]

TrgExploreUserEventUpdate(t, u, k, old, row) ==
  IF k # "return" THEN t ELSE
  [t EXCEPT !.behavior = Update(@, <<u, row.ch>>, LAMBDA x :
     [x EXCEPT !.returns = Monus(@ + row.n, old.n), !.lastReturn = row.at])]

TrgExploreImpressionDelete(t, k, old) ==
  IF k # "impression" THEN t ELSE
  [t EXCEPT !.channel = Update(@, old.ch, LAMBDA x :
     [x EXCEPT !.impressions = Monus(@, old.n)])]

(* Fault: a click that is removed for its age stays counted.                *)
TrgExploreUserEventDelete_Fault(t, u, k, old) ==
  [t EXCEPT !.behavior = Update(@, <<u, old.ch>>, LAMBDA x :
     [x EXCEPT !.impressions = IF k = "impression" THEN Monus(@, old.n) ELSE @,
               !.bounces = Monus(@, Count(k, "bounce")),
               !.returns = IF k = "return" THEN Monus(@, old.n) ELSE @])]

TrgExploreUserEventDelete(t, u, k, old) ==
  [t EXCEPT !.behavior = Update(@, <<u, old.ch>>, LAMBDA x :
     [x EXCEPT !.impressions = IF k = "impression" THEN Monus(@, old.n) ELSE @,
               !.clicks = Monus(@, Count(k, "click")),
               !.bounces = Monus(@, Count(k, "bounce")),
               !.returns = IF k = "return" THEN Monus(@, old.n) ELSE @])]

MaintainExploreEventRollups(op, t, u, k, old, row) ==
  CASE op = "DELETE" ->
         [t EXCEPT !.channel = IF k # "impression" THEN @ ELSE
                     Update(@, old.ch, LAMBDA x :
                       [x EXCEPT !.impressions = Monus(@, old.n)]),
                   !.behavior = Update(@, <<u, old.ch>>, LAMBDA x :
                     [impressions |->
                        Monus(x.impressions, old.n * Count(k, "impression")),
                      clicks |-> Monus(x.clicks, Count(k, "click")),
                      bounces |-> Monus(x.bounces, Count(k, "bounce")),
                      returns |-> Monus(x.returns, old.n * Count(k, "return")),
                      lastReturn |-> x.lastReturn])]
    [] k = "impression" -> t
    [] op = "INSERT" -> TrgExploreUserEventInsert(t, u, k, row)
    [] k = "return" ->
         [t EXCEPT !.behavior = Update(@, <<u, row.ch>>, LAMBDA x :
            [x EXCEPT !.returns = Monus(@ + row.n, old.n),
                      !.lastReturn = row.at])]
    [] OTHER -> t

(* The row's channel stays the one it was inserted with.                    *)
LogEvent(back, t, u, v, k, ch, time) ==
  LET key == <<u, v, k>> IN
  LET new == key \notin DOMAIN t.events IN
  LET row == IF new THEN [ch |-> ch, n |-> 1, at |-> time]
             ELSE [t.events[key] EXCEPT !.at = time,
                     !.n = IF k \in {"impression", "return"} THEN @ + 1
                           ELSE @] IN
  LET s == [t EXCEPT !.events = Put(@, key, row)] IN
  LET old == IF new THEN row ELSE t.events[key] IN
  IF back = "postgres"
  THEN MaintainExploreEventRollups(IF new THEN "INSERT" ELSE "UPDATE",
                                   s, u, k, old, row)
  ELSE IF ~new THEN TrgExploreUserEventUpdate(s, u, k, old, row)
  ELSE IF k # "impression" THEN TrgExploreUserEventInsert(s, u, k, row) ELSE s

AddImpressions(t, u, ch, n) ==
  [t EXCEPT !.channel = Upsert(@, ch, NoChannel, LAMBDA x :
              [x EXCEPT !.impressions = @ + n]),
            !.behavior = Upsert(@, <<u, ch>>, NoBehavior, LAMBDA x :
              [x EXCEPT !.impressions = @ + n])]
Deltas(t, u, list) ==
  FoldSet(LAMBDA ch, s : AddImpressions(s, u, ch,
            Cardinality({i \in DOMAIN list : list[i][2] = ch})),
          t, {list[i][2] : i \in DOMAIN list})
Shows(back, t, u, list, time) ==
  FoldSeq(LAMBDA i, s : LogEvent(back, s, u, i[1], "impression", i[2], time),
          t, list)

LogExploreImpressionsSqlite(t, u, list, time) ==
  Deltas(Shows("sqlite", t, u, list, time), u, list)

LogExploreImpressionsPostgres(t, u, list, time) ==
  IF ~Distinct([i \in DOMAIN list |-> list[i][1]]) THEN t
  ELSE Deltas(Shows("postgres", t, u, list, time), u, list)

DeleteEvents(back, t, keys) ==
  FoldSet(LAMBDA key, s :
            LET old == t.events[key] IN
            IF back = "postgres"
            THEN MaintainExploreEventRollups("DELETE", s, key[1], key[3],
                                             old, old)
            ELSE TrgExploreUserEventDelete(
                   TrgExploreImpressionDelete(s, key[3], old),
                   key[1], key[3], old),
          [t EXCEPT !.events = Without(@, keys)], keys)

-----------------------------------------------------------------------------
(* The counters computed from the rows.  A migration fills the tables with  *)
(* them once; afterwards the triggers have to keep them as they would be.   *)
UsersOf(rows, v) == {u \in Users : <<u, v>> \in rows}
GoodRows(t) == {k \in DOMAIN t.watch : t.watch[k].good}
SumOf(t, keys) == MapThenSumSet(LAMBDA key : t.events[key].n, keys)
EventsOf(t, type) == {key \in DOMAIN t.events : key[3] = type}

RebuildVideo(t) ==
  LET Rated(v, r) == {k \in DOMAIN t.rating : k[2] = v /\ t.rating[k] = r} IN
  [v \in {k[2] : k \in DOMAIN t.watch \cup DOMAIN t.rating} |->
     [engaged |-> Cardinality(UsersOf(GoodRows(t), v)),
      up |-> Cardinality(Rated(v, 1)), down |-> Cardinality(Rated(v, -1))]]
RebuildChannel(t) ==
  LET shown == EventsOf(t, "impression") IN
  [c \in {k[2] : k \in t.subs} \cup {t.events[k].ch : k \in shown} |->
     [subscribers |-> Cardinality(UsersOf(t.subs, c)),
      impressions |-> SumOf(t, {k \in shown : t.events[k].ch = c})]]
RebuildBehavior(t) ==
  LET By(uc, type) == {k \in EventsOf(t, type) :
                         k[1] = uc[1] /\ t.events[k].ch = uc[2]} IN
  [uc \in {<<k[1], t.events[k].ch>> : k \in DOMAIN t.events} |->
     [impressions |-> SumOf(t, By(uc, "impression")),
      clicks |-> Cardinality(By(uc, "click")),
      bounces |-> Cardinality(By(uc, "bounce")),
      returns |-> SumOf(t, By(uc, "return")),
      lastReturn |-> Max({0} \cup {t.events[k].at : k \in By(uc, "return")})]]

(* Every pair of the most recent good rows of a user.                       *)
RebuildEdges(t, time) ==
  LET Live(u) == {v \in Videos :
        Good(t, u, v) /\ Row(t, u, v).at > time - MaxAge}
      After(u, v) == {w \in Live(u) : Row(t, u, w).at > Row(t, u, v).at}
      Ranked(u) == {v \in Live(u) : Cardinality(After(u, v)) < PerUser}
      pairs == {e \in Users \X Videos \X Videos :
                  e[2] # e[3] /\ {e[2], e[3]} \subseteq Ranked(e[1])}
  IN [e \in pairs |-> Born(t, e)]

RebuildExploreSignalRollups(t, time) ==
  [t EXCEPT !.video = RebuildVideo(t), !.channel = RebuildChannel(t),
            !.behavior = RebuildBehavior(t), !.edges = RebuildEdges(t, time)]

(* What ranking reads: the counters less the reader's own part.             *)
Of(f, k, zero) == IF k \in DOMAIN f THEN f[k] ELSE zero

SqliteCandidateSignals(t, me) ==
  [popularity |-> [v \in Videos |->
     Monus(Of(t.video, v, NoVideo).engaged, One(Good(t, me, v)))],
   up |-> [v \in Videos |->
     Monus(Of(t.video, v, NoVideo).up, Up(Of(t.rating, <<me, v>>, 0)))],
   down |-> [v \in Videos |->
     Monus(Of(t.video, v, NoVideo).down, Down(Of(t.rating, <<me, v>>, 0)))],
   subscribers |-> [c \in Channels |->
     Monus(Of(t.channel, c, NoChannel).subscribers, One(<<me, c>> \in t.subs))],
   impressions |-> [c \in Channels |-> Of(t.channel, c, NoChannel).impressions]]

PostgresCandidateSignals(t, me) ==
  [popularity |-> [v \in Videos |->
     LET own == <<me, v>> \in DOMAIN t.watch /\ t.watch[<<me, v>>].good
     IN Monus(Of(t.video, v, NoVideo).engaged, IF own THEN 1 ELSE 0)],
   up |-> [v \in Videos |-> Monus(Of(t.video, v, NoVideo).up,
     IF <<me, v>> \in DOMAIN t.rating THEN Up(t.rating[<<me, v>>]) ELSE 0)],
   down |-> [v \in Videos |-> Monus(Of(t.video, v, NoVideo).down,
     IF <<me, v>> \in DOMAIN t.rating THEN Down(t.rating[<<me, v>>]) ELSE 0)],
   subscribers |-> [c \in Channels |->
     Monus(Of(t.channel, c, NoChannel).subscribers, One(<<me, c>> \in t.subs))],
   impressions |-> [c \in Channels |-> Of(t.channel, c, NoChannel).impressions]]

(* The same from the rows, as the queries that use no counters find it.     *)
VideoPopularity(t, me, v) == Cardinality(UsersOf(GoodRows(t), v) \ {me})
CommunityRatings(t, me, v, r) ==
  Cardinality({u \in Users \ {me} : Of(t.rating, <<u, v>>, 0) = r})
ChannelSubscriberCounts(t, me, c) == Cardinality(UsersOf(t.subs, c) \ {me})
ChannelImpressionCounts(t, c) ==
  SumOf(t, {k \in EventsOf(t, "impression") : t.events[k].ch = c})

(* Videos other users watched together with one of these.                   *)
CoWatched(t, seeds, me, time) ==
  LET live == {e \in DOMAIN t.edges : /\ e[2] \in seeds /\ e[1] # me
                                      /\ t.edges[e] > time - MaxAge} IN
  [v \in {e[3] : e \in live} \ seeds |->
     Cardinality({e[1] : e \in {x \in live : x[3] = v}})]

-----------------------------------------------------------------------------
Tables == [watch |-> <<>>, rating |-> <<>>, subs |-> {}, events |-> <<>>,
           video |-> <<>>, channel |-> <<>>, behavior |-> <<>>, edges |-> <<>>]

Init ==
  /\ db = [b \in Backends |-> Tables]
  /\ now = MaxAge /\ resetting = [u \in Users |-> "no"]
  /\ moved = {} /\ torn = {} /\ pruned = FALSE /\ parted = FALSE

Later == now < MaxAge + MaxClock /\ now' = now + 1
Both(Run(_, _)) == db' = [b \in Backends |-> Run(b, db[b])]

WatchTimeIsWritten == \E u \in Users, v \in Videos, good \in BOOLEAN :
  /\ "watch" \in Work /\ Later
  /\ Both(LAMBDA b, t : SetWatchTime(b, t, u, v, good, now'))
  /\ UNCHANGED <<resetting, moved, torn, pruned, parted>>

DaysPass == "watch" \in Work /\ Later /\
            UNCHANGED <<db, resetting, moved, torn, pruned, parted>>

UserRates == \E u \in Users, v \in Videos, r \in {1, -1} :
  /\ "opinion" \in Work /\ Later
  /\ Both(LAMBDA b, t : RateVideo(b, t, u, v, r))
  /\ UNCHANGED <<resetting, moved, torn, pruned, parted>>

UserUnrates == \E u \in Users, v \in Videos :
  /\ "opinion" \in Work /\ Later
  /\ Both(LAMBDA b, t : DeleteRatings(b, t, {<<u, v>>} \cap DOMAIN t.rating))
  /\ UNCHANGED <<resetting, moved, torn, pruned, parted>>

Lists == {<<>>} \cup {<<c>> : c \in Channels} \cup (Channels \X Channels)
SubscriptionsAreImported == \E u \in Users, list \in Lists, sync \in BOOLEAN :
  /\ "opinion" \in Work /\ Later
  /\ db' = [sqlite |-> UpsertSubscriptionsSqlite(db["sqlite"], u, list, sync),
            postgres |-> UpsertSubscriptionsPostgres(db["postgres"], u, list,
                                                     sync)]
  /\ parted' = (parted \/ ~Distinct(list))
  /\ UNCHANGED <<resetting, moved, torn, pruned>>

UserUnsubscribes == \E u \in Users, c \in Channels :
  /\ "opinion" \in Work /\ Later
  /\ Both(LAMBDA b, t : DeleteSubscriptions(t, u, {c}))
  /\ UNCHANGED <<resetting, moved, torn, pruned, parted>>

(* Between two statements of a reset the user acts in another window.       *)
Tear(u) ==
  torn \cup (IF resetting[u] \in {"ratings", "rollups"} THEN {u} ELSE {})

UserActs == \E u \in Users, v \in Videos, k \in Types \ {"impression"} :
  \E ch \in ChannelsOf[v] :
    /\ "event" \in Work /\ Later
    /\ Both(LAMBDA b, t : LogEvent(b, t, u, v, k, ch, now'))
    /\ torn' = Tear(u)
    /\ UNCHANGED <<resetting, moved, pruned, parted>>

Shown == {<<v, c>> \in Videos \X Channels : c \in ChannelsOf[v]}
Pages == {<<i>> : i \in Shown} \cup (Shown \X Shown)
ChannelMoves(t, u, i) ==
  LET key == <<u, i[1], "impression">> IN
  IF key \in DOMAIN t.events /\ t.events[key].ch # i[2]
  THEN {t.events[key].ch, i[2]} ELSE {}
VideosAreShown == \E u \in Users, list \in Pages :
  /\ "event" \in Work /\ Later
  /\ db' = [
       sqlite |-> LogExploreImpressionsSqlite(db["sqlite"], u, list, now'),
       postgres |-> LogExploreImpressionsPostgres(db["postgres"], u, list, now')]
  /\ LET first == list[1] IN
     moved' = moved
       \cup UNION {ChannelMoves(db[b], u, i) : b \in Backends, i \in ToSet(list)}
       \cup (IF Len(list) = 2 /\ list[2][1] = first[1] /\ list[2] # first
             THEN {first[2], list[2][2]} ELSE {})
  /\ parted' = (parted \/ ~Distinct([i \in DOMAIN list |-> list[i][1]]))
  /\ torn' = Tear(u)
  /\ UNCHANGED <<resetting, pruned>>

(* Maintenance removes one batch of what is too old, the oldest first.      *)
PruneExploreEvents ==
  /\ "event" \in Work
  /\ LET Stale(t) == {k \in DOMAIN t.events : t.events[k].at < now - MaxAge} IN
     /\ Stale(db["sqlite"]) # {}
     /\ Both(LAMBDA b, t : DeleteEvents(b, t, {k \in Stale(t) :
               \A j \in Stale(t) : t.events[k].at <= t.events[j].at}))
  /\ UNCHANGED <<now, resetting, moved, torn, pruned, parted>>

PruneExploreCowatchEdges ==
  /\ "watch" \in Work
  /\ LET Stale(t) == {e \in DOMAIN t.edges : t.edges[e] < now - MaxAge} IN
     /\ Stale(db["sqlite"]) # {}
     /\ Both(LAMBDA b, t : [t EXCEPT !.edges = Without(@, {e \in Stale(t) :
               \A x \in Stale(t) : @[e] <= @[x]})])
  /\ pruned' = TRUE
  /\ UNCHANGED <<now, resetting, moved, torn, parted>>

(* A reset is a row of statements, each on its own.                         *)
ResetBegins == \E u \in Users :
  /\ resetting[u] = "no" /\ Later
  /\ resetting' = [resetting EXCEPT ![u] = "watch"]
  /\ UNCHANGED <<db, moved, torn, pruned, parted>>
ResetGoesOn == \E u \in Users :
  LET OfUser(keys) == {k \in keys : k[1] = u} IN
  /\ resetting[u] # "no"
  /\ resetting' = [resetting EXCEPT ![u] =
       CASE @ = "watch" -> "events" [] @ = "events" -> "ratings"
         [] @ = "ratings" -> "rollups" [] OTHER -> "no"]
  /\ Both(LAMBDA b, t :
       CASE resetting[u] = "watch" -> DeleteWatched(b, t, u, now)
         [] resetting[u] = "events" ->
              DeleteEvents(b, t, OfUser(DOMAIN t.events))
         [] resetting[u] = "ratings" ->
              DeleteRatings(b, t, OfUser(DOMAIN t.rating))
         [] OTHER -> [t EXCEPT !.behavior = Without(@, OfUser(DOMAIN @))])
  /\ UNCHANGED <<now, moved, torn, pruned, parted>>

Next ==
  \/ WatchTimeIsWritten \/ DaysPass \/ UserRates \/ UserUnrates
  \/ SubscriptionsAreImported \/ UserUnsubscribes \/ UserActs \/ VideosAreShown
  \/ PruneExploreEvents \/ PruneExploreCowatchEdges
  \/ ResetBegins \/ ResetGoesOn

Spec == Init /\ [][Next]_vars

-----------------------------------------------------------------------------
(* What ranking is shown of a video equals what the rows say, whoever       *)
(* watched, rated, changed an opinion, unsubscribed or was reset.  A        *)
(* channel's impressions do not when one video was shown under two channels *)
(* (the event keeps the first channel, db.ts 972, and the counter is that   *)
(* of the second).                                                          *)
SignalsAreExact ==
  \A b \in Backends, me \in Users :
    LET t == db[b]
        s == IF b = "sqlite" THEN SqliteCandidateSignals(t, me)
             ELSE PostgresCandidateSignals(t, me) IN
    /\ \A v \in Videos : /\ s.popularity[v] = VideoPopularity(t, me, v)
                         /\ s.up[v] = CommunityRatings(t, me, v, 1)
                         /\ s.down[v] = CommunityRatings(t, me, v, -1)
    /\ \A c \in Channels : s.subscribers[c] = ChannelSubscriberCounts(t, me, c)
    /\ \A c \in Channels \ moved :
         s.impressions[c] = ChannelImpressionCounts(t, c)

(* What a user did with a channel is what a rebuild would find, unless the  *)
(* user acted between the statements of a reset: the last one removes the   *)
(* counter of an event that stays (db.ts 2023).                             *)
BehaviorIsExact ==
  \A b \in Backends : LET t == db[b] IN
    \A uc \in (Users \ torn) \X (Channels \ moved) :
      LET kept == Of(t.behavior, uc, NoBehavior)
          true == Of(RebuildBehavior(t), uc, NoBehavior)
      IN [kept EXCEPT !.lastReturn = 0] = [true EXCEPT !.lastReturn = 0]

(* Videos are called watched together only while one user has both of them  *)
(* as good rows, and no edge is younger than the older of the two.  A       *)
(* rebuild would find none that is missing, unless some were removed.       *)
EdgesAreTrue ==
  \A b \in Backends : LET t == db[b] IN
    /\ \A e \in DOMAIN t.edges :
         Good(t, e[1], e[2]) /\ Good(t, e[1], e[3]) /\ t.edges[e] <= Born(t, e)
    /\ pruned \/ DOMAIN RebuildEdges(t, now) \subseteq DOMAIN t.edges
    /\ \A me \in Users, v \in Videos :
         LET score == CoWatched(t, {v}, me, now) IN
         \A w \in DOMAIN score :
           score[w] <= Cardinality((UsersOf(GoodRows(t), v)
                                      \cap UsersOf(GoodRows(t), w)) \ {me})

(* Both libraries answer alike, although their triggers are written         *)
(* differently.  They part when a request names a channel or a video twice: *)
(* PostgreSQL refuses to update a row twice in one statement.               *)
LibrariesAgree == parted \/ db["sqlite"] = db["postgres"]

TypeOK ==
  /\ resetting \in [Users -> {"no", "watch", "events", "ratings", "rollups"}]
  /\ moved \subseteq Channels /\ torn \subseteq Users
  /\ \A b \in Backends : /\ DOMAIN db[b].watch \subseteq Users \X Videos
                         /\ db[b].subs \subseteq Users \X Channels

RollupsSafe == /\ TypeOK /\ SignalsAreExact /\ BehaviorIsExact
               /\ EdgesAreTrue /\ LibrariesAgree
=============================================================================
