----------------------------- MODULE TodayPages -----------------------------
(* The pages of one user's Today feed (youtube/today.ts).  A page is kept   *)
(* under the version that its process knows; whoever changes what pages     *)
(* show replaces the version, so that no page has to be searched for.  Data *)
(* is a number that grows with every change of the library.                 *)
EXTENDS Integers, FiniteSets

CONSTANTS Web, Calls,
          MaxData, MaxVersion, MaxClock   \* bound: changes, versions, time

VARIABLES data,        \* what the library would show
          born,        \* [version -> the data when it was published]
          shared,      \* Redis: version, pages, mark of a recent refresh
          own,         \* [process -> its copies of these]
          refresh,     \* [process -> its refresh]
          late,        \* [process -> its refreshes beyond their budget]
          holder,      \* who holds the refresh lock
          edit,        \* [process -> a change of the subscriptions]
          call,        \* [call -> a request of the first page]
          publish,     \* [call -> the page it publishes besides]
          now,
          floor,       \* [process -> the data at its last new version]
          raced        \* versions that got a page older than they are

vars == <<data, born, shared, own, refresh, late, holder, edit, call, publish,
          now, floor, raced>>

Versions == 0 .. MaxVersion
Nobody == "nobody"
NoPage == [data |-> -1, exp |-> 0]
Bare == [version |-> 0, pages |-> [v \in Versions |-> NoPage], mark |-> 0]
PageTtl == 1

Init ==
  /\ data = 0 /\ born = [v \in {0} |-> 0] /\ shared = Bare
  /\ own = [p \in Web |-> Bare]
  /\ refresh = [p \in Web |-> "no"] /\ late = [p \in Web |-> 0]
  /\ holder = Nobody
  /\ edit = [p \in Web |-> "no"]
  /\ call = [c \in Calls |-> [pc |-> "no", home |-> Nobody, key |-> 0,
                           got |-> 0, floor |-> 0]]
  /\ publish = [c \in Calls |-> [pc |-> "no", got |-> 0, key |-> 0]]
  /\ now = 1 /\ floor = [p \in Web |-> 0] /\ raced = {}

(* A version is a fresh token; its own copy serves a process for a day.     *)
GetTodayCacheVersion(p) ==
  IF own[p].version # 0 THEN own[p].version ELSE shared.version

Newest == CHOOSE v \in DOMAIN born : \A w \in DOMAIN born : w <= v
BumpTodayCacheVersion(p) ==
  LET v == Newest + 1 IN
  /\ born' = [w \in DOMAIN born \cup {v} |-> IF w = v THEN data' ELSE born[w]]
  /\ floor' = [floor EXCEPT ![p] = data']

BumpedIn(entry) == [entry EXCEPT !.version = Newest + 1]

Fresh(page) == now < page.exp
GetPage(p, v) == IF Fresh(own[p].pages[v]) THEN own[p].pages[v]
                 ELSE IF Fresh(shared.pages[v]) THEN shared.pages[v]
                 ELSE own[p].pages[v]

SetPage(p, v, got) ==
  LET page == [data |-> got, exp |-> now + PageTtl] IN
  /\ own' = [own EXCEPT ![p].pages[v] = page]
  /\ shared' = [shared EXCEPT !.pages[v] = page]

-----------------------------------------------------------------------------
(* refreshTodayFeedIfDue: not while a recent refresh is marked, not twice   *)
(* in a process, and not while another process holds the lock.              *)
Marked(p) == now < own[p].mark \/ now < shared.mark

RefreshTodayFeedIfDue(p) ==
  IF Marked(p) \/ refresh[p] # "no" \/ holder # Nobody
  THEN UNCHANGED <<refresh, holder>>
  ELSE /\ refresh' = [refresh EXCEPT ![p] = "asking"] /\ holder' = p

(* One read finds the feeds that are stale; there may be none.              *)
FindsStaleFeeds == \E p \in Web :
  /\ refresh[p] = "asking" /\ refresh' = [refresh EXCEPT ![p] = "running"]
  /\ UNCHANGED <<data, born, shared, own, late, holder, edit, call, publish,
                 now, floor, raced>>

FeedArrives == \E p \in Web :
  /\ refresh[p] = "running" \/ late[p] > 0
  /\ data < MaxData /\ data' = data + 1
  /\ UNCHANGED <<born, shared, own, refresh, late, holder, edit, call,
                 publish, now, floor, raced>>

(* Fault: a refresh that outlives its budget publishes no version.          *)
PublishesVersion_Fault(isLate) == ~isLate

PublishesVersion(isLate) == TRUE

Completes(p, isLate) ==
  /\ Newest < MaxVersion /\ UNCHANGED data
  /\ IF PublishesVersion(isLate)
     THEN /\ BumpTodayCacheVersion(p)
          /\ own' = [own EXCEPT ![p] = BumpedIn(@)]
          /\ shared' = BumpedIn(shared)
     ELSE UNCHANGED <<born, floor, own, shared>>
  /\ UNCHANGED <<holder, edit, call, publish, now, raced>>

FeedsAreRefreshed == \E p \in Web :
  \/ /\ refresh[p] = "running" /\ Completes(p, FALSE)
     /\ refresh' = [refresh EXCEPT ![p] = "arrived"] /\ UNCHANGED late
  \/ /\ late[p] > 0 /\ Completes(p, TRUE)
     /\ late' = [late EXCEPT ![p] = @ - 1] /\ UNCHANGED refresh

Mark(entry) == [entry EXCEPT !.mark = now + PageTtl]

(* The lock goes and the mark is set, whether the feeds were within the     *)
(* budget, are still on their way, or none was stale.                       *)
RefreshReturns == \E p \in Web :
  LET refreshed == refresh[p] # "asking" IN
  /\ refresh[p] # "no"
  /\ refresh' = [refresh EXCEPT ![p] = "no"]
  /\ late' = [late EXCEPT ![p] = IF refresh[p] = "running" THEN @ + 1 ELSE @]
  /\ holder' = Nobody
  /\ own' = [own EXCEPT ![p] = Mark(@)] /\ shared' = Mark(shared)
  /\ call' = [c \in Calls |->
       IF call[c].home # p \/ call[c].pc # "cold" THEN call[c]
       ELSE [call[c] EXCEPT !.pc = IF refreshed THEN "publishes" ELSE "done"]]
  /\ publish' = [c \in Calls |->
       IF call'[c].pc = "publishes" /\ call[c].pc = "cold"
       THEN [publish[c] EXCEPT !.pc = "building"] ELSE publish[c]]
  /\ UNCHANGED <<data, born, edit, now, floor, raced>>

(* upsertSubscriptions: the library first, then the new version, and a      *)
(* refresh is due again.                                                    *)
UserSubscribes == \E p \in Web :
  /\ edit[p] = "no" /\ data < MaxData /\ data' = data + 1
  /\ edit' = [edit EXCEPT ![p] = "written"]
  /\ UNCHANGED <<born, shared, own, refresh, late, holder, call, publish, now,
                 floor, raced>>

InvalidateTodayCache == \E p \in Web :
  /\ edit[p] = "written" /\ edit' = [edit EXCEPT ![p] = "no"]
  /\ Newest < MaxVersion
  /\ UNCHANGED data
  /\ BumpTodayCacheVersion(p)
  /\ own' = [own EXCEPT ![p] = [BumpedIn(@) EXCEPT !.mark = 0]]
  /\ shared' = [BumpedIn(shared) EXCEPT !.mark = 0]
  /\ UNCHANGED <<refresh, late, holder, call, publish, now, raced>>

-----------------------------------------------------------------------------
(* getTodayVideosPage, in whichever process the request arrives: the        *)
(* version comes before the page.                                           *)
GetTodayVideosPage == \E c \in Calls, p \in Web :
  LET v == GetTodayCacheVersion(p)
      page == GetPage(p, v) IN
  /\ call[c].pc = "no"
  /\ own' = [own EXCEPT ![p].version = v,
               ![p].pages[v] = IF page.data >= 0 THEN page ELSE @]
  /\ call' = [call EXCEPT ![c] =
       [pc |-> IF page.data >= 0 THEN "done" ELSE "building", home |-> p,
        key |-> v, got |-> page.data, floor |-> floor[p]]]
  /\ IF page.data < 0 \/ Fresh(page) THEN UNCHANGED <<publish, refresh, holder>>
     ELSE /\ publish' = [publish EXCEPT ![c].pc = "building"]
          /\ RefreshTodayFeedIfDue(p)
  /\ UNCHANGED <<data, born, shared, late, edit, now, floor, raced>>

BuildTodayPageFromDb == \E c \in Calls :
  /\ call[c].pc = "building"
  /\ call' = [call EXCEPT ![c].got = data,
                          ![c].pc = IF data > 0 THEN "storing" ELSE "cold"]
  /\ IF data > 0 THEN UNCHANGED <<refresh, holder>>
     ELSE RefreshTodayFeedIfDue(call[c].home)
  /\ UNCHANGED <<data, born, shared, own, late, edit, publish, now, floor,
                 raced>>

(* Fault: the page goes under the version of the moment.                    *)
TodayPageCacheKey_Fault(c) == GetTodayCacheVersion(call[c].home)

TodayPageCacheKey(c) == call[c].key

StoresPage == \E c \in Calls :
  /\ call[c].pc = "storing"
  /\ SetPage(call[c].home, TodayPageCacheKey(c), call[c].got)
  /\ call' = [call EXCEPT ![c].pc = "done"]
  /\ RefreshTodayFeedIfDue(call[c].home)
  /\ UNCHANGED <<data, born, late, edit, publish, now, floor, raced>>

(* A first page without videos waits for the refresh, within a budget.      *)
ColdStartEnds == \E c \in Calls :
  /\ call[c].pc = "cold" \/ (call[c].pc = "publishes" /\ publish[c].pc # "no")
  /\ call' = [call EXCEPT ![c].pc = "done"]
  /\ UNCHANGED <<data, born, shared, own, refresh, late, holder, edit,
                 publish, now, floor, raced>>

(* publishTodayPage: here the page comes before the version.                *)
PublishBuilds == \E c \in Calls :
  /\ publish[c].pc = "building"
  /\ publish' = [publish EXCEPT ![c].pc = "versioning", ![c].got = data]
  /\ UNCHANGED <<data, born, shared, own, refresh, late, holder, edit, call,
                 now, floor, raced>>

PublishTodayPage == \E c \in Calls :
  LET p == call[c].home
      v == GetTodayCacheVersion(p) IN
  /\ publish[c].pc = "versioning"
  /\ publish' = [publish EXCEPT ![c].pc = "no"]
  /\ SetPage(p, v, publish[c].got)
  /\ raced' = IF publish[c].got < born[v] THEN raced \cup {v} ELSE raced
  /\ call' = IF call[c].pc = "publishes"
             THEN [call EXCEPT ![c].pc = "done", ![c].got = publish[c].got]
             ELSE call
  /\ UNCHANGED <<data, born, refresh, late, holder, edit, now, floor>>

TimePasses ==
  /\ now < MaxClock /\ now' = now + 1
  /\ UNCHANGED <<data, born, shared, own, refresh, late, holder, edit, call,
                 publish, floor, raced>>

Next == \/ FindsStaleFeeds \/ FeedArrives \/ FeedsAreRefreshed \/ RefreshReturns
        \/ UserSubscribes \/ InvalidateTodayCache
        \/ GetTodayVideosPage \/ BuildTodayPageFromDb \/ StoresPage
        \/ ColdStartEnds \/ PublishBuilds \/ PublishTodayPage \/ TimePasses

Spec == Init /\ [][Next]_vars

-----------------------------------------------------------------------------
TypeOK == /\ data \in 0 .. MaxData /\ DOMAIN born \subseteq Versions
          /\ holder \in Web \cup {Nobody}

(* Under a version there is no page from before it: a replaced version      *)
(* makes every older page unreachable (today.ts 262).  The exception are    *)
(* pages that publishTodayPage built before the version it then found.      *)
NoOlderPage == \A v \in DOMAIN born \ raced :
  \A page \in {shared.pages[v]} \cup {own[p].pages[v] : p \in Web} :
    page.data >= 0 => page.data >= born[v]

(* Who subscribes and then looks sees what was subscribed to, in the same   *)
(* process.                                                                 *)
OwnChangesAreSeen == \A c \in Calls :
  call[c].pc = "done" /\ call[c].key \notin raced
    => call[c].got >= call[c].floor

(* One refresh at a time asks for the feeds, as long as it is within its    *)
(* budget.                                                                  *)
OneRefresh == \A p \in Web : refresh[p] # "no" => holder = p

(* When nothing is under way, the newest version stands for all that is in  *)
(* the library: no refresh, however late, leaves old pages in use.          *)
NothingLeftBehind ==
  (\A p \in Web : refresh[p] # "running" /\ late[p] = 0 /\ edit[p] = "no")
    => shared.version = Newest /\ born[Newest] = data

TodaySafe == /\ TypeOK /\ NoOlderPage /\ OwnChangesAreSeen /\ OneRefresh
             /\ NothingLeftBehind
=============================================================================
