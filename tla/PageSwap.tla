------------------------------ MODULE PageSwap ------------------------------
(* Links are followed without leaving the document: the answer's <main>     *)
(* replaces the one shown once the scripts and styles it needs are there.   *)
(* A later click or a step back overtakes a navigation at any of its        *)
(* awaits.  Without the server an offline page is shown, for the downloads  *)
(* and for a video from records that are read first.                        *)
EXTENDS Integers, FiniteSets

CONSTANTS
  Pages,      \* ordinary pages; there are also the downloads and a video
  Resources,  \* scripts and styles of a document's head
  Needs,      \* which of them each page needs
  Badged,     \* pages that lack durations
  MaxNavs     \* navigations of one document

Places == Pages \cup {"downloads"}

VARIABLES
  url,      \* where the browser says it is
  shown,    \* what <main> holds: a page, whether offline, and who put it there
  seq,      \* navigationSeq
  navs,     \* the navigations so far
  head,     \* the resources of the document, by the navigation that added them
  reads,    \* offline pages whose records are still being read
  late,     \* <main> holds an offline page that was overtaken
  player,   \* "page", or "stray" if it came with an offline page overtaken
  bar,      \* the loading bar
  streams,  \* pages that receive durations
  timers,   \* pages about to ask for some
  overdue,  \* pages that asked only after they were replaced
  gone      \* the document is left
vars == <<url, shown, seq, navs, head, reads, late, player, bar, streams,
          timers, overdue, gone>>

Navs == 1 .. MaxNavs
Absent == [by |-> 0, state |-> "absent"]
NoNav == [pc |-> "none", back |-> FALSE, to |-> "none", awaits |-> {}]

(* A document arrives whole, or as the offline page of a video.             *)
Init ==
  /\ url \in Places \cup {"watch"} /\ seq = 0 /\ bar = "none"
  /\ navs = [n \in Navs |-> NoNav] /\ head = [r \in Resources |-> Absent]
  /\ late = FALSE /\ streams = {} /\ timers = {} /\ overdue = {}
  /\ gone = FALSE
  /\ \/ /\ shown = [page |-> url, offline |-> FALSE, by |-> 0] /\ reads = {}
        /\ player = IF url = "watch" THEN "page" ELSE "none"
     \/ /\ url = "watch" /\ player = "none"
        /\ shown = [page |-> url, offline |-> TRUE, by |-> 0]
        /\ reads = {[page |-> "watch", by |-> 0]}

Current(n) == n = seq
Finish(b) == IF b = "none" THEN "none" ELSE "done"
DestroyPlayer == player' = "none" /\ streams' = {}
Ends(n) == navs' = [navs EXCEPT ![n].pc = "done"]

(* A full navigation instead, which ends everything here.                   *)
Leave == gone' = TRUE /\ bar' = Finish(bar)

(* The fallback for the place the browser is at.                            *)
HandleFallback(n, at) ==
  IF at = "downloads"
  THEN reads' = reads \cup {[page |-> at, by |-> n]} /\ UNCHANGED <<shown, late>>
  ELSE /\ shown' = [page |-> at, offline |-> TRUE, by |-> n] /\ late' = FALSE
       /\ UNCHANGED reads

-----------------------------------------------------------------------------
(* What a navigation does.                                                  *)

(* The one before is aborted where a request of it is still answered.       *)
Begin(back, to) ==
  /\ seq < MaxNavs /\ seq' = seq + 1 /\ bar' = "running"
  /\ navs' = [n \in Navs |->
       IF n = seq + 1
       THEN [pc |-> "fetch", back |-> back, to |-> to, awaits |-> {}]
       ELSE IF n = seq /\ navs[n].pc \in {"fetch", "body"}
       THEN [navs[n] EXCEPT !.pc = "done"] ELSE navs[n]]
  /\ UNCHANGED <<shown, head, reads, late, timers, overdue, gone>>

Navigate(to) == Begin(FALSE, to) /\ UNCHANGED <<url, player, streams>>

Popstate(to) == Begin(TRUE, to) /\ url' = to /\ DestroyPlayer

(* A video's page is always loaded as a document.                           *)
FollowWatchLink ==
  /\ gone' = TRUE /\ bar' = "running"
  /\ UNCHANGED <<url, shown, seq, navs, head, reads, late, player, streams,
                 timers, overdue>>

At(n, pc) == navs[n].pc = pc

FetchAnswers(n) ==
  /\ At(n, "fetch") /\ Current(n)
  /\ navs' = [navs EXCEPT ![n].pc = "body"]
  /\ UNCHANGED <<url, shown, seq, head, reads, late, player, bar, streams,
                 timers, overdue, gone>>

(* The server refuses, or the shell takes longer than a document would.     *)
Abandon(n) ==
  /\ At(n, "fetch") \/ At(n, "body")
  /\ Current(n) /\ Ends(n) /\ Leave
  /\ UNCHANGED <<url, shown, seq, head, reads, late, player, streams, timers,
                 overdue>>

(* What the new page needs is added to the head, or awaited if an earlier   *)
(* navigation added it.                                                     *)
InjectHeadResources(n) ==
  LET missing == {r \in Needs[navs[n].to] : head[r].state = "absent"}
      loading == {r \in Needs[navs[n].to] : head[r].state = "loading"}
  IN /\ head' = [r \in Resources |->
          IF r \in missing THEN [by |-> n, state |-> "loading"] ELSE head[r]]
     /\ navs' = [navs EXCEPT ![n].pc = "resources",
          ![n].awaits = {<<r, n>> : r \in missing}
                          \cup {<<r, head[r].by>> : r \in loading}]

SwapContent(n) ==
  /\ At(n, "body") /\ Current(n) /\ url' = navs[n].to
  /\ DestroyPlayer /\ InjectHeadResources(n)
  /\ UNCHANGED <<shown, seq, reads, late, bar, timers, overdue, gone>>

(* The service worker answered for the server.                              *)
ShowFallback(n) ==
  /\ At(n, "body") /\ Current(n) /\ url' = navs[n].to /\ Ends(n)
  /\ bar' = Finish(bar) /\ HandleFallback(n, url')
  /\ IF navs[n].back THEN UNCHANGED <<player, streams>> ELSE DestroyPlayer
  /\ UNCHANGED <<seq, head, timers, overdue, gone>>

(* Fault: who waited for resources does not look again. *)
ReplaceMain_Fault(n) ==
  /\ At(n, "resources") /\ navs[n].awaits = {} /\ Ends(n)
  /\ shown' = [page |-> navs[n].to, offline |-> FALSE, by |-> n]
  /\ late' = FALSE /\ streams' = {} /\ bar' = Finish(bar)
  /\ UNCHANGED <<url, seq, head, reads, player, timers, overdue, gone>>

ReplaceMain(n) ==
  /\ At(n, "resources") /\ navs[n].awaits = {} /\ Ends(n)
  /\ IF Current(n)
     THEN /\ shown' = [page |-> navs[n].to, offline |-> FALSE, by |-> n]
          /\ late' = FALSE /\ streams' = {} /\ bar' = Finish(bar)
     ELSE UNCHANGED <<shown, late, streams, bar>>
  /\ UNCHANGED <<url, seq, head, reads, player, timers, overdue, gone>>

(* Fault: a navigation that failed leaves the bar. *)
Fails_Fault(n) ==
  IF Current(n) /\ ~At(n, "done")
  THEN /\ url' = navs[n].to /\ HandleFallback(n, url') /\ UNCHANGED bar
       /\ IF navs[n].back THEN UNCHANGED <<player, streams>> ELSE DestroyPlayer
  ELSE UNCHANGED <<url, bar, shown, late, reads, player, streams>>

(* The end of a navigation whose request or resources failed.               *)
Fails(n) ==
  IF Current(n) /\ ~At(n, "done")
  THEN /\ url' = navs[n].to /\ bar' = Finish(bar) /\ HandleFallback(n, url')
       /\ IF navs[n].back THEN UNCHANGED <<player, streams>> ELSE DestroyPlayer
  ELSE UNCHANGED <<url, bar, shown, late, reads, player, streams>>

NetworkFails(n) ==
  /\ At(n, "fetch") \/ At(n, "body")
  /\ Ends(n) /\ Fails(n) /\ UNCHANGED <<seq, head, timers, overdue, gone>>

Removed(r, c) ==
  head' = IF head[r] = [by |-> c, state |-> "loading"]
          THEN [head EXCEPT ![r] = Absent] ELSE head

Awaited == UNION {navs[n].awaits : n \in Navs}

ResourceLoads(r, c) ==
  /\ <<r, c>> \in Awaited
  /\ navs' = [n \in Navs |-> [navs[n] EXCEPT !.awaits = @ \ {<<r, c>>}]]
  /\ head' = IF head[r].by = c THEN [head EXCEPT ![r].state = "loaded"] ELSE head
  /\ UNCHANGED <<url, shown, seq, reads, late, player, bar, streams, timers,
                 overdue, gone>>

(* Everyone who waits for it fails; only the newest has something to end.   *)
ResourceFails(r, c) ==
  LET waiting == {n \in Navs : <<r, c>> \in navs[n].awaits} IN
  /\ waiting # {} /\ Removed(r, c)
  /\ navs' = [n \in Navs |-> IF n \notin waiting THEN navs[n] ELSE
       [navs[n] EXCEPT !.pc = "done", !.awaits = @ \ {<<r, c>>}]]
  /\ Fails(CHOOSE n \in waiting : \A m \in waiting : m <= n)
  /\ UNCHANGED <<seq, timers, overdue, gone>>

(* Each navigation has a timer of its own, and takes the element away.      *)
ResourceTimesOut(n, r, c) ==
  /\ <<r, c>> \in navs[n].awaits /\ Removed(r, c)
  /\ navs' = [navs EXCEPT ![n].pc = "done", ![n].awaits = @ \ {<<r, c>>}]
  /\ Fails(n) /\ UNCHANGED <<seq, timers, overdue, gone>>

-----------------------------------------------------------------------------
(* What goes on beside.                                                     *)

BarIsRemoved ==
  /\ bar = "done" /\ bar' = "none"
  /\ UNCHANGED <<url, shown, seq, navs, head, reads, late, player, streams,
                 timers, overdue, gone>>

(* An offline page is shown when its records are read, whatever came since. *)
RecordsArrive(read) ==
  /\ reads' = reads \ {read} /\ late' = (read.by # seq)
  /\ shown' = [page |-> read.page, offline |-> TRUE, by |-> read.by]
  /\ player' \in IF read.page # "watch" THEN {player}
                 ELSE {player, IF read.by = seq THEN "page" ELSE "stray"}
  /\ bar' = IF read.page = "watch" /\ player' = player THEN Finish(bar) ELSE bar
  /\ UNCHANGED <<url, seq, navs, head, streams, timers, overdue, gone>>

BadgesVisible ==
  /\ ~shown.offline /\ shown.page \in Badged /\ timers' = timers \cup {shown.by}
  /\ UNCHANGED <<url, shown, seq, navs, head, reads, late, player, bar,
                 streams, overdue, gone>>

FetchDurations(by) ==
  /\ timers' = timers \ {by} /\ streams' = streams \cup {by}
  /\ overdue' = IF by = shown.by THEN overdue ELSE overdue \cup {by}
  /\ UNCHANGED <<url, shown, seq, navs, head, reads, late, player, bar, gone>>

DurationsEnd(by) ==
  /\ streams' = streams \ {by}
  /\ UNCHANGED <<url, shown, seq, navs, head, reads, late, player, bar,
                 timers, overdue, gone>>

Next ==
  /\ ~gone
  /\ \/ \E to \in Places : Navigate(to) \/ Popstate(to)
     \/ FollowWatchLink \/ BarIsRemoved \/ BadgesVisible
     \/ \E n \in Navs :
          \/ FetchAnswers(n) \/ Abandon(n) \/ SwapContent(n) \/ ShowFallback(n)
          \/ ReplaceMain(n) \/ NetworkFails(n)
          \/ \E a \in navs[n].awaits : ResourceTimesOut(n, a[1], a[2])
     \/ \E a \in Awaited : ResourceLoads(a[1], a[2]) \/ ResourceFails(a[1], a[2])
     \/ \E read \in reads : RecordsArrive(read)
     \/ \E by \in timers : FetchDurations(by)
     \/ \E by \in streams : DurationsEnd(by)

Spec == Init /\ [][Next]_vars

-----------------------------------------------------------------------------
(* Properties.                                                              *)

TypeOK ==
  /\ url \in Places \cup {"watch"} /\ shown.page \in Places \cup {"watch"}
  /\ bar \in {"none", "running", "done"} /\ player \in {"none", "page", "stray"}
  /\ \A n \in Navs : navs[n].pc \in {"none", "fetch", "body", "resources", "done"}

Under == \E n \in Navs : Current(n) /\ navs[n].pc \notin {"none", "done"}
Reading == \E read \in reads : read.by = seq

(* Once nothing is under way the page shown is the one of the address, in   *)
(* whatever order answers, scripts and failures came; only an offline page  *)
(* whose records arrive too late is another.                                *)
PageMatchesAddress == ~gone /\ ~Under /\ ~Reading /\ ~late => shown.page = url

(* The loading bar never runs for a navigation that is over.                *)
BarStops == ~gone /\ bar = "running" => Under

(* A player belongs to the video shown, unless it came too late as well.    *)
PlayerIsSeen == player = "page" => shown.page = "watch"

(* A page from the server owns the streams of durations, except those a     *)
(* timer of an earlier page asked for.                                      *)
StreamsAreShown == ~shown.offline => streams \ overdue \subseteq {shown.by}

PageSwapSafe ==
  TypeOK /\ PageMatchesAddress /\ BarStops /\ PlayerIsSeen /\ StreamsAreShown
=============================================================================
