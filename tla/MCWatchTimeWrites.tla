------------------------- MODULE MCWatchTimeWrites --------------------------
(* Three videos for a queue of two in one process.  The other parts are    *)
(* what the library keeps besides: in "watching", "opinions" and "events"  *)
(* the counters for recommendations; in "worker", "circuit", "alone" and   *)
(* "pump" the feeds of channels; in "tabs" and "retry" the offline copies, *)
(* and in "kept" and "stopped" the responses, that a browser keeps; in     *)
(* "recent", "touched", "ordered", "statements" and "titles" the lists of  *)
(* the library are read page by page.                                      *)
EXTENDS WatchTimeWrites, TLC

CONSTANTS p1, k1, k2, k3

VARIABLES part, db, now, resetting, moved, torn, pruned, parted, feed, feedRow,
          feedShared, feedLock, feedJob, feedNews, feedProc, feedRun,
          feedCall, feedNow, feedFaults, feedMisled, feedParted, offChunks,
          offMeta, offCatalog, offBundle, offKnown, offDeleting, offLock,
          offPrep, offCopy, offFaults, offDeletes, offTorn, storeCache,
          storeLedger, storeLoading, storeListed, storeTask, storeRemoving,
          storePuts, storeServed, storeFaults, storeForgot, storeRaced,
          listRows, listPage, listWalk, listSteady, listOp, listLapped,
          listClock, listChanges

exploreRollupsVars ==
  <<db, now, resetting, moved, torn, pruned, parted>>
feedRefreshVars ==
  <<feed, feedRow, feedShared, feedLock, feedJob, feedNews, feedProc,
    feedRun, feedCall, feedNow, feedFaults, feedMisled, feedParted>>
offlineLibraryVars ==
  <<offChunks, offMeta, offCatalog, offBundle, offKnown, offDeleting,
    offLock, offPrep, offCopy, offFaults, offDeletes, offTorn>>
segmentStoreVars ==
  <<storeCache, storeLedger, storeLoading, storeListed, storeTask,
    storeRemoving, storePuts, storeServed, storeFaults, storeForgot,
    storeRaced>>
libraryPagesVars ==
  <<listRows, listPage, listWalk, listSteady, listOp, listLapped, listClock,
    listChanges>>

OneProc == {p1}
ThreeKeys == {k1, k2, k3}
Symmetric == Permutations(ThreeKeys)
PageChannels == [v \in {"v1", "v2"} |->
                   IF v = "v1" THEN {"c1", "c2"} ELSE {"c2"}]
OneHome == [c \in {"c1", "c2", "c3"} |-> "w1"]
TwoHomes == ("c1" :> "w1") @@ ("c2" :> "w2")
OneFeed == [c \in {"c1", "c2", "c3"} |-> "f1"]
EachItsFeed == ("c1" :> "f1") @@ ("c2" :> "f2") @@ ("c3" :> "f3")
FormatSize == ("f1" :> 5) @@ ("f2" :> 2)
OneTab == [p \in {"p1", "p2"} |-> "t1"]
TwoTabs == ("p1" :> "t1") @@ ("p2" :> "t2")

Watched == INSTANCE ExploreRollups WITH
  Users <- {"u1", "u2"}, Videos <- {"v1", "v2"}, Channels <- {"c1", "c2"},
  ChannelsOf <- PageChannels, Work <- {"watch"}, MaxClock <- 4,
  RefreshAge <- 1, MaxAge <- 2, PerUser <- 1
Rated == INSTANCE ExploreRollups WITH
  Users <- {"u1", "u2"}, Videos <- {"v1"}, Channels <- {"c1", "c2"},
  ChannelsOf <- PageChannels, Work <- {"opinion"}, MaxClock <- 4,
  RefreshAge <- 1, MaxAge <- 2, PerUser <- 1
Worked == INSTANCE FeedRefresh WITH
  Web <- {"w1"}, Feeds <- {"f1"}, Calls <- {"c1", "c2"}, HomeOf <- OneHome,
  FeedOf <- OneFeed, Waits <- {"c1", "c2"}, Durable <- TRUE,
  Concurrency <- 1, MaxQueue <- 2, MaxClock <- 2, MaxVersion <- 2,
  MaxFaults <- 0, row <- feedRow, shared <- feedShared, lock <- feedLock,
  job <- feedJob, news <- feedNews, proc <- feedProc, run <- feedRun,
  call <- feedCall, now <- feedNow, faults <- feedFaults,
  misled <- feedMisled, parted <- feedParted
Broken == INSTANCE FeedRefresh WITH
  Web <- {"w1"}, Feeds <- {"f1"}, Calls <- {"c1"}, HomeOf <- OneHome,
  FeedOf <- OneFeed, Waits <- {"c1"}, Durable <- TRUE, Concurrency <- 1,
  MaxQueue <- 2, MaxClock <- 2, MaxVersion <- 2, MaxFaults <- 1,
  row <- feedRow, shared <- feedShared, lock <- feedLock, job <- feedJob,
  news <- feedNews, proc <- feedProc, run <- feedRun, call <- feedCall,
  now <- feedNow, faults <- feedFaults, misled <- feedMisled,
  parted <- feedParted
Alone == INSTANCE FeedRefresh WITH
  Web <- {"w1", "w2"}, Feeds <- {"f1"}, Calls <- {"c1", "c2"},
  HomeOf <- TwoHomes, FeedOf <- OneFeed, Waits <- {"c1", "c2"},
  Durable <- FALSE, Concurrency <- 1, MaxQueue <- 2, MaxClock <- 2,
  MaxVersion <- 2, MaxFaults <- 1, row <- feedRow, shared <- feedShared,
  lock <- feedLock, job <- feedJob, news <- feedNews, proc <- feedProc,
  run <- feedRun, call <- feedCall, now <- feedNow, faults <- feedFaults,
  misled <- feedMisled, parted <- feedParted
Pumped == INSTANCE FeedRefresh WITH
  Web <- {"w1"}, Feeds <- {"f1", "f2", "f3"}, Calls <- {"c1", "c2", "c3"},
  HomeOf <- OneHome, FeedOf <- EachItsFeed, Waits <- {"c2", "c3"},
  Durable <- FALSE, Concurrency <- 1, MaxQueue <- 2, MaxClock <- 1,
  MaxVersion <- 1, MaxFaults <- 1, row <- feedRow, shared <- feedShared,
  lock <- feedLock, job <- feedJob, news <- feedNews, proc <- feedProc,
  run <- feedRun, call <- feedCall, now <- feedNow, faults <- feedFaults,
  misled <- feedMisled, parted <- feedParted
InTwoTabs == INSTANCE OfflineLibrary WITH
  Preps <- {"p1", "p2"}, TabOf <- TwoTabs, Formats <- {"f1"},
  Size <- FormatSize, MetaInterval <- 1, MaxFaults <- 2, MaxDeletes <- 1,
  chunks <- offChunks, meta <- offMeta, catalog <- offCatalog,
  bundle <- offBundle, known <- offKnown, deleting <- offDeleting,
  lock <- offLock, prep <- offPrep, copy <- offCopy, faults <- offFaults,
  deletes <- offDeletes, torn <- offTorn
Retried == INSTANCE OfflineLibrary WITH
  Preps <- {"p1", "p2"}, TabOf <- OneTab, Formats <- {"f1", "f2"},
  Size <- FormatSize, MetaInterval <- 2, MaxFaults <- 1, MaxDeletes <- 0,
  chunks <- offChunks, meta <- offMeta, catalog <- offCatalog,
  bundle <- offBundle, known <- offKnown, deleting <- offDeleting,
  lock <- offLock, prep <- offPrep, copy <- offCopy, faults <- offFaults,
  deletes <- offDeletes, torn <- offTorn
Kept == INSTANCE SegmentStore WITH
  Urls <- {"u1", "u2", "u3", "u4"}, Playlists <- {"u4"}, Fetches <- {1, 2},
  MaxCount <- 1, TrimEvery <- 2, MaxPuts <- 3, MaxFaults <- 0,
  cache <- storeCache, ledger <- storeLedger, loading <- storeLoading,
  listed <- storeListed, task <- storeTask, removing <- storeRemoving,
  puts <- storePuts, served <- storeServed, faults <- storeFaults,
  forgot <- storeForgot, raced <- storeRaced
Stopped == INSTANCE SegmentStore WITH
  Urls <- {"u1", "u2", "u3"}, Playlists <- {"u3"}, Fetches <- {1, 2},
  MaxCount <- 1, TrimEvery <- 2, MaxPuts <- 4, MaxFaults <- 1,
  cache <- storeCache, ledger <- storeLedger, loading <- storeLoading,
  listed <- storeListed, task <- storeTask, removing <- storeRemoving,
  puts <- storePuts, served <- storeServed, faults <- storeFaults,
  forgot <- storeForgot, raced <- storeRaced
Recent == INSTANCE LibraryPages WITH
  Ids <- 1 .. 4, List <- "added", Synchronous <- TRUE, Grain <- 1,
  Limit <- 2, MaxClock <- 2, MaxChanges <- 2, rows <- listRows,
  page <- listPage, walk <- listWalk, steady <- listSteady, op <- listOp,
  lapped <- listLapped, clock <- listClock, changes <- listChanges
Touched == INSTANCE LibraryPages WITH
  Ids <- 1 .. 4, List <- "touched", Synchronous <- TRUE, Grain <- 1,
  Limit <- 2, MaxClock <- 2, MaxChanges <- 2, rows <- listRows,
  page <- listPage, walk <- listWalk, steady <- listSteady, op <- listOp,
  lapped <- listLapped, clock <- listClock, changes <- listChanges
Ordered == INSTANCE LibraryPages WITH
  Ids <- 1 .. 4, List <- "items", Synchronous <- TRUE, Grain <- 1,
  Limit <- 2, MaxClock <- 1, MaxChanges <- 2, rows <- listRows,
  page <- listPage, walk <- listWalk, steady <- listSteady, op <- listOp,
  lapped <- listLapped, clock <- listClock, changes <- listChanges
Interleaved == INSTANCE LibraryPages WITH
  Ids <- 1 .. 3, List <- "items", Synchronous <- FALSE, Grain <- 1,
  Limit <- 2, MaxClock <- 1, MaxChanges <- 2, rows <- listRows,
  page <- listPage, walk <- listWalk, steady <- listSteady, op <- listOp,
  lapped <- listLapped, clock <- listClock, changes <- listChanges
Titled == INSTANCE LibraryPages WITH
  Ids <- 1 .. 4, List <- "titles", Synchronous <- TRUE, Grain <- 1,
  Limit <- 2, MaxClock <- 1, MaxChanges <- 2, rows <- listRows,
  page <- listPage, walk <- listWalk, steady <- listSteady, op <- listOp,
  lapped <- listLapped, clock <- listClock, changes <- listChanges
Logged == INSTANCE ExploreRollups WITH
  Users <- {"u1"}, Videos <- {"v1", "v2"}, Channels <- {"c1", "c2"},
  ChannelsOf <- PageChannels, Work <- {"event"}, MaxClock <- 3,
  RefreshAge <- 1, MaxAge <- 1, PerUser <- 1

(* Each part of the suite is a system of its own: the others rest.         *)
MCInit ==
  \/ /\ part = "writes"
     /\ Init
     /\ Watched!Init
     /\ Worked!Init
     /\ InTwoTabs!Init
     /\ Kept!Init
     /\ Recent!Init /\ DOMAIN listRows = {}
  \/ /\ part = "watching"
     /\ Watched!Init
     /\ Worked!Init
     /\ InTwoTabs!Init
     /\ Kept!Init
     /\ Recent!Init /\ DOMAIN listRows = {}
     /\ Init
  \/ /\ part = "opinions"
     /\ Rated!Init
     /\ Worked!Init
     /\ InTwoTabs!Init
     /\ Kept!Init
     /\ Recent!Init /\ DOMAIN listRows = {}
     /\ Init
  \/ /\ part = "worker"
     /\ Worked!Init
     /\ Watched!Init
     /\ InTwoTabs!Init
     /\ Kept!Init
     /\ Recent!Init /\ DOMAIN listRows = {}
     /\ Init
  \/ /\ part = "circuit"
     /\ Broken!Init
     /\ Watched!Init
     /\ InTwoTabs!Init
     /\ Kept!Init
     /\ Recent!Init /\ DOMAIN listRows = {}
     /\ Init
  \/ /\ part = "alone"
     /\ Alone!Init
     /\ Watched!Init
     /\ InTwoTabs!Init
     /\ Kept!Init
     /\ Recent!Init /\ DOMAIN listRows = {}
     /\ Init
  \/ /\ part = "pump"
     /\ Pumped!Init
     /\ Watched!Init
     /\ InTwoTabs!Init
     /\ Kept!Init
     /\ Recent!Init /\ DOMAIN listRows = {}
     /\ Init
  \/ /\ part = "tabs"
     /\ InTwoTabs!Init
     /\ Watched!Init
     /\ Worked!Init
     /\ Kept!Init
     /\ Recent!Init /\ DOMAIN listRows = {}
     /\ Init
  \/ /\ part = "retry"
     /\ Retried!Init
     /\ Watched!Init
     /\ Worked!Init
     /\ Kept!Init
     /\ Recent!Init /\ DOMAIN listRows = {}
     /\ Init
  \/ /\ part = "kept"
     /\ Kept!Init
     /\ Watched!Init
     /\ Worked!Init
     /\ InTwoTabs!Init
     /\ Recent!Init /\ DOMAIN listRows = {}
     /\ Init
  \/ /\ part = "stopped"
     /\ Stopped!Init
     /\ Watched!Init
     /\ Worked!Init
     /\ InTwoTabs!Init
     /\ Recent!Init /\ DOMAIN listRows = {}
     /\ Init
  \/ /\ part = "recent"
     /\ Recent!Init
     /\ Watched!Init
     /\ Worked!Init
     /\ InTwoTabs!Init
     /\ Kept!Init
     /\ Init
  \/ /\ part = "touched"
     /\ Touched!Init
     /\ Watched!Init
     /\ Worked!Init
     /\ InTwoTabs!Init
     /\ Kept!Init
     /\ Init
  \/ /\ part = "ordered"
     /\ Ordered!Init
     /\ Watched!Init
     /\ Worked!Init
     /\ InTwoTabs!Init
     /\ Kept!Init
     /\ Init
  \/ /\ part = "statements"
     /\ Interleaved!Init
     /\ Watched!Init
     /\ Worked!Init
     /\ InTwoTabs!Init
     /\ Kept!Init
     /\ Init
  \/ /\ part = "titles"
     /\ Titled!Init
     /\ Watched!Init
     /\ Worked!Init
     /\ InTwoTabs!Init
     /\ Kept!Init
     /\ Init
  \/ /\ part = "events"
     /\ Logged!Init
     /\ Worked!Init
     /\ InTwoTabs!Init
     /\ Kept!Init
     /\ Recent!Init /\ DOMAIN listRows = {}
     /\ Init
MCNext ==
  /\ UNCHANGED part
  /\ \/ /\ part = "writes" /\ Next
        /\ UNCHANGED <<exploreRollupsVars, feedRefreshVars,
                     offlineLibraryVars, segmentStoreVars,
                     libraryPagesVars>>
     \/ /\ part = "watching" /\ Watched!Next
        /\ UNCHANGED <<feedRefreshVars, offlineLibraryVars,
                     segmentStoreVars, libraryPagesVars, vars>>
     \/ /\ part = "opinions" /\ Rated!Next
        /\ UNCHANGED <<feedRefreshVars, offlineLibraryVars,
                     segmentStoreVars, libraryPagesVars, vars>>
     \/ /\ part = "worker" /\ Worked!Next
        /\ UNCHANGED <<exploreRollupsVars, offlineLibraryVars,
                     segmentStoreVars, libraryPagesVars, vars>>
     \/ /\ part = "circuit" /\ Broken!Next
        /\ UNCHANGED <<exploreRollupsVars, offlineLibraryVars,
                     segmentStoreVars, libraryPagesVars, vars>>
     \/ /\ part = "alone" /\ Alone!Next
        /\ UNCHANGED <<exploreRollupsVars, offlineLibraryVars,
                     segmentStoreVars, libraryPagesVars, vars>>
     \/ /\ part = "pump" /\ Pumped!Next
        /\ UNCHANGED <<exploreRollupsVars, offlineLibraryVars,
                     segmentStoreVars, libraryPagesVars, vars>>
     \/ /\ part = "tabs" /\ InTwoTabs!Next
        /\ UNCHANGED <<exploreRollupsVars, feedRefreshVars,
                     segmentStoreVars, libraryPagesVars, vars>>
     \/ /\ part = "retry" /\ Retried!Next
        /\ UNCHANGED <<exploreRollupsVars, feedRefreshVars,
                     segmentStoreVars, libraryPagesVars, vars>>
     \/ /\ part = "kept" /\ Kept!Next
        /\ UNCHANGED <<exploreRollupsVars, feedRefreshVars,
                     offlineLibraryVars, libraryPagesVars, vars>>
     \/ /\ part = "stopped" /\ Stopped!Next
        /\ UNCHANGED <<exploreRollupsVars, feedRefreshVars,
                     offlineLibraryVars, libraryPagesVars, vars>>
     \/ /\ part = "recent" /\ Recent!Next
        /\ UNCHANGED <<exploreRollupsVars, feedRefreshVars,
                     offlineLibraryVars, segmentStoreVars, vars>>
     \/ /\ part = "touched" /\ Touched!Next
        /\ UNCHANGED <<exploreRollupsVars, feedRefreshVars,
                     offlineLibraryVars, segmentStoreVars, vars>>
     \/ /\ part = "ordered" /\ Ordered!Next
        /\ UNCHANGED <<exploreRollupsVars, feedRefreshVars,
                     offlineLibraryVars, segmentStoreVars, vars>>
     \/ /\ part = "statements" /\ Interleaved!Next
        /\ UNCHANGED <<exploreRollupsVars, feedRefreshVars,
                     offlineLibraryVars, segmentStoreVars, vars>>
     \/ /\ part = "titles" /\ Titled!Next
        /\ UNCHANGED <<exploreRollupsVars, feedRefreshVars,
                     offlineLibraryVars, segmentStoreVars, vars>>
     \/ /\ part = "events" /\ Logged!Next
        /\ UNCHANGED <<feedRefreshVars, offlineLibraryVars,
                     segmentStoreVars, libraryPagesVars, vars>>
MCVars == <<exploreRollupsVars, feedRefreshVars, offlineLibraryVars,
            segmentStoreVars, libraryPagesVars, vars, part>>
MCSpec ==
  /\ MCInit /\ [][MCNext]_MCVars

(* See ExploreRollups: the counters are what the rows say, in both         *)
(* libraries alike.                                                        *)
RollupsSafe ==
  CASE part = "watching" -> Watched!RollupsSafe
    [] part = "opinions" -> Rated!RollupsSafe
    [] part = "events" -> Logged!RollupsSafe
    [] OTHER -> TRUE
(* See FeedRefresh: feeds are refreshed once at a time, nothing stays old,  *)
(* and no caller is forgotten.                                              *)
FeedSafe ==
  CASE part = "worker" -> Worked!FeedSafe
    [] part = "circuit" -> Broken!FeedSafe
    [] part = "alone" -> Alone!FeedSafe
    [] part = "pump" -> Pumped!FeedSafe
    [] OTHER -> TRUE
(* See OfflineLibrary and SegmentStore: what a browser keeps is the file,  *)
(* what it offers offline is there, and what it holds is known.            *)
OfflineSafe ==
  CASE part = "tabs" -> InTwoTabs!OfflineSafe
    [] part = "retry" -> Retried!OfflineSafe
    [] part = "kept" -> Kept!StoreSafe
    [] part = "stopped" -> Stopped!StoreSafe
    [] OTHER -> TRUE
(* See LibraryPages: pages show each row once, and the page before again.  *)
PagesSafe ==
  CASE part = "recent" -> Recent!PagesSafe
    [] part = "touched" -> Touched!PagesSafe
    [] part = "ordered" -> Ordered!PagesSafe
    [] part = "statements" -> Interleaved!PagesSafe
    [] part = "titles" -> Titled!PagesSafe
    [] OTHER -> TRUE
=============================================================================
