------------------------- MODULE MCExtractionFlight -------------------------
(* Two processes, two calls in one and one in the other.  The other parts   *)
(* are what web processes and players keep besides: "cache" and "limits"    *)
(* the cache of two levels, and the Explore feed kept in it, which is put   *)
(* together in "ranking" and asked for by two processes or one in "apart"   *)
(* and "together"; in "muxed" and "fragments" a player appends what it was  *)
(* sent, in "posts" and "stops" a process downloads a video itself, and     *)
(* "progress" is what it writes of that.                                    *)
EXTENDS ExtractionFlight, TLC

CONSTANTS p1, p2, r1, r2, r3

VARIABLES part, local, pending, last, shared, reads, old, count, feedShelf,
          feedChoices, feedTold, feedRoute, feedCall, feedCopy, feedShared,
          feedPending, feedLock, feedFlight, feedFaults, feedExpired,
          appendSeg, appendSegOwner, appendOwner, appendTx, appendEpoch,
          appendHeld, appendLedger, appendKey, appendInBuffer, appendHead,
          appendRecovered, appendLost, appendTwice, appendMixed,
          appendWrong, appendLeft, fetched, post, listed, other, undo, odd,
          chances, progressVersion, progressStored, progressState,
          progressFlush, progressActive, progressOwed, progressErrors

sharedCacheVars ==
  <<local, pending, last, shared, reads, old, count>>
exploreFeedVars ==
  <<feedShelf, feedChoices, feedTold, feedRoute, feedCall, feedCopy,
    feedShared, feedPending, feedLock, feedFlight, feedFaults, feedExpired>>
hlsAppendsVars ==
  <<appendSeg, appendSegOwner, appendOwner, appendTx, appendEpoch,
    appendHeld, appendLedger, appendKey, appendInBuffer, appendHead,
    appendRecovered, appendLost, appendTwice, appendMixed, appendWrong,
    appendLeft>>
localDownloadsVars ==
  <<fetched, post, listed, other, undo, odd, chances>>
downloadProgressVars ==
  <<progressVersion, progressStored, progressState, progressFlush,
    progressActive, progressOwed, progressErrors>>

(* A part that has no use for these variables leaves them empty.           *)
NoSharedCache ==
  /\ local = <<>> /\ pending = <<>> /\ last = <<>> /\ shared = <<>>
  /\ reads = <<>> /\ old = <<>> /\ count = <<>>
NoExploreFeed ==
  /\ feedShelf = <<>> /\ feedChoices = <<>> /\ feedTold = <<>>
  /\ feedRoute = <<>> /\ feedCall = <<>> /\ feedCopy = <<>>
  /\ feedShared = <<>> /\ feedPending = <<>> /\ feedLock = <<>>
  /\ feedFlight = <<>> /\ feedFaults = <<>> /\ feedExpired = <<>>

TwoProcs == {p1, p2}
ThreeCalls == {r1, r2, r3}
Homes == (r1 :> p1) @@ (r2 :> p1) @@ (r3 :> p2)
OneInit == <<1, 1>>
TwoInits == <<1, 2, 2>>
VideoOnly == {"v"}
BothFormats == {"v", "a"}
TwoPosts == {1, 2}

VideoOf == [v \in {"a1", "a2", "a3"} |-> "a"] @@ ("b1" :> "b") @@ ("x1" :> "x")
ByDate == <<"a1", "b1", "a2", "a3">>
NothingChosenOf(vs) ==
  [seen |-> [v \in vs |-> 0 - 1], struggling |-> FALSE, muted |-> {},
   boosted |-> {}, dismissed |-> {}, disliked |-> {}]
NothingChosen == {NothingChosenOf({"a1"})}
SomeChosen ==
  LET none == NothingChosenOf(DOMAIN VideoOf) IN
  {none, [none EXCEPT !.struggling = TRUE], [none EXCEPT !.muted = {"x"}],
   [none EXCEPT !.seen["a1"] = 100],
   [none EXCEPT !.seen["a1"] = 100, !.seen["a2"] = 70, !.boosted = {"a"}],
   [none EXCEPT !.dismissed = {"x1"}, !.seen["b1"] = 60],
   [none EXCEPT !.disliked = {"x1", "b1"}]}
AllChoices ==
  [kind: {"mute", "unmute", "boost", "unboost"}, on: {"a", "x"}]
    \cup [kind: {"dismiss", "undismiss", "dislike"}, on: {"x1"}]

Cache == INSTANCE SharedCache WITH
  Procs <- {1, 2}, Keys <- {1}, Sizes <- {1}, MaxEntries <- 2,
  MaxL1Bytes <- 3, MaxRedis <- 3, MaxValues <- 2, MaxDeletes <- 1,
  MaxReads <- 2, MaxErrors <- 0
Limits == INSTANCE SharedCache WITH
  Procs <- {1}, Keys <- {1, 2, 3}, Sizes <- {1, 2, 4}, MaxEntries <- 2,
  MaxL1Bytes <- 3, MaxRedis <- 3, MaxValues <- 3, MaxDeletes <- 0,
  MaxReads <- 0, MaxErrors <- 0
Ranked == INSTANCE ExploreFeed WITH
  Channels <- {"a", "b", "x"}, Videos <- DOMAIN VideoOf,
  ChannelOf <- VideoOf, DiversitySlots <- 1, DeepCutSlots <- 1,
  ExplorationSlots <- 1, Every <- 2, DeepFrom <- 1, DeepEvery <- 2,
  PoolStart <- 1, PoolEnd <- 4, HeadCount <- 3, HeadCap <- 1, MaxPolls <- 1,
  MinWatches <- 2, Related <- {"x1"}, Favourites <- {"a"},
  Emerging <- {"b"}, Recency <- ByDate, Old <- {"a3", "b1"},
  Shelves <- SomeChosen, Threshold <- 1, Candidates <- 4, TopCount <- 4,
  EmergingAt <- <<2>>, Procs <- {1}, Askers <- {1}, ProcOf <- <<1>>,
  Routes <- {1}, RouteAt <- <<1>>, Acts <- AllChoices, MaxFaults <- 0,
  MaxExpiries <- 0, copy <- feedCopy, shared <- feedShared,
  pending <- feedPending, lock <- feedLock, flight <- feedFlight,
  faults <- feedFaults, expired <- feedExpired, call <- feedCall,
  shelf <- feedShelf, made <- feedChoices, told <- feedTold,
  route <- feedRoute
Apart == INSTANCE ExploreFeed WITH
  Channels <- {"a"}, Videos <- {"a1"}, ChannelOf <- [v \in {"a1"} |-> "a"],
  DiversitySlots <- 0, DeepCutSlots <- 0, ExplorationSlots <- 0, Every <- 2,
  DeepFrom <- 1, DeepEvery <- 2, PoolStart <- 1, PoolEnd <- 4,
  HeadCount <- 3, HeadCap <- 1, MaxPolls <- 1, MinWatches <- 2,
  Related <- {}, Favourites <- {"a"}, Emerging <- {}, Recency <- <<"a1">>,
  Old <- {}, EmergingAt <- <<>>, Shelves <- NothingChosen, Threshold <- 2,
  Candidates <- 2, TopCount <- 2, Routes <- {1}, RouteAt <- <<1>>,
  Acts <- {[kind |-> "dislike", on |-> "a1"]}, Askers <- {1, 2},
  Procs <- {1, 2}, ProcOf <- <<1, 2>>, MaxFaults <- 1, MaxExpiries <- 0,
  copy <- feedCopy, shared <- feedShared, pending <- feedPending,
  lock <- feedLock, flight <- feedFlight, faults <- feedFaults,
  expired <- feedExpired, call <- feedCall, shelf <- feedShelf,
  made <- feedChoices, told <- feedTold, route <- feedRoute
Together == INSTANCE ExploreFeed WITH
  Channels <- {"a"}, Videos <- {"a1"}, ChannelOf <- [v \in {"a1"} |-> "a"],
  DiversitySlots <- 0, DeepCutSlots <- 0, ExplorationSlots <- 0, Every <- 2,
  DeepFrom <- 1, DeepEvery <- 2, PoolStart <- 1, PoolEnd <- 4,
  HeadCount <- 3, HeadCap <- 1, MaxPolls <- 1, MinWatches <- 2,
  Related <- {}, Favourites <- {"a"}, Emerging <- {}, Recency <- <<"a1">>,
  Old <- {}, EmergingAt <- <<>>, Shelves <- NothingChosen, Threshold <- 2,
  Candidates <- 2, TopCount <- 2, Routes <- {1}, RouteAt <- <<1>>,
  Acts <- {[kind |-> "dislike", on |-> "a1"]}, Askers <- {1, 2},
  Procs <- {1}, ProcOf <- <<1, 1>>, MaxFaults <- 1, MaxExpiries <- 1,
  copy <- feedCopy, shared <- feedShared, pending <- feedPending,
  lock <- feedLock, flight <- feedFlight, faults <- feedFaults,
  expired <- feedExpired, call <- feedCall, shelf <- feedShelf,
  made <- feedChoices, told <- feedTold, route <- feedRoute
Streams == INSTANCE HlsAppends WITH
  Last <- 2, Capacity <- 1, MaxTx <- 3, MaxSeeks <- 1, MaxTimeouts <- 1,
  Muxed <- TRUE, Generation <- OneInit, seg <- appendSeg,
  segOwner <- appendSegOwner, owner <- appendOwner, tx <- appendTx,
  epoch <- appendEpoch, held <- appendHeld, ledger <- appendLedger,
  key <- appendKey, inBuffer <- appendInBuffer, head <- appendHead,
  recovered <- appendRecovered, lost <- appendLost, twice <- appendTwice,
  mixed <- appendMixed, wrong <- appendWrong, left <- appendLeft
Fragments == INSTANCE HlsAppends WITH
  Muxed <- FALSE, Generation <- TwoInits, Last <- 3, Capacity <- 2,
  MaxTx <- 3, MaxSeeks <- 1, MaxTimeouts <- 1, seg <- appendSeg,
  segOwner <- appendSegOwner, owner <- appendOwner, tx <- appendTx,
  epoch <- appendEpoch, held <- appendHeld, ledger <- appendLedger,
  key <- appendKey, inBuffer <- appendInBuffer, head <- appendHead,
  recovered <- appendRecovered, lost <- appendLost, twice <- appendTwice,
  mixed <- appendMixed, wrong <- appendWrong, left <- appendLeft
Fetched == INSTANCE LocalDownloads WITH
  Formats <- BothFormats, Posts <- TwoPosts, MaxActive <- 2, MaxTasks <- 3,
  MaxOther <- 1, MaxStops <- 0, MaxErrors <- 2, dl <- fetched,
  row <- listed, left <- chances
Stopped == INSTANCE LocalDownloads WITH
  Formats <- VideoOnly, Posts <- TwoPosts, MaxActive <- 2, MaxTasks <- 2,
  MaxOther <- 0, MaxStops <- 2, MaxErrors <- 0, dl <- fetched,
  row <- listed, left <- chances
Progress == INSTANCE DownloadProgress WITH
  Formats <- BothFormats, MaxChunks <- 3, MaxErrors <- 1,
  version <- progressVersion, stored <- progressStored,
  state <- progressState, flush <- progressFlush, active <- progressActive,
  owed <- progressOwed, errors <- progressErrors

(* Each part of the suite is a system of its own: the others rest.         *)
MCInit ==
  \/ /\ part = "flight"
     /\ Init
     /\ NoSharedCache
     /\ NoExploreFeed
     /\ Streams!Init
     /\ Fetched!Init
     /\ Progress!Init
  \/ /\ part = "cache"
     /\ Cache!Init
     /\ NoExploreFeed
     /\ Streams!Init
     /\ Fetched!Init
     /\ Progress!Init
     /\ Init
  \/ /\ part = "limits"
     /\ Limits!Init
     /\ NoExploreFeed
     /\ Streams!Init
     /\ Fetched!Init
     /\ Progress!Init
     /\ Init
  \/ /\ part = "ranking"
     /\ Ranked!Init
     /\ NoSharedCache
     /\ Streams!Init
     /\ Fetched!Init
     /\ Progress!Init
     /\ Init
  \/ /\ part = "apart"
     /\ Apart!Init
     /\ NoSharedCache
     /\ Streams!Init
     /\ Fetched!Init
     /\ Progress!Init
     /\ Init
  \/ /\ part = "together"
     /\ Together!Init
     /\ NoSharedCache
     /\ Streams!Init
     /\ Fetched!Init
     /\ Progress!Init
     /\ Init
  \/ /\ part = "muxed"
     /\ Streams!Init
     /\ NoSharedCache
     /\ NoExploreFeed
     /\ Fetched!Init
     /\ Progress!Init
     /\ Init
  \/ /\ part = "fragments"
     /\ Fragments!Init
     /\ NoSharedCache
     /\ NoExploreFeed
     /\ Fetched!Init
     /\ Progress!Init
     /\ Init
  \/ /\ part = "posts"
     /\ Fetched!Init
     /\ NoSharedCache
     /\ NoExploreFeed
     /\ Streams!Init
     /\ Progress!Init
     /\ Init
  \/ /\ part = "stops"
     /\ Stopped!Init
     /\ NoSharedCache
     /\ NoExploreFeed
     /\ Streams!Init
     /\ Progress!Init
     /\ Init
  \/ /\ part = "progress"
     /\ Progress!Init
     /\ NoSharedCache
     /\ NoExploreFeed
     /\ Streams!Init
     /\ Fetched!Init
     /\ Init
MCNext ==
  /\ UNCHANGED part
  /\ \/ /\ part = "flight" /\ Next
        /\ UNCHANGED <<sharedCacheVars, exploreFeedVars, hlsAppendsVars,
                     localDownloadsVars, downloadProgressVars>>
     \/ /\ part = "cache" /\ Cache!Next
        /\ UNCHANGED <<exploreFeedVars, hlsAppendsVars, localDownloadsVars,
                     downloadProgressVars, vars>>
     \/ /\ part = "limits" /\ Limits!Next
        /\ UNCHANGED <<exploreFeedVars, hlsAppendsVars, localDownloadsVars,
                     downloadProgressVars, vars>>
     \/ /\ part = "ranking" /\ Ranked!Next
        /\ UNCHANGED <<sharedCacheVars, hlsAppendsVars, localDownloadsVars,
                     downloadProgressVars, vars>>
     \/ /\ part = "apart" /\ Apart!Next
        /\ UNCHANGED <<sharedCacheVars, hlsAppendsVars, localDownloadsVars,
                     downloadProgressVars, vars>>
     \/ /\ part = "together" /\ Together!Next
        /\ UNCHANGED <<sharedCacheVars, hlsAppendsVars, localDownloadsVars,
                     downloadProgressVars, vars>>
     \/ /\ part = "muxed" /\ Streams!Next
        /\ UNCHANGED <<sharedCacheVars, exploreFeedVars,
                     localDownloadsVars, downloadProgressVars, vars>>
     \/ /\ part = "fragments" /\ Fragments!Next
        /\ UNCHANGED <<sharedCacheVars, exploreFeedVars,
                     localDownloadsVars, downloadProgressVars, vars>>
     \/ /\ part = "posts" /\ Fetched!Next
        /\ UNCHANGED <<sharedCacheVars, exploreFeedVars, hlsAppendsVars,
                     downloadProgressVars, vars>>
     \/ /\ part = "stops" /\ Stopped!Next
        /\ UNCHANGED <<sharedCacheVars, exploreFeedVars, hlsAppendsVars,
                     downloadProgressVars, vars>>
     \/ /\ part = "progress" /\ Progress!Next
        /\ UNCHANGED <<sharedCacheVars, exploreFeedVars, hlsAppendsVars,
                     localDownloadsVars, vars>>
MCVars == <<sharedCacheVars, exploreFeedVars, hlsAppendsVars,
            localDownloadsVars, downloadProgressVars, vars, part>>
StepIn(name, A, rest) ==
  part = name /\ A /\ UNCHANGED <<part, rest>>
MCSpec ==
  /\ MCInit /\ [][MCNext]_MCVars
  /\ \A r \in Requests : WF_MCVars(
       StepIn("flight", Step(r),
              <<sharedCacheVars, exploreFeedVars, hlsAppendsVars,
                localDownloadsVars, downloadProgressVars>>))

(* See SharedCache: the local map keeps its limits, and what a process has  *)
(* replaced does not come back.  See ExploreFeed: the feed in that cache is *)
(* built once, obeys the user's choices and is dropped when they change.    *)
CacheSafe ==
  CASE part = "limits" -> Limits!CacheSafe
    [] part = "cache" -> Cache!CacheSafe
    [] part = "ranking" -> Ranked!TypeOK /\ Ranked!ExploreSafe
    [] part = "apart" -> Apart!TypeOK /\ Apart!ExploreSafe
    [] part = "together" -> Together!TypeOK /\ Together!ExploreSafe
    [] OTHER -> TRUE
(* See HlsAppends: no transaction acts after its epoch, and what counts as   *)
(* appended is in the buffers.  See LocalDownloads and DownloadProgress: what *)
(* ends settles the row, the reservation and the cap.                       *)
MediaSafe ==
  CASE part = "muxed" -> Streams!TypeOK /\ Streams!HlsAppendsSafe
    [] part = "fragments" -> Fragments!HlsAppendsSafe
    [] part = "posts" -> Fetched!TypeOK /\ Fetched!LocalDownloadsSafe
    [] part = "stops" -> Stopped!TypeOK /\ Stopped!LocalDownloadsSafe
    [] part = "progress" ->
         Progress!TypeOK /\ Progress!DownloadProgressSafe
    [] OTHER -> TRUE
=============================================================================
