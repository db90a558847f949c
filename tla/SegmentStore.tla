---------------------------- MODULE SegmentStore ----------------------------
(* The media responses a service worker keeps (sw.js): every response that  *)
(* is small enough goes into Cache Storage, and a ledger in memory, read    *)
(* from the cache once in the worker's life, says what is there so that the *)
(* oldest can be removed.  The worker may be stopped between any two steps. *)
EXTENDS Integers, Sequences, FiniteSets, SequencesExt

CONSTANTS Urls,
          Playlists,   \* those of Urls that are playlists
          Fetches,     \* requests answered at the same time: 1 .. n
          MaxCount,    \* responses to keep
          TrimEvery,   \* responses between two trims
          MaxPuts, MaxFaults

VARIABLES cache,    \* the URLs in Cache Storage, oldest first
          ledger,   \* what the worker knows of it, and whether sizes are known
          loading,  \* the ledger: "no", "asked", "listed", "yes"
          listed,   \* the keys that the load got
          task,     \* [request -> what is done with its response]
          removing, \* deletions under way
          puts,     \* responses since the last trim
          served, faults,
          forgot,   \* responses that a stopped worker had counted
          raced     \* URLs whose deletion met a response or a live playlist

vars == <<cache, ledger, loading, listed, task, removing, puts, served, faults,
          forgot, raced>>

Idle == [pc |-> "no", url |-> "none"]
UrlsOf(s) == {s[i].url : i \in DOMAIN s}
Without(s, u) == SelectSeq(s, LAMBDA e : e.url # u)
Kept(s, u) == SelectSeq(s, LAMBDA v : v # u)

Init ==
  /\ cache = <<>> /\ ledger = <<>> /\ loading = "no" /\ listed = <<>>
  /\ task = [f \in Fetches |-> Idle] /\ removing = {} /\ puts = 0
  /\ served = 0 /\ faults = 0 /\ forgot = 0 /\ raced = {}

Fault == faults < MaxFaults /\ faults' = faults + 1
UnderWay(u) == \E f \in Fetches : task[f].url = u

(* A response from the network is to be kept: media not in the cache or     *)
(* asked for afresh, or a playlist that is complete.                        *)
NetworkAnswers == \E f \in Fetches, u \in Urls :
  /\ task[f].pc = "no" /\ \A g \in 1 .. f - 1 : task[g].pc # "no"
  /\ served < MaxPuts
  /\ served' = served + 1
  /\ task' = [task EXCEPT ![f] = [pc |-> "puts", url |-> u]]
  /\ raced' = IF u \in removing THEN raced \cup {u} ELSE raced
  /\ UNCHANGED <<cache, ledger, loading, listed, removing, puts, faults,
                 forgot>>

(* A playlist that is live is not kept, and what was kept of it goes.       *)
PlaylistIsLive == \E u \in Playlists :
  /\ u \in ToSet(cache) /\ served < MaxPuts
  /\ served' = served + 1
  /\ removing' = removing \cup {u} /\ raced' = raced \cup {u}
  /\ UNCHANGED <<cache, ledger, loading, listed, task, puts, faults, forgot>>

PutBoundedMediaResponse == \E f \in Fetches :
  LET u == task[f].url IN
  /\ task[f].pc = "puts"
  /\ \/ /\ cache' = Append(Kept(cache, u), u)
        /\ task' = [task EXCEPT ![f].pc = "stored"]
        /\ UNCHANGED faults
     \/ /\ Fault /\ UNCHANGED cache
        /\ task' = [task EXCEPT ![f] = Idle]
  /\ UNCHANGED <<ledger, loading, listed, removing, puts, served, forgot,
                 raced>>

(* Fault: what an earlier life of the worker kept is not looked up.         *)
LoadSegmentCacheLedger_Fault == IF loading = "no" THEN "yes" ELSE loading

LoadSegmentCacheLedger == IF loading = "no" THEN "asked" ELSE loading

MaybeTrimSegmentCache == \E f \in Fetches :
  /\ task[f].pc = "stored"
  /\ puts' = puts + 1
  /\ loading' = LoadSegmentCacheLedger
  /\ task' = [task EXCEPT ![f].pc = "records"]
  /\ UNCHANGED <<cache, ledger, listed, removing, served, faults, forgot,
                 raced>>

LedgerIsListed ==
  /\ loading = "asked"
  /\ \/ loading' = "listed" /\ listed' = cache /\ UNCHANGED <<faults, task>>
     \/ /\ Fault /\ loading' = "no" /\ UNCHANGED listed
        /\ task' = [f \in Fetches |->
                      IF task[f].pc = "records" THEN Idle ELSE task[f]]
  /\ UNCHANGED <<cache, ledger, removing, puts, served, forgot, raced>>

(* What is gone since has no size, and goes at the next trim.               *)
LedgerIsRead ==
  /\ loading = "listed"
  /\ loading' = "yes" /\ listed' = <<>>
  /\ ledger' = [i \in DOMAIN listed |->
                  [url |-> listed[i], sized |-> listed[i] \in ToSet(cache)]]
  /\ UNCHANGED <<cache, task, removing, puts, served, faults, forgot, raced>>

(* The size of a playlist is the network's, which may not say.              *)
SizesOf(u) == IF u \in Playlists THEN BOOLEAN ELSE {TRUE}

(* Fault: an older entry of the URL stays.                                  *)
RecordSegmentCacheWrite_Fault(u, sized) ==
  Append(ledger, [url |-> u, sized |-> sized])

RecordSegmentCacheWrite(u, sized) ==
  Append(Without(ledger, u), [url |-> u, sized |-> sized])

Records == \E f \in Fetches : \E sized \in SizesOf(task[f].url) :
  /\ task[f].pc = "records" /\ loading = "yes"
  /\ ledger' = RecordSegmentCacheWrite(task[f].url, sized)
  /\ task' = [task EXCEPT ![f] =
                IF puts < TrimEvery THEN Idle ELSE [Idle EXCEPT !.pc = "trims"]]
  /\ puts' = IF puts < TrimEvery THEN puts ELSE 0
  /\ UNCHANGED <<cache, loading, listed, removing, served, faults, forgot,
                 raced>>

(* trimSegmentCache: the oldest, and what has no size, until the rest is    *)
(* within the target; an entry once passed over is not looked at again.     *)
Removable(target) ==
  LET n == Len(ledger)
      gone[i \in 0 .. n] ==
        IF i = 0 THEN {}
        ELSE IF ~ledger[i].sized \/ n - Cardinality(gone[i - 1]) > target
             THEN gone[i - 1] \cup {i} ELSE gone[i - 1]
  IN gone[Len(ledger)]

TrimSegmentCache == \E f \in Fetches : \E pressure \in BOOLEAN :
  LET target == IF pressure THEN (MaxCount * 3) \div 4 ELSE MaxCount
      out == Removable(target)
      urls == {ledger[i].url : i \in out} IN
  /\ task[f].pc = "trims"
  /\ ledger' = SelectSeq(ledger, LAMBDA e : e \notin {ledger[i] : i \in out})
  /\ removing' = removing \cup urls
  /\ raced' = raced \cup {u \in urls : UnderWay(u)}
  /\ task' = [task EXCEPT ![f] = Idle]
  /\ UNCHANGED <<cache, loading, listed, puts, served, faults, forgot>>

Removes == \E u \in removing :
  /\ removing' = removing \ {u}
  /\ cache' = Kept(cache, u)
  /\ UNCHANGED <<ledger, loading, listed, task, puts, served, faults, forgot,
                 raced>>

(* The browser stops the worker; the cache stays.                           *)
WorkerStops ==
  /\ Fault
  /\ forgot' = forgot + puts
       + Cardinality({f \in Fetches : task[f].pc \notin {"no", "records"}})
       + Cardinality(removing)
  /\ ledger' = <<>> /\ loading' = "no" /\ listed' = <<>> /\ puts' = 0
  /\ task' = [f \in Fetches |-> Idle] /\ removing' = {} /\ raced' = {}
  /\ UNCHANGED <<cache, served>>

Next == \/ NetworkAnswers \/ PlaylistIsLive \/ PutBoundedMediaResponse
        \/ MaybeTrimSegmentCache \/ LedgerIsListed \/ LedgerIsRead \/ Records
        \/ TrimSegmentCache \/ Removes \/ WorkerStops

Spec == Init /\ [][Next]_vars

-----------------------------------------------------------------------------
TypeOK == /\ \A f \in Fetches : task[f].url \in Urls \cup {"none"}
          /\ loading \in {"no", "asked", "listed", "yes"}

(* Nothing stays in the cache that the ledger does not know: it would never *)
(* be removed.                                                              *)
NothingEscapes == loading = "yes" =>
  \A u \in ToSet(cache) : u \in UrlsOf(ledger) \/ u \in removing \/ UnderWay(u)

(* The ledger's entries are there, once each, except where a deletion met a *)
(* response for the same URL or was that of a live playlist.                *)
NoPhantoms == loading = "yes" =>
  /\ Cardinality(UrlsOf(ledger)) = Len(ledger)
  /\ \A i \in DOMAIN ledger :
       ledger[i].sized => ledger[i].url \in ToSet(cache) \cup raced

(* When nothing is under way the cache is over its limit by what comes      *)
(* between two trims at most, and by what a stopped worker had counted.     *)
WithinLimit ==
  (\A f \in Fetches : task[f].pc = "no") /\ removing = {}
    => Len(cache) <= MaxCount + TrimEvery + Cardinality(Fetches) - 2 + forgot

StoreSafe == TypeOK /\ NothingEscapes /\ NoPhantoms /\ WithinLimit
=============================================================================
