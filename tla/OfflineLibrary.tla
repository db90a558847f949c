--------------------------- MODULE OfflineLibrary ---------------------------
(* The videos a browser keeps for use without a network: a tab copies the   *)
(* formats of a video into IndexedDB, chunk by chunk (app.js,               *)
(* idb-helpers.js), the service worker keeps the page and the manifest and  *)
(* answers media requests from the chunks (sw.js).  A copy that is broken   *)
(* off is taken up again where its metadata says.                           *)
EXTENDS Integers, Sequences, FiniteSets

CONSTANTS Preps,         \* preparations of the video
          TabOf,         \* [preparation -> tab]
          Formats,
          Size,          \* [format -> bytes]
          MetaInterval,  \* chunks between two writes of the metadata
          MaxFaults, MaxDeletes

VARIABLES chunks,    \* [format -> [index -> bytes it holds, from and to]]
          meta,      \* [format -> metadata]
          catalog,   \* the library's entry of the video
          bundle,    \* page and manifest are in the offline cache
          known,     \* [format -> metadata the worker remembers, in a set]
          deleting,  \* where the worker is with a deletion
          lock,      \* the preparation that has the lock
          prep,      \* [preparation -> where it is]
          copy,      \* [preparation, format -> a copy under way]
          faults, deletes,
          torn       \* the video was deleted during a preparation, or a copy
                     \* left from a failed one spoiled what was done

vars == <<chunks, meta, catalog, bundle, known, deleting, lock, prep, copy,
          faults, deletes, torn>>

ChunkSize == 2
NewMeta == [there |-> TRUE, done |-> FALSE, chunks |-> 0]
NoMeta == [NewMeta EXCEPT !.there = FALSE]
Nobody == "nobody"
NoChunks == [i \in {} |-> <<>>]
Idle == [pc |-> "no", at |-> 0, from |-> 0, since |-> 0]

Whole(f) == (Size[f] + ChunkSize - 1) \div ChunkSize
Least(a, b) == IF a < b THEN a ELSE b
Part(f, i) == <<i * ChunkSize, Least((i + 1) * ChunkSize, Size[f])>>

Init ==
  /\ chunks = [f \in Formats |-> NoChunks] /\ meta = [f \in Formats |-> NoMeta]
  /\ catalog = "absent" /\ bundle = FALSE
  /\ known = [f \in Formats |-> {}] /\ deleting = "no"
  /\ lock = Nobody /\ prep = [p \in Preps |-> "new"]
  /\ copy = [p \in Preps |-> [f \in Formats |-> Idle]]
  /\ faults = 0 /\ deletes = 0 /\ torn = FALSE

Fault == faults < MaxFaults /\ faults' = faults + 1
Forget(S) == known' = [f \in Formats |-> IF f \in S THEN {} ELSE known[f]]

-----------------------------------------------------------------------------
(* A tab prepares a video once at a time, and one tab does.                 *)
Ended == {"new", "prepared", "failed"}

PrepareForOffline == \E p \in Preps :
  /\ prep[p] = "new"
  /\ \A q \in Preps \ {p} : TabOf[q] = TabOf[p] => prep[q] \in Ended
  /\ prep' = [prep EXCEPT ![p] = "waits"]
  /\ UNCHANGED <<chunks, meta, catalog, bundle, known, deleting, lock, copy,
                 faults, deletes, torn>>

(* Fault: tabs do not wait for each other.                                  *)
WithOfflinePreparationLock_Fault(p) == TRUE

WithOfflinePreparationLock(p) == lock = Nobody

PreparationBegins == \E p \in Preps :
  /\ prep[p] = "waits" /\ WithOfflinePreparationLock(p)
  /\ lock' = p
  /\ prep' = [prep EXCEPT ![p] = "copies"]
  /\ copy' = [copy EXCEPT ![p] = [f \in Formats |->
                                   [Idle EXCEPT !.pc = "asks"]]]
  /\ UNCHANGED <<chunks, meta, catalog, bundle, known, deleting, faults,
                 deletes, torn>>

Set(p, f, c) == copy' = [copy EXCEPT ![p][f] = c]

(* downloadFormatToIDB: done already, or from where the metadata says.      *)
ReadsMeta == \E p \in Preps, f \in Formats :
  LET m == meta[f] IN
  /\ copy[p][f].pc = "asks"
  /\ Set(p, f, IF m.done THEN [Idle EXCEPT !.pc = "done"]
               ELSE [Idle EXCEPT !.pc = "requests",
                       !.at = m.chunks])
  /\ UNCHANGED <<chunks, meta, catalog, bundle, known, deleting, lock, prep,
                 faults, deletes, torn>>

(* A server that ignores the range begins at the start.                     *)
(* Fault: what it sends is appended.                                        *)
RangeIgnored_Fault(c) == [c EXCEPT !.pc = "reads", !.from = 0]

RangeIgnored(c) == [c EXCEPT !.pc = "clears"]

ServerAnswers == \E p \in Preps, f \in Formats :
  LET c == copy[p][f]
      offset == c.at * ChunkSize IN
  /\ c.pc = "requests"
  /\ \/ /\ offset < Size[f]
        /\ Set(p, f, [c EXCEPT !.pc = IF c.at = 0 THEN "begins" ELSE "reads",
                               !.from = offset])
        /\ UNCHANGED faults
     \/ /\ c.at > 0 /\ Fault /\ Set(p, f, RangeIgnored(c))
     \/ /\ offset >= Size[f] /\ Set(p, f, [c EXCEPT !.pc = "failed"])
        /\ UNCHANGED faults
  /\ UNCHANGED <<chunks, meta, catalog, bundle, known, deleting, lock, prep,
                 deletes, torn>>

(* A copy of an earlier attempt may still write the format, or have ended.  *)
Written(f, except) == \E p \in Preps \ except :
  copy[p][f].pc \notin {"no", "done", "failed"}

DeleteFormat == \E p \in Preps, f \in Formats :
  /\ copy[p][f].pc = "clears"
  /\ chunks' = [chunks EXCEPT ![f] = NoChunks]
  /\ meta' = [meta EXCEPT ![f] = NoMeta]
  /\ Set(p, f, [Idle EXCEPT !.pc = "asks"])
  /\ torn' = (torn \/ Written(f, {p}) \/ meta[f].done)
  /\ UNCHANGED <<catalog, bundle, known, deleting, lock, prep, faults,
                 deletes>>

(* Metadata that says done is taken back by a copy left from an attempt     *)
(* that failed.                                                             *)
TakesBack(f) == torn' = (torn \/ meta[f].done)

PutsFirstMeta == \E p \in Preps, f \in Formats :
  /\ copy[p][f].pc = "begins"
  /\ meta' = [meta EXCEPT ![f] = NewMeta]
  /\ TakesBack(f)
  /\ Set(p, f, [copy[p][f] EXCEPT !.pc = "reads"])
  /\ UNCHANGED <<chunks, catalog, bundle, known, deleting, lock, prep, faults,
                 deletes>>

(* flushChunk: a full chunk, or what is left at the end of the body; every  *)
(* few chunks the metadata counts them.                                     *)
Left(f, c) == Size[f] - c.from
AfterChunk(f, c) == IF c.since + 1 >= MetaInterval THEN "counts"
                    ELSE IF Left(f, c) <= ChunkSize THEN "ends" ELSE "reads"

PutChunk == \E p \in Preps, f \in Formats :
  LET c == copy[p][f]
      to == c.from + Least(ChunkSize, Left(f, c)) IN
  /\ c.pc = "reads" /\ Left(f, c) > 0
  /\ chunks' = [chunks EXCEPT ![f] =
       [i \in DOMAIN @ \cup {c.at} |->
          IF i = c.at THEN <<c.from, to>> ELSE @[i]]]
  /\ Set(p, f, [c EXCEPT !.at = @ + 1, !.from = to, !.since = @ + 1,
                         !.pc = AfterChunk(f, c)])
  /\ UNCHANGED <<meta, catalog, bundle, known, deleting, lock, prep, faults,
                 deletes, torn>>

PutMeta == \E p \in Preps, f \in Formats :
  LET c == copy[p][f] IN
  /\ c.pc \in {"counts", "ends"}
  /\ meta' = [meta EXCEPT ![f] =
                [NewMeta EXCEPT !.done = c.pc = "ends", !.chunks = c.at]]
  /\ IF c.pc = "ends" THEN UNCHANGED torn ELSE TakesBack(f)
  /\ Set(p, f, [c EXCEPT !.since = 0,
                  !.pc = IF @ = "ends" THEN "done"
                         ELSE IF Left(f, c) = 0 THEN "ends" ELSE "reads"])
  /\ UNCHANGED <<chunks, catalog, bundle, known, deleting, lock, prep, faults,
                 deletes>>

(* The connection or the database fails: the copy stays for the next time.  *)
CopyFails == \E p \in Preps, f \in Formats :
  /\ copy[p][f].pc \in {"asks", "requests", "begins", "reads", "counts", "ends"}
  /\ Fault /\ Set(p, f, [copy[p][f] EXCEPT !.pc = "failed"])
  /\ UNCHANGED <<chunks, meta, catalog, bundle, known, deleting, lock, prep,
                 deletes, torn>>

(* All formats first, then page and manifest, then the entry.               *)
CopiesAre(p, pcs) == \A f \in Formats : copy[p][f].pc \in pcs

CacheOfflineBundle == \E p \in Preps :
  /\ prep[p] = "copies" /\ CopiesAre(p, {"done"})
  /\ Forget(Formats) /\ prep' = [prep EXCEPT ![p] = "bundles"]
  /\ UNCHANGED <<chunks, meta, catalog, bundle, deleting, lock, copy, faults,
                 deletes, torn>>

BundleIsCached == \E p \in Preps :
  /\ prep[p] = "bundles" /\ bundle' = TRUE
  /\ torn' = (torn \/ deleting # "no")
  /\ prep' = [prep EXCEPT ![p] = "marks"] /\ lock' = Nobody
  /\ UNCHANGED <<chunks, meta, catalog, known, deleting, copy, faults,
                 deletes>>

SetDownloadPrepared == \E p \in Preps :
  /\ prep[p] = "marks" /\ catalog' = "prepared"
  /\ prep' = [prep EXCEPT ![p] = "prepared"]
  /\ UNCHANGED <<chunks, meta, bundle, known, deleting, lock, copy, faults,
                 deletes, torn>>

(* The first format that fails ends the preparation; the copy of another    *)
(* goes on by itself, and the lock is free.                                 *)
PreparationFails == \E p \in Preps :
  /\ \/ prep[p] = "copies" /\ UNCHANGED faults
        /\ \E f \in Formats : copy[p][f].pc = "failed"
     \/ prep[p] = "bundles" /\ Fault
  /\ prep' = [prep EXCEPT ![p] = "failed"]
  /\ lock' = IF lock = p THEN Nobody ELSE lock
  /\ UNCHANGED <<chunks, meta, catalog, bundle, known, deleting, copy,
                 deletes, torn>>

TabCloses == \E t \in {TabOf[p] : p \in Preps} :
  LET its == {p \in Preps : TabOf[p] = t} IN
  /\ \E p \in its : prep[p] \notin Ended
  /\ Fault
  /\ prep' = [p \in Preps |-> IF p \in its /\ prep[p] \notin Ended THEN "failed"
                              ELSE prep[p]]
  /\ copy' = [p \in Preps |-> IF p \in its THEN [f \in Formats |-> Idle]
                              ELSE copy[p]]
  /\ lock' = IF lock \in its THEN Nobody ELSE lock
  /\ UNCHANGED <<chunks, meta, catalog, bundle, known, deleting, deletes,
                 torn>>

-----------------------------------------------------------------------------
(* The worker: getOfflineFormatMeta remembers what it looked up, and a      *)
(* deletion forgets it before and after.                                    *)
GetOfflineFormatMeta == \E f \in Formats :
  /\ known[f] = {} /\ known' = [known EXCEPT ![f] = {meta[f]}]
  /\ UNCHANGED <<chunks, meta, catalog, bundle, deleting, lock, prep, copy,
                 faults, deletes, torn>>

(* Remembered metadata is dropped after a while, or the worker stops.       *)
MetaExpires == \E f \in Formats :
  /\ known[f] # {} /\ Forget({f})
  /\ UNCHANGED <<chunks, meta, catalog, bundle, deleting, lock, prep, copy,
                 faults, deletes, torn>>

DeleteOfflineVideo ==
  /\ deleting = "no" /\ deletes < MaxDeletes
  /\ deletes' = deletes + 1 /\ Forget(Formats)
  /\ deleting' = "erasing"
  /\ UNCHANGED <<chunks, meta, catalog, bundle, lock, prep, copy, faults,
                 torn>>

DeleteAllForVideo ==
  /\ deleting = "erasing" /\ deleting' = "erased"
  /\ chunks' = [f \in Formats |-> NoChunks]
  /\ meta' = [f \in Formats |-> NoMeta]
  /\ catalog' = "absent"
  /\ torn' = (torn \/ \E p \in Preps :
                         prep[p] \in {"copies", "bundles", "marks"}
                     \/ \E f \in Formats : Written(f, {}))
  /\ UNCHANGED <<bundle, known, lock, prep, copy, faults, deletes>>

(* Fault: what was looked up meanwhile is kept.                             *)
ForgottenAtLast_Fault == {}

ForgottenAtLast == Formats

DeletionEnds ==
  /\ deleting = "erased" /\ deleting' = "no"
  /\ Forget(ForgottenAtLast) /\ bundle' = FALSE
  /\ UNCHANGED <<chunks, meta, catalog, lock, prep, copy, faults, deletes,
                 torn>>

Next == \/ PrepareForOffline \/ PreparationBegins \/ ReadsMeta \/ ServerAnswers
        \/ DeleteFormat \/ PutsFirstMeta \/ PutChunk \/ PutMeta
        \/ CopyFails \/ CacheOfflineBundle \/ BundleIsCached
        \/ SetDownloadPrepared \/ PreparationFails \/ TabCloses
        \/ GetOfflineFormatMeta \/ MetaExpires
        \/ DeleteOfflineVideo \/ DeleteAllForVideo \/ DeletionEnds

Spec == Init /\ [][Next]_vars

-----------------------------------------------------------------------------
TypeOK == /\ \A f \in Formats : DOMAIN chunks[f] \subseteq 0 .. Whole(f)
          /\ lock \in Preps \cup {Nobody}

(* The chunks that the metadata counts are there and hold the bytes that    *)
(* belong there; a copy that is done is the whole file.  The exception is a *)
(* deletion under a copy (the tab goes on with the next chunk) and a copy   *)
(* that an attempt which failed left behind: see torn.                      *)
ChunksAreRight == torn \/ \A f \in Formats :
  LET m == meta[f] IN
    /\ \A i \in 0 .. m.chunks - 1 :
         i \in DOMAIN chunks[f] /\ chunks[f][i] = Part(f, i)
    /\ m.done => m.chunks = Whole(f)

(* A video shown as available offline can be played: all its formats, its   *)
(* page and its manifest are there, and the worker knows.                   *)
PreparedIsPlayable == torn \/ deleting # "no" \/ (catalog = "prepared" =>
  bundle /\ \A f \in Formats :
    meta[f].done /\ known[f] \subseteq {meta[f]})

(* What the worker answers from its chunks is the file, and it does not     *)
(* answer from a copy that has been deleted.                                *)
Entire(f) == \A i \in 0 .. Whole(f) - 1 :
               i \in DOMAIN chunks[f] /\ chunks[f][i] = Part(f, i)

NoGhosts == torn \/ deleting # "no" \/ \A f \in Formats :
  \A m \in known[f] : m.done => Entire(f)

(* Two copies write the same format only if one is left from an attempt     *)
(* that failed.                                                             *)
OneWriter == \A f \in Formats : Cardinality({p \in Preps :
  prep[p] # "failed" /\ copy[p][f].pc \notin {"no", "done", "failed"}}) <= 1

OfflineSafe == /\ TypeOK /\ ChunksAreRight /\ PreparedIsPlayable /\ NoGhosts
               /\ OneWriter
=============================================================================
