--------------------------- MODULE LocalDownloads ---------------------------
(* Downloads of one video inside the web process, as it does without a      *)
(* queue: POST /cache starts one download per missing format, each runs on  *)
(* its own, and whoever ends last settles the row and frees the             *)
(* reservation.  Each file has one byte.                                    *)
EXTENDS Integers, Sequences, FiniteSets, FiniteSetsExt

CONSTANTS Formats,          \* the best video and the best audio
          Posts,            \* calls of POST /cache
          MaxActive,        \* MAX_BG_DOWNLOADS
          MaxTasks, MaxOther, MaxStops, MaxErrors

VARIABLES dl, post, row, other, undo, odd, left
vars == <<dl, post, row, other, undo, odd, left>>

Ids == 1 .. Len(dl.task)
Unfinished(d) == {f \in Formats : d.index[f] # 0 /\ ~d.task[d.index[f]].done}
Indexed(d) == {f \in Formats : d.index[f] # 0}

(* odd: what happened that the code has no answer to.                       *)
Init ==
  /\ dl = [index |-> [f \in Formats |-> 0], active |-> 0, needs |-> {},
           release |-> 0, reserved |-> {}, part |-> {}, file |-> {},
           recorded |-> {}, bytes |-> 0, task |-> <<>>]
  /\ post = [p \in Posts |-> [at |-> "idle", pending |-> {}]]
  /\ row = "none" /\ other = 0 /\ undo = "none" /\ odd = {}
  /\ left = [other |-> MaxOther, stops |-> MaxStops, errors |-> MaxErrors]

At(d, i, at) == [d EXCEPT !.task[i].at = at]

(* Fault: the reservation is forgotten, not freed. *)
ReleaseStorage_Fault(d) == [d EXCEPT !.release = 0]

ReleaseStorage(d) ==
  [d EXCEPT !.release = 0, !.reserved = @ \ {d.release}]

(* Fault: the counter keeps a download that is taken out. *)
Unindex_Fault(d, f) == [d EXCEPT !.index[f] = 0]

Unindex(d, f) ==
  [d EXCEPT !.index[f] = 0,
            !.active = IF f \in Unfinished(d) THEN @ - 1 ELSE @]

(* An unfinished file goes, whether it has its last name or not.            *)
Unlinked(d, i) ==
  LET t == d.task[i] IN
  IF t.done THEN d
  ELSE [d EXCEPT !.part = @ \ {i},
                 !.file = IF t.named THEN @ \ {t.format} ELSE @,
                 !.bytes = @ - (IF t.counted /\ t.named /\ t.format \in d.file
                                THEN 1 ELSE 0),
                 !.task[i].counted = FALSE, !.task[i].stopped = TRUE]

(* By its key: whoever is in the index now.                                 *)
Cleanup(d, f) ==
  IF d.index[f] = 0 THEN d
  ELSE LET e == Unindex(Unlinked(d, d.index[f]), f) IN
       IF Indexed(e) # {} THEN e ELSE ReleaseStorage([e EXCEPT !.needs = {}])

CleanupAll(d, F) == FoldSet(LAMBDA f, e : Cleanup(e, f), d, F)

(* What is past its file is not stopped by a cleanup: it goes on to record  *)
(* the file, or to complete a row that may be another's by then.            *)
Overtaken(F) ==
  LET hit == {dl.task[dl.index[f]] : f \in F \cap Indexed(dl)}
      HitAt(A) == \E t \in hit : t.at \in A
  IN (IF HitAt({"bytes", "record"}) THEN {"overtaken"} ELSE {})
     \cup (IF HitAt({"flush", "complete"}) THEN {"late"} ELSE {})
     \cup (IF \E t \in hit : t.at = "failed" /\ t.again /\ ~t.counted
           THEN {"miscounted"} ELSE {})

-----------------------------------------------------------------------------
(* One download.                                                            *)

MayFail(i, A) ==
  \/ A
  \/ /\ left.errors > 0 /\ left' = [left EXCEPT !.errors = @ - 1]
     /\ dl' = At(dl, i, "failed") /\ row' = row

Arrives(i) ==
  /\ dl.task[i].at = "fetch"
  /\ IF dl.task[i].stopped
     THEN dl' = At(dl, i, "aborted") /\ UNCHANGED <<row, left>>
     ELSE MayFail(i, /\ dl' = [At(dl, i, "rename") EXCEPT !.part = @ \cup {i}]
                     /\ UNCHANGED <<row, left>>)
  /\ UNCHANGED <<post, other, undo, odd>>

Rename(i) ==
  LET f == dl.task[i].format IN
  /\ dl.task[i].at = "rename"
  /\ dl' = IF i \notin dl.part THEN At(dl, i, "failed")
           ELSE [At(dl, i, "bytes") EXCEPT
                   !.part = @ \ {i}, !.file = @ \cup {f},
                   !.task[i].named = TRUE, !.task[i].again = f \in dl.file]
  /\ UNCHANGED <<post, row, other, undo, odd, left>>

(* Fault: a file that replaces another is counted again. *)
Added_Fault(t) == 1

Added(t) == IF t.again THEN 0 ELSE 1

AdjustBytes(i) ==
  /\ dl.task[i].at = "bytes"
  /\ MayFail(i, /\ dl' = [At(dl, i, "record") EXCEPT
                             !.bytes = @ + Added(dl.task[i]),
                             !.task[i].counted = TRUE]
                /\ UNCHANGED <<row, left>>)
  /\ UNCHANGED <<post, other, undo, odd>>

Record(i) ==
  /\ dl.task[i].at = "record"
  /\ dl' = [At(dl, i, "flush") EXCEPT
             !.recorded = @ \cup {dl.task[i].format}, !.task[i].done = TRUE,
             !.active = IF @ > 0 THEN @ - 1 ELSE 0]
  /\ UNCHANGED <<post, row, other, undo, odd, left>>

(* Fault: what is not in the index counts as done. *)
AllFormatsDone_Fault(d) == Unfinished(d) = {}

AllFormatsDone(d) ==
  IF d.needs # {}
  THEN \A f \in d.needs : d.index[f] # 0 /\ d.task[d.index[f]].done
  ELSE Unfinished(d) = {}

(* The last progress is written; then it is the others' turn, or the end.   *)
Flushed(i) ==
  /\ dl.task[i].at = "flush"
  /\ MayFail(i, /\ dl' = IF AllFormatsDone(dl) THEN At(dl, i, "complete")
                         ELSE IF Unfinished(dl) = {}
                         THEN ReleaseStorage(At(dl, i, "end"))
                         ELSE At(dl, i, "end")
                /\ UNCHANGED <<row, left>>)
  /\ UNCHANGED <<post, other, undo, odd>>

CompleteDownload(i) ==
  /\ dl.task[i].at = "complete"
  /\ MayFail(i, /\ dl' = ReleaseStorage([At(dl, i, "end") EXCEPT !.needs = {}])
                /\ row' = IF row = "none" THEN row ELSE "complete"
                /\ UNCHANGED left)
  /\ UNCHANGED <<post, other, undo, odd>>

(* Whatever failed, the record of a counted file is taken back.             *)
CatchEnds(i) ==
  LET t == dl.task[i]
      j == dl.index[t.format]
      d == [At(dl, i, "end") EXCEPT
              !.recorded = IF t.counted THEN @ \ {t.format} ELSE @]
  IN /\ t.at \in {"failed", "aborted"}
     /\ row' = IF t.at = "failed" /\ row # "none" THEN "error" ELSE row
     /\ dl' = Cleanup(d, t.format)
     /\ odd' = odd \cup Overtaken(IF i = j THEN {} ELSE {t.format})
               \cup (IF j \notin {0, i} THEN {"killed"} ELSE {})
               \cup (IF t.done THEN {"undone"} ELSE {})
               \cup (IF t.again /\ ~t.counted THEN {"miscounted"} ELSE {})
     /\ UNCHANGED <<post, other, undo, left>>

-----------------------------------------------------------------------------
(* POST /cache.                                                             *)

Step(p, at) == post' = [post EXCEPT ![p].at = at]

ListFormats(p) ==
  LET pending == Formats \ (dl.recorded \cup Indexed(dl)) IN
  /\ post[p].at = "idle"
  /\ post' = [post EXCEPT ![p].at = IF pending = {} THEN "end" ELSE "check",
                          ![p].pending = pending]
  /\ UNCHANGED <<dl, row, other, undo, odd, left>>

Reserve(p) ==
  /\ post[p].at = "check"
  /\ IF Cardinality(post[p].pending) > MaxActive - dl.active
     THEN Step(p, "end") /\ UNCHANGED <<dl, left>>
     ELSE \/ /\ Step(p, "upsert") /\ UNCHANGED left
             /\ dl' = [dl EXCEPT !.reserved = @ \cup {p}]
          \/ /\ left.errors > 0 /\ left' = [left EXCEPT !.errors = @ - 1]
             /\ Step(p, "end") /\ UNCHANGED dl
  /\ UNCHANGED <<row, other, undo, odd>>

UpsertDownload(p) ==
  /\ post[p].at = "upsert"
  /\ \/ Step(p, "release") /\ row' = "downloading" /\ UNCHANGED <<dl, left>>
     \/ /\ left.errors > 0 /\ left' = [left EXCEPT !.errors = @ - 1]
        /\ Step(p, "end") /\ row' = row
        /\ dl' = [dl EXCEPT !.reserved = @ \ {p}]
  /\ UNCHANGED <<other, undo, odd>>

ReleaseOlder(p) ==
  /\ post[p].at = "release" /\ Step(p, "start")
  /\ dl' = ReleaseStorage(dl)
  /\ UNCHANGED <<row, other, undo, odd, left>>

NewTask(f) ==
  [format |-> f, at |-> "fetch", named |-> FALSE, again |-> FALSE,
   counted |-> FALSE, done |-> FALSE, stopped |-> FALSE]

(* Fault: the cap is not asked. *)
MayStart_Fault(d) == TRUE

MayStart(d) == d.active < MaxActive

(* A format in the index counts as started, whoever started it.             *)
StartBgDownload(r, f) ==
  IF r.full \/ f \in r.started THEN r
  ELSE IF r.d.index[f] # 0 THEN [r EXCEPT !.started = @ \cup {f}]
  ELSE IF ~MayStart(r.d) THEN [r EXCEPT !.full = TRUE]
  ELSE [r EXCEPT !.started = @ \cup {f},
                 !.d.task = Append(@, NewTask(f)),
                 !.d.index[f] = Len(r.d.task) + 1,
                 !.d.active = @ + 1]

Start(p) ==
  LET pending == post[p].pending
      begun == [d |-> [dl EXCEPT !.release = p, !.needs = pending],
                started |-> {}, full |-> FALSE]
      r == FoldSet(LAMBDA f, q : StartBgDownload(q, f), begun, pending)
  IN /\ post[p].at = "start" /\ Step(p, "end")
     /\ Len(dl.task) + Cardinality(pending \ Indexed(dl)) <= MaxTasks
     /\ dl' = IF r.full THEN CleanupAll(r.d, r.started) ELSE r.d
     /\ row' = IF r.full /\ row # "none" THEN "error" ELSE row
     /\ odd' = odd
          \cup (IF r.full THEN Overtaken(r.started) ELSE {})
          \cup (IF dl.release # 0 THEN {"overwritten"} ELSE {})
          \cup (IF r.full /\ r.started = {} /\ Indexed(dl) = {}
                THEN {"stranded"} ELSE {})
          \cup (IF Unfinished(r.d) = {} THEN {"joined"} ELSE {})
          \cup (IF Formats \subseteq pending \cup dl.recorded THEN {}
                ELSE {"partial"})
     /\ UNCHANGED <<other, undo, left>>

-----------------------------------------------------------------------------
(* Deletion, the sweep of what is too old, and other videos.                *)

CleanupVideo ==
  /\ undo = "none" /\ left.stops > 0
  /\ left' = [left EXCEPT !.stops = @ - 1] /\ undo' = "files"
  /\ dl' = CleanupAll(dl, Formats) /\ odd' = odd \cup Overtaken(Formats)
  /\ UNCHANGED <<post, row, other>>

DeleteFiles ==
  /\ undo = "files" /\ undo' = "row"
  /\ dl' = [dl EXCEPT !.bytes = @ - Cardinality(dl.recorded \cap dl.file),
                      !.file = @ \ dl.recorded, !.recorded = {}]
  /\ odd' = odd
       \cup (IF \E i \in Ids : dl.task[i].at # "end" /\ ~dl.task[i].stopped
             THEN {"late"} ELSE {})
       \cup (IF \E i \in Ids : /\ dl.task[i].at \in {"bytes", "record", "failed"}
                              /\ dl.task[i].format \in dl.recorded
             THEN {"overtaken"} ELSE {})
  /\ UNCHANGED <<post, row, other, left>>

DeleteRow ==
  /\ undo = "row" /\ undo' = "none" /\ row' = "none"
  /\ UNCHANGED <<dl, post, other, odd, left>>

EvictStuck(f) ==
  /\ f \in Unfinished(dl) /\ left.stops > 0
  /\ left' = [left EXCEPT !.stops = @ - 1]
  /\ dl' = Cleanup(dl, f) /\ odd' = odd \cup {"evicted"} \cup Overtaken({f})
  /\ UNCHANGED <<post, row, other, undo>>

OtherStarts ==
  /\ left.other > 0 /\ MayStart(dl)
  /\ left' = [left EXCEPT !.other = @ - 1] /\ other' = other + 1
  /\ dl' = [dl EXCEPT !.active = @ + 1]
  /\ UNCHANGED <<post, row, undo, odd>>

OtherEnds ==
  /\ other > 0 /\ other' = other - 1
  /\ dl' = [dl EXCEPT !.active = IF @ > 0 THEN @ - 1 ELSE 0]
  /\ UNCHANGED <<post, row, undo, odd, left>>

Next ==
  \/ \E i \in Ids : \/ Arrives(i) \/ Rename(i) \/ AdjustBytes(i) \/ Record(i)
                    \/ Flushed(i) \/ CompleteDownload(i) \/ CatchEnds(i)
  \/ \E p \in Posts : \/ ListFormats(p) \/ Reserve(p) \/ UpsertDownload(p)
                      \/ ReleaseOlder(p) \/ Start(p)
  \/ CleanupVideo \/ DeleteFiles \/ DeleteRow
  \/ \E f \in Formats : EvictStuck(f)
  \/ OtherStarts \/ OtherEnds

Spec == Init /\ [][Next]_vars

-----------------------------------------------------------------------------
(* Properties.                                                              *)

TypeOK ==
  /\ dl.release \in Posts \cup {0} /\ dl.reserved \subseteq Posts
  /\ dl.active \in Int /\ dl.bytes \in Int
  /\ row \in {"none", "downloading", "complete", "error"}

AtRest ==
  /\ \A i \in Ids : dl.task[i].at = "end"
  /\ \A p \in Posts : post[p].at \in {"idle", "end"}
  /\ undo = "none"

(* The counter of the cap is the number of downloads that are in the index  *)
(* and not done, and never above it, unless one was taken out while it      *)
(* ended.                                                                   *)
CounterExact ==
  "overtaken" \notin odd =>
    /\ dl.active = other + Cardinality(Unfinished(dl))
    /\ dl.active <= MaxActive

(* What is recorded is on the disk, and the library's bytes are those of    *)
(* the files, but for files that are just being counted.                    *)
FilesTold ==
  odd \cap {"overtaken", "miscounted"} = {} =>
    /\ dl.recorded \subseteq dl.file
    /\ LET uncounted == {i \in Ids : /\ dl.task[i].named /\ ~dl.task[i].again
                                     /\ dl.task[i].at \in {"bytes", "failed"}
                                     /\ ~dl.task[i].counted
                                     /\ dl.index[dl.task[i].format] = i}
       IN dl.bytes + Cardinality(uncounted) = Cardinality(dl.file)

(* Room is reserved as long as a download runs, whatever ends beside it.    *)
(* What is reserved can always be freed by somebody, unless two POSTs that  *)
(* began together overwrote each other's; and it is free when no download   *)
(* is known any more, unless a POST found no place to start anything.       *)
RoomIsReserved ==
  /\ odd = {} /\ Unfinished(dl) # {} => dl.reserved # {}
  /\ "overwritten" \notin odd =>
       dl.reserved \subseteq {dl.release} \cup
         {p \in Posts : post[p].at \in {"upsert", "release", "start"}}
  /\ AtRest /\ Indexed(dl) = {} /\ odd \cap {"overwritten", "stranded"} = {}
       => dl.reserved = {}

(* A complete row means that both formats can be served; and a row is       *)
(* settled when nothing runs any more.                                      *)
RowTold ==
  odd = {} =>
    /\ row = "complete" /\ undo = "none" => Formats \subseteq dl.recorded
    /\ AtRest => row # "downloading"

LocalDownloadsSafe == CounterExact /\ FilesTold /\ RoomIsReserved /\ RowTold
=============================================================================
