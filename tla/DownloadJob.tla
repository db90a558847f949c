---------------------------- MODULE DownloadJob ----------------------------
(***************************************************************************)
(* The life of one offline download: the web processes that request it     *)
(* (POST /api/stream/:videoId/cache, enqueueDownload) or delete it (DELETE *)
(* /downloads/:videoId, cleanupVideoDownloads), the queue entry with the   *)
(* deterministic id download:<videoId>, and the worker that runs it        *)
(* (download-worker.ts).  They share the row of the downloads table, the   *)
(* cancel key, the admission lease of the job, the media files and the     *)
(* manifest that names them.  One action is the code between two awaits.   *)
(*                                                                         *)
(* What the queue limits decide is QueueAdmission's subject and what the   *)
(* byte counts decide is DownloadLedger's: here both may refuse.           *)
(***************************************************************************)
EXTENDS Naturals, FiniteSets

CONSTANTS Procs,      \* web processes; each handles one request at a time
          Deleters,   \* those of them that may also serve DELETE
          Formats,    \* formats the player selects for the video
          Leftovers,  \* formats an earlier download may have left on disk
          MaxCrashes, \* bound: deaths of the worker process
          MaxStalls,  \* BullMQ's maxStalledCount
          NoEntry     \* no manifestCache entry

ASSUME JobAssumption ==
  /\ IsFiniteSet(Formats)
  /\ Deleters \subseteq Procs
  /\ Leftovers \subseteq (SUBSET Formats) \ {Formats}
  /\ MaxCrashes \in Nat /\ MaxStalls \in Nat

VARIABLES
  row,      \* status column of the downloads row; "none" when there is none
  cancel,   \* the key download:cancel:<videoId> exists
  job,      \* state of the job in BullMQ
  want,     \* formats in the job's data
  admitted, \* the job's admission lease exists
  files,    \* formats with a final file on disk
  temps,    \* formats with a .part- file on disk
  manifest, \* formats named by the manifest on disk
  cache,    \* each web process's manifestCache entry
  pc,       \* where each web process's handler is
  pend,     \* formats its handler works on
  fresh,    \* its reservation was 'reserved', not 'joined'
  wpc,      \* where the worker's handler is
  running, fetched, committed, \* formats in each stage of processDownload
  mread,    \* manifest as the worker last read it
  aborted,  \* its AbortController has fired
  crashes, stalls,
  deleted,  \* were files deleted, before or since the job started (history)
  overlap   \* a handler has begun while another one was running (history)

queue == <<cancel, job, want, admitted, stalls>>
disk == <<files, temps, manifest>>
web == <<cache, pc, pend, fresh>>
run == <<wpc, running, fetched, committed, mread, aborted, crashes>>
past == <<deleted, overlap>>
worker == <<run, past>>
vars == <<row, queue, disk, web, worker>>

Live == {"waiting", "active"}
ReqSteps == {"upsert", "uncancel", "lookup", "remove", "release", "reserve",
             "add", "refused"}
DelSteps == {"del_lookup", "del_remove", "del_release", "del_list",
             "unlink", "del_manifest", "del_row"}
WorkerSteps == {"start", "fetching", "commit", "record", "complete",
                "rollback", "unread", "unrecord", "fail", "fail_again",
                "release", "return"}

-----------------------------------------------------------------------------
(* The video is new, or an earlier download left some of its formats.      *)
Init ==
  /\ files \in Leftovers
  /\ manifest = files
  /\ row = IF files = {} THEN "none" ELSE "error"
  /\ cancel = FALSE /\ job = "absent" /\ want = {}
  /\ admitted = FALSE
  /\ temps = {}
  /\ cache = [p \in Procs |-> NoEntry]
  /\ pc = [p \in Procs |-> "idle"]
  /\ pend = [p \in Procs |-> {}]
  /\ fresh = [p \in Procs |-> FALSE]
  /\ wpc = "idle"
  /\ running = {} /\ fetched = {} /\ committed = {} /\ mread = {}
  /\ aborted = FALSE
  /\ crashes = 0 /\ stalls = 0
  /\ deleted = "never" /\ overlap = FALSE

(* UPDATE downloads SET status = s: no row, no effect.                     *)
Updated(s) == IF row = "none" THEN "none" ELSE s

-----------------------------------------------------------------------------
(* The request handler of web process p.                                   *)
At(p, step) == pc[p] = step
Go(p, step) == pc' = [pc EXCEPT ![p] = step]

(* The handler has answered, and what it knew is gone.                     *)
Ends(p) ==
  /\ Go(p, "idle")
  /\ pend' = [pend EXCEPT ![p] = {}]
  /\ fresh' = [fresh EXCEPT ![p] = FALSE]

(* A handler begins.                                                       *)
Begin(p) ==
  /\ At(p, "idle")
  /\ overlap' = (overlap \/ \E q \in Procs \ {p} : ~At(q, "idle"))

(* listDownloadedFormats: the cached entry if there is one, else the       *)
(* manifest, which is then cached.                                         *)
Listing(p) == IF cache[p] = NoEntry THEN manifest ELSE cache[p]

(* Formats already persisted are not fetched again: none left is a 204,    *)
(* and too little storage for those left a 507.                            *)
Request(p) ==
  /\ Begin(p)
  /\ cache' = [cache EXCEPT ![p] = Listing(p)]
  /\ LET missing == Formats \ Listing(p) IN
       \/ UNCHANGED <<pc, pend>>
       \/ /\ missing # {}
          /\ pend' = [pend EXCEPT ![p] = missing]
          /\ Go(p, "upsert")
  /\ UNCHANGED <<row, queue, disk, fresh, run, deleted>>

(* The entry outlives its TTL.                                             *)
CacheExpires(p) ==
  /\ cache[p] # NoEntry
  /\ cache' = [cache EXCEPT ![p] = NoEntry]
  /\ UNCHANGED <<row, queue, disk, pc, pend, fresh, worker>>

Upsert(p) ==
  /\ At(p, "upsert")
  /\ row' = "downloading"
  /\ Go(p, "uncancel")
  /\ UNCHANGED <<queue, disk, cache, pend, fresh, worker>>

Uncancel(p) ==
  /\ At(p, "uncancel")
  /\ cancel' = FALSE
  /\ Go(p, "lookup")
  /\ UNCHANGED <<row, job, want, admitted, stalls, disk, cache, pend, fresh,
                worker>>

(* A live job is joined as it is: the handler answers 202.                 *)
Lookup(p) ==
  /\ At(p, "lookup")
  /\ \/ job \in Live /\ Ends(p)
     \/ /\ job \notin Live
        /\ Go(p, IF job = "absent" THEN "reserve" ELSE "remove")
        /\ UNCHANGED <<pend, fresh>>
  /\ UNCHANGED <<row, queue, disk, cache, worker>>

(* Job.remove fails on a job some worker has locked; the error is dropped. *)
Removed == IF job = "active" THEN job ELSE "absent"

Remove(p, here, next) ==
  /\ At(p, here)
  /\ job' = Removed
  /\ Go(p, next)
  /\ UNCHANGED <<row, cancel, want, admitted, stalls, disk, cache, pend,
                fresh, worker>>

Release(p, here, next) ==
  /\ At(p, here)
  /\ admitted' = FALSE
  /\ Go(p, next)
  /\ UNCHANGED <<row, cancel, job, want, stalls, disk, cache, pend, fresh,
                worker>>

RemoveFinished(p) == Remove(p, "remove", "release")
ReleaseFinished(p) == Release(p, "release", "reserve")

Reserve(p) ==
  /\ At(p, "reserve")
  /\ \/ /\ admitted' = TRUE
        /\ fresh' = [fresh EXCEPT ![p] = ~admitted]
        /\ Go(p, "add")
     \/ /\ ~admitted
        /\ Go(p, "refused")
        /\ UNCHANGED <<admitted, fresh>>
  /\ UNCHANGED <<row, cancel, job, want, stalls, disk, cache, pend, worker>>

(* queue.add: a job id that exists, in whatever state, is left alone.      *)
Add(p) ==
  /\ At(p, "add")
  /\ IF job = "absent"
     THEN job' = "waiting" /\ want' = pend[p] /\ stalls' = 0
     ELSE UNCHANGED <<job, want, stalls>>
  /\ Ends(p)
  /\ UNCHANGED <<row, cancel, admitted, disk, cache, worker>>

(* queue.add fails.  If another producer's job is there the request has    *)
(* joined it; if not, an unused reservation is given back.                 *)
AddFails(p) ==
  /\ At(p, "add")
  /\ IF job # "absent"
     THEN Ends(p) /\ UNCHANGED admitted
     ELSE /\ Go(p, "refused") /\ UNCHANGED <<pend, fresh>>
          /\ admitted' = (admitted /\ ~fresh[p])
  /\ UNCHANGED <<row, cancel, job, want, stalls, disk, cache, worker>>

Refused(p) ==
  /\ At(p, "refused")
  /\ row' = Updated("error")
  /\ Ends(p)
  /\ UNCHANGED <<queue, disk, cache, worker>>

-----------------------------------------------------------------------------
(* DELETE /downloads/:videoId.                                             *)
Delete(p) ==
  /\ p \in Deleters
  /\ Begin(p)
  /\ cancel' = TRUE
  /\ Go(p, "del_lookup")
  /\ UNCHANGED <<row, job, want, admitted, stalls, disk, cache, pend, fresh,
                run, deleted>>

(* Fault: only the key is set, whatever state the job is in.               *)
DelLookup_LeavesJob(p) ==
  /\ At(p, "del_lookup")
  /\ Go(p, "del_list")
  /\ UNCHANGED <<row, queue, disk, cache, pend, fresh, worker>>

DelLookup(p) ==
  /\ At(p, "del_lookup")
  /\ Go(p, IF job \in {"absent", "active"} THEN "del_list" ELSE "del_remove")
  /\ UNCHANGED <<row, queue, disk, cache, pend, fresh, worker>>

DelRemove(p) == Remove(p, "del_remove", "del_release")
DelRelease(p) == Release(p, "del_release", "del_list")

(* deleteVideoDownloadFiles: the cache is dropped, the manifest read...    *)
DelList(p) ==
  /\ At(p, "del_list")
  /\ pend' = [pend EXCEPT ![p] = manifest]
  /\ cache' = [cache EXCEPT ![p] = manifest]
  /\ Go(p, "unlink")
  /\ UNCHANGED <<row, queue, disk, fresh, worker>>

(* ... what it names unlinked...                                           *)
DelFiles(p) ==
  /\ At(p, "unlink")
  /\ files' = files \ pend[p]
  /\ Go(p, "del_manifest")
  /\ deleted' = "now"
  /\ UNCHANGED <<row, queue, temps, manifest, cache, pend, fresh, run,
                overlap>>

(* ... and then the manifest itself, and the cache dropped once more.      *)
DelManifest(p) ==
  /\ At(p, "del_manifest")
  /\ manifest' = {}
  /\ cache' = [cache EXCEPT ![p] = NoEntry]
  /\ Go(p, "del_row")
  /\ deleted' = "now"
  /\ UNCHANGED <<row, queue, files, temps, pend, fresh, run, overlap>>

DelRow(p) ==
  /\ At(p, "del_row")
  /\ row' = "none"
  /\ Ends(p)
  /\ UNCHANGED <<queue, disk, cache, worker>>

-----------------------------------------------------------------------------
(* The worker's handler.                                                   *)
Claim ==
  /\ wpc = "idle" /\ job = "waiting"
  /\ job' = "active"
  /\ wpc' = "start"
  /\ deleted' = IF deleted = "now" THEN "before" ELSE deleted
  /\ UNCHANGED <<row, cancel, want, admitted, stalls, disk, web, running,
                fetched, committed, mread, aborted, crashes, overlap>>

(* Queued for too long: failDownload, throw, and failDownload once more.   *)
Expired ==
  /\ wpc = "start"
  /\ row' = Updated("error")
  /\ wpc' = "fail_again"
  /\ UNCHANGED <<queue, disk, web, running, fetched, committed, mread,
                aborted, crashes, past>>

(* Too large, or no storage to reserve.                                    *)
NoRoom ==
  /\ wpc = "start"
  /\ wpc' = "fail_again"
  /\ UNCHANGED <<row, queue, disk, web, running, fetched, committed, mread,
                aborted, crashes, past>>

(* All formats are fetched at once, each into a part file of its own.      *)
Start ==
  /\ wpc = "start"
  /\ wpc' = "fetching"
  /\ running' = want /\ temps' = temps \cup want
  /\ fetched' = {} /\ committed' = {} /\ mread' = {}
  /\ aborted' = FALSE
  /\ UNCHANGED <<row, queue, files, manifest, web, crashes, past>>

(* The 1 s poll of the cancel key.                                         *)
SeeCancel ==
  /\ wpc = "fetching" /\ cancel /\ ~aborted
  /\ aborted' = TRUE
  /\ UNCHANGED <<row, queue, disk, web, wpc, running, fetched, committed,
                mread, crashes, past>>

(* A pipeline that ended before the abort counts, so this may follow it.   *)
FetchDone(f) ==
  /\ wpc = "fetching" /\ f \in running
  /\ running' = running \ {f}
  /\ fetched' = fetched \cup {f}
  /\ UNCHANGED <<row, queue, disk, web, wpc, committed, mread, aborted,
                crashes, past>>

(* Upstream, disk, size limit or abort: the sibling is aborted as well.    *)
FetchFails(f) ==
  /\ wpc = "fetching" /\ f \in running
  /\ running' = running \ {f}
  /\ temps' = temps \ {f}
  /\ aborted' = TRUE
  /\ UNCHANGED <<row, queue, files, manifest, web, wpc, fetched, committed,
                mread, crashes, past>>

(* Fault: Promise.all instead of allSettled.                               *)
Settled_AtFirstFailure ==
  /\ wpc = "fetching" /\ (running = {} \/ aborted)
  /\ wpc' = IF fetched = want THEN "commit" ELSE "rollback"
  /\ UNCHANGED <<row, queue, disk, web, running, fetched, committed, mread,
                aborted, crashes, past>>

(* Promise.allSettled: nothing is decided while a pipeline still runs.     *)
Settled ==
  /\ wpc = "fetching" /\ running = {}
  /\ wpc' = IF fetched = want THEN "commit" ELSE "rollback"
  /\ UNCHANGED <<row, queue, disk, web, running, fetched, committed, mread,
                aborted, crashes, past>>

(* rename over the final path, and the byte count (DownloadLedger).        *)
CommitFormat(f) ==
  /\ wpc = "commit" /\ f \in fetched \ committed
  /\ temps' = temps \ {f}
  /\ files' = files \cup {f}
  /\ committed' = committed \cup {f}
  /\ UNCHANGED <<row, queue, manifest, web, wpc, running, fetched, mread,
                aborted, crashes, past>>

(* Fault: the commit is declared over before every file is in place.       *)
ReadManifest_Early ==
  /\ wpc = "commit" /\ committed # {}
  /\ mread' = manifest
  /\ wpc' = "record"
  /\ UNCHANGED <<row, queue, disk, web, running, fetched, committed, aborted,
                crashes, past>>

(* recordDownloadedFormats reads the manifest, merges and replaces it.     *)
ReadManifest ==
  /\ wpc = "commit" /\ committed = fetched
  /\ mread' = manifest
  /\ wpc' = "record"
  /\ UNCHANGED <<row, queue, disk, web, running, fetched, committed, aborted,
                crashes, past>>

(* Fault: the manifest is replaced by what was just fetched.               *)
RecordFormats_Overwrites ==
  /\ wpc = "record"
  /\ manifest' = committed
  /\ wpc' = "complete"
  /\ UNCHANGED <<row, queue, files, temps, web, running, fetched, committed,
                mread, aborted, crashes, past>>

RecordFormats ==
  /\ wpc = "record"
  /\ manifest' = mread \cup committed
  /\ wpc' = "complete"
  /\ UNCHANGED <<row, queue, files, temps, web, running, fetched, committed,
                mread, aborted, crashes, past>>

Complete ==
  /\ wpc = "complete"
  /\ row' = Updated("complete")
  /\ wpc' = "release"
  /\ UNCHANGED <<queue, disk, web, running, fetched, committed, mread,
                aborted, crashes, past>>

(* A file or database operation of the commit throws.                      *)
CommitFails ==
  /\ wpc \in {"commit", "record", "complete"}
  /\ wpc' = "rollback"
  /\ UNCHANGED <<row, queue, disk, web, running, fetched, committed, mread,
                aborted, crashes, past>>

Rollback ==
  /\ wpc = "rollback"
  /\ temps' = temps \ fetched
  /\ files' = files \ committed
  /\ wpc' = IF committed = {} THEN "fail" ELSE "unread"
  /\ UNCHANGED <<row, queue, manifest, web, running, fetched, committed,
                mread, aborted, crashes, past>>

(* removeDownloadedFormatRecords.                                          *)
RereadManifest ==
  /\ wpc = "unread"
  /\ mread' = manifest
  /\ wpc' = "unrecord"
  /\ UNCHANGED <<row, queue, disk, web, running, fetched, committed, aborted,
                crashes, past>>

UnrecordFormats ==
  /\ wpc = "unrecord"
  /\ manifest' = mread \ committed
  /\ wpc' = "fail"
  /\ UNCHANGED <<row, queue, files, temps, web, running, fetched, committed,
                mread, aborted, crashes, past>>

(* Fault: the error path cleans up but forgets the row.                    *)
Fail_ForgetsRow ==
  /\ wpc \in {"fail", "fail_again"}
  /\ wpc' = IF wpc = "fail" THEN "fail_again" ELSE "release"
  /\ UNCHANGED <<row, queue, disk, web, running, fetched, committed, mread,
                aborted, crashes, past>>

(* failDownload in processDownload's catch, and again in the handler's.    *)
Fail ==
  /\ wpc \in {"fail", "fail_again"}
  /\ row' = Updated("error")
  /\ wpc' = IF wpc = "fail" THEN "fail_again" ELSE "release"
  /\ UNCHANGED <<queue, disk, web, running, fetched, committed, mread,
                aborted, crashes, past>>

(* Fault: the lease is left to expire.                                     *)
ReleaseAdmission_Never ==
  /\ wpc = "release"
  /\ wpc' = "return"
  /\ UNCHANGED <<row, queue, disk, web, running, fetched, committed, mread,
                aborted, crashes, past>>

ReleaseAdmission ==
  /\ wpc = "release"
  /\ admitted' = FALSE
  /\ wpc' = "return"
  /\ UNCHANGED <<row, cancel, job, want, stalls, disk, web, running, fetched,
                committed, mread, aborted, crashes, past>>

(* Fault: the lists of a run outlive it.                                   *)
Return_KeepsLists ==
  /\ wpc = "return"
  /\ wpc' = "idle"
  /\ job' = "finished"
  /\ UNCHANGED <<row, cancel, want, admitted, stalls, disk, web, running,
                fetched, committed, mread, aborted, crashes, past>>

Return ==
  /\ wpc = "return"
  /\ wpc' = "idle"
  /\ job' = "finished"
  /\ running' = {} /\ fetched' = {} /\ committed' = {} /\ mread' = {}
  /\ aborted' = FALSE
  /\ UNCHANGED <<row, cancel, want, admitted, stalls, disk, web, crashes, past>>

(* The worker process dies; the part files stay.                           *)
Crash ==
  /\ wpc # "idle" /\ crashes < MaxCrashes
  /\ crashes' = crashes + 1
  /\ wpc' = "idle"
  /\ running' = {} /\ fetched' = {} /\ committed' = {} /\ mread' = {}
  /\ aborted' = FALSE
  /\ UNCHANGED <<row, queue, disk, web, past>>

-----------------------------------------------------------------------------
(* BullMQ puts a job whose lock has expired back in the queue, at most     *)
(* MaxStalls times.                                                        *)
Stalled ==
  /\ wpc = "idle" /\ job = "active"
  /\ IF stalls < MaxStalls
     THEN job' = "waiting" /\ stalls' = stalls + 1
     ELSE job' = "finished" /\ UNCHANGED stalls
  /\ UNCHANGED <<row, cancel, want, admitted, disk, web, worker>>

(* removeOnComplete and removeOnFail.                                      *)
Retired ==
  /\ job = "finished"
  /\ job' = "absent"
  /\ UNCHANGED <<row, cancel, want, admitted, stalls, disk, web, worker>>

(* pruneStaleJobs, run by any request that finds the queue full.           *)
PruneStale ==
  /\ job = "waiting"
  /\ job' = "absent"
  /\ admitted' = FALSE
  /\ UNCHANGED <<row, cancel, want, stalls, disk, web, worker>>

(* cleanupStaleDownloadParts: no pipeline has touched them for hours.      *)
SweepParts ==
  /\ wpc = "idle" /\ temps # {}
  /\ temps' = {}
  /\ UNCHANGED <<row, queue, files, manifest, web, worker>>

RequestStep(p) ==
  \/ Request(p) \/ CacheExpires(p) \/ Upsert(p) \/ Uncancel(p) \/ Lookup(p)
  \/ RemoveFinished(p) \/ ReleaseFinished(p) \/ Reserve(p) \/ Add(p)
  \/ AddFails(p) \/ Refused(p)

DeleteStep(p) ==
  \/ Delete(p) \/ DelLookup(p) \/ DelRemove(p) \/ DelRelease(p) \/ DelList(p)
  \/ DelFiles(p) \/ DelManifest(p) \/ DelRow(p)

WorkerStep ==
  \/ Claim \/ Expired \/ NoRoom \/ Start \/ SeeCancel
  \/ \E f \in Formats : FetchDone(f) \/ FetchFails(f) \/ CommitFormat(f)
  \/ Settled \/ ReadManifest \/ RecordFormats \/ Complete \/ CommitFails
  \/ Rollback \/ RereadManifest \/ UnrecordFormats \/ Fail
  \/ ReleaseAdmission \/ Return

Next ==
  \/ \E p \in Procs : RequestStep(p) \/ DeleteStep(p)
  \/ WorkerStep \/ Crash \/ Stalled \/ Retired \/ PruneStale \/ SweepParts

Spec == Init /\ [][Next]_vars

-----------------------------------------------------------------------------
TypeOK ==
  /\ row \in {"none", "downloading", "complete", "error"}
  /\ cancel \in BOOLEAN /\ admitted \in BOOLEAN /\ aborted \in BOOLEAN
  /\ job \in Live \cup {"absent", "finished"}
  /\ want \subseteq Formats
  /\ files \subseteq Formats /\ temps \subseteq Formats
  /\ manifest \subseteq Formats
  /\ cache \in [Procs -> (SUBSET Formats) \cup {NoEntry}]
  /\ pc \in [Procs -> ReqSteps \cup DelSteps \cup {"idle"}]
  /\ pend \in [Procs -> SUBSET Formats]
  /\ fresh \in [Procs -> BOOLEAN]
  /\ wpc \in WorkerSteps \cup {"idle"}
  /\ running \subseteq want /\ fetched \subseteq want
  /\ committed \subseteq fetched
  /\ mread \subseteq Formats
  /\ deleted \in {"never", "before", "now"} /\ overlap \in BOOLEAN
  /\ crashes \in 0..MaxCrashes /\ stalls \in 0..MaxStalls

(* While no worker is on the job, a row that says complete has something   *)
(* to serve, though a stale listing may have asked for a second download   *)
(* that then failed: the offline bundle answers 409 otherwise.             *)
CompleteIsServable ==
  (wpc = "idle" /\ row = "complete") => files \cap manifest # {}

(* The worker leaves no part file behind, however the formats end.         *)
NoStrayParts == wpc = "idle" => temps = {}

(* The manifest, which stands for a scan of the directory, names what is   *)
(* there: a commit that fails half-way is undone in both.                  *)
ManifestTellsTheTruth == wpc = "idle" => manifest = files

(* Whatever crashed before, a job marks the row complete only when all its *)
(* formats are on disk and in the manifest, or the viewer deletes them.    *)
CompletionIsTrue ==
  [][(/\ wpc = "complete" /\ wpc' = "release"
      /\ row' = "complete" /\ deleted # "now") =>
        want \subseteq files' \cap manifest']_vars

(* An admission lease never outlives the job it was taken for: without a   *)
(* live job some handler is about to add one or to give the lease back, or *)
(* so many workers died that BullMQ has given the job up.                  *)
LeaseBacked ==
  admitted =>
    \/ job \in Live \/ crashes > MaxStalls
    \/ \E p \in Procs : pc[p] \in {"add", "release", "del_release"}

(* A job that was still queued when its video was deleted is not run; one  *)
(* that was running may be, once more, after its worker has died.  (A      *)
(* request that overlaps the deletion may queue the job once more.)        *)
CancelledJobNeverStarts ==
  [][(job = "waiting" /\ job' = "active" /\ stalls = 0 /\ ~overlap) =>
       ~cancel \/ \E p \in Procs : pc[p] \in DelSteps]_vars

(* "delete files + DB row" (routes/downloads.ts 23): once nobody works on  *)
(* a video without a row, none of its files are left.                      *)
DeletedLeavesNoFiles ==
  (/\ row = "none" /\ wpc = "idle" /\ job \notin Live
   /\ \A p \in Procs : At(p, "idle")) => files = {}

(* Before any worker has died no part file is left behind, and before any  *)
(* deletion files, manifest and row agree, too, whenever the worker rests. *)
(* While requests and deletions come one after the other, no admission     *)
(* lease outlives its job, whoever dies.                                   *)
JobSafe ==
  /\ TypeOK
  /\ crashes = 0 => NoStrayParts
  /\ crashes = 0 /\ deleted = "never" =>
       CompleteIsServable /\ ManifestTellsTheTruth
  /\ ~overlap => LeaseBacked
=============================================================================
