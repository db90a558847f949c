-------------------------- MODULE DownloadJobProofs --------------------------
(***************************************************************************)
(* What holds of a download job for every set of formats, any number of    *)
(* web processes and of deaths of the worker, and every maxStalledCount.   *)
(*                                                                         *)
(* JobSafe speaks of the moments at which no worker is on the job, so its  *)
(* proof needs to know what each stage of a run leaves half done: which    *)
(* part files there are (PartsOwned), how files and manifest differ        *)
(* (Accounted) and what a row that still says complete relies on           *)
(* (Servable).  LeaseBacked holds because a handler without competitors    *)
(* knows what it has read of the job to be true still (Knows), and because *)
(* each time a job is run again a worker has died (Deaths).                *)
(***************************************************************************)
EXTENDS DownloadJob, TLAPS

(* The two halves of the type invariant.                                   *)
WebTypeOK ==
  /\ cache \in [Procs -> (SUBSET Formats) \cup {NoEntry}]
  /\ pc \in [Procs -> ReqSteps \cup DelSteps \cup {"idle"}]
  /\ pend \in [Procs -> SUBSET Formats]
  /\ fresh \in [Procs -> BOOLEAN]

RestTypeOK ==
  /\ row \in {"none", "downloading", "complete", "error"}
  /\ cancel \in BOOLEAN /\ admitted \in BOOLEAN /\ aborted \in BOOLEAN
  /\ job \in Live \cup {"absent", "finished"}
  /\ want \subseteq Formats
  /\ files \subseteq Formats /\ temps \subseteq Formats
  /\ manifest \subseteq Formats
  /\ wpc \in WorkerSteps \cup {"idle"}
  /\ running \subseteq want /\ fetched \subseteq want
  /\ committed \subseteq fetched
  /\ mread \subseteq Formats
  /\ deleted \in {"never", "before", "now"} /\ overlap \in BOOLEAN
  /\ crashes \in 0..MaxCrashes /\ stalls \in 0..MaxStalls

(* What the worker holds at each stage of a run.                           *)
Staged ==
  /\ wpc # "idle" => job = "active"
  /\ wpc \in {"idle", "start"} => fetched = {}
  /\ wpc # "fetching" => running = {}
  /\ wpc \in {"idle", "start", "fetching"} => committed = {}
  /\ wpc \in {"commit", "record", "complete"} => fetched = want
  /\ wpc \in {"record", "complete"} => committed = fetched

(* A request that goes on has something to fetch, and so has its job.      *)
Asked ==
  /\ \A p \in Procs : pc[p] \in ReqSteps => pend[p] # {}
  /\ job \in Live => want # {}

(* What is committed is on disk, then in the manifest, unless the viewer   *)
(* deletes it.                                                             *)
Kept ==
  deleted # "now" =>
    /\ wpc \in {"commit", "record", "complete"} => committed \subseteq files
    /\ wpc = "complete" => committed \subseteq manifest

(* Part files belong to the pipelines and to what is not committed yet.    *)
PartsOwned ==
  crashes = 0 =>
    temps \subseteq IF wpc \in {"fetching", "commit", "rollback"}
                    THEN (running \cup fetched) \ committed ELSE {}

(* The files the manifest does not name, or no longer, are the committed   *)
(* ones.                                                                   *)
Accounted ==
  crashes = 0 /\ deleted = "never" =>
    /\ files = CASE wpc \in {"commit", "record", "complete", "rollback"} ->
                      manifest \cup committed
                 [] wpc \in {"unread", "unrecord"} -> manifest \ committed
                 [] OTHER -> manifest
    /\ wpc \in {"record", "unrecord"} => mread = manifest

(* A row that says complete is right, or about to be corrected.            *)
Undoing == {"rollback", "unread", "unrecord", "fail", "fail_again"}

Servable ==
  crashes = 0 /\ deleted = "never" /\ row = "complete" =>
    wpc \in Undoing \/ files # {}

(* Only a worker that died leaves a job to be run again.                   *)
Deaths ==
  /\ stalls <= crashes
  /\ wpc = "idle" /\ job = "active" => stalls < crashes

(* What a handler that nobody interferes with knows about the job.         *)
OneAtATime ==
  \A p, q \in Procs : pc[p] # "idle" /\ pc[q] # "idle" => p = q

Knows(p) ==
  /\ pc[p] \in {"lookup", "remove", "release", "reserve", "add"} => ~cancel
  /\ pc[p] = "remove" => job \in {"finished", "absent"}
  /\ pc[p] \in {"release", "reserve", "add"} => job = "absent"
  /\ pc[p] = "add" /\ ~fresh[p] => crashes > MaxStalls

Leased ==
  /\ LeaseBacked
  /\ wpc = "return" => ~admitted

CancelHeard ==
  job = "waiting" /\ cancel /\ stalls = 0 =>
    \E p \in Procs : pc[p] \in {"del_lookup", "del_remove"}

InTurn ==
  ~overlap =>
    OneAtATime /\ (\A p \in Procs : Knows(p)) /\ Leased /\ CancelHeard

JobInv ==
  /\ TypeOK /\ Staged /\ Asked /\ Kept /\ PartsOwned /\ Accounted /\ Servable
  /\ Deaths /\ InTurn

-----------------------------------------------------------------------------
(* The two bounds of the model are natural numbers.                        *)
LEMMA Bounds == MaxCrashes \in Nat /\ MaxStalls \in Nat
<1> QED BY JobAssumption

(* The handlers' variables keep their types.                               *)
LEMMA HandlersTyped ==
  ASSUME TypeOK, [Next]_vars
  PROVE  WebTypeOK'
<1> USE DEF TypeOK, WebTypeOK, ReqSteps, DelSteps, queue, disk, web, run,
            past, worker
<1>1. ASSUME NEW p \in Procs, Request(p) PROVE WebTypeOK'
  BY <1>1 DEF Request, Begin, At, Go, Listing
<1>2. ASSUME NEW p \in Procs, CacheExpires(p) PROVE WebTypeOK'
  BY <1>2 DEF CacheExpires
<1>3. ASSUME NEW p \in Procs, Upsert(p) PROVE WebTypeOK'
  BY <1>3 DEF Upsert, At, Go, Updated
<1>4. ASSUME NEW p \in Procs, Uncancel(p) PROVE WebTypeOK'
  BY <1>4 DEF Uncancel, At, Go
<1>5. ASSUME NEW p \in Procs, Lookup(p) PROVE WebTypeOK'
  BY <1>5 DEF Lookup, At, Go, Ends
<1>6. ASSUME NEW p \in Procs, RemoveFinished(p) PROVE WebTypeOK'
  BY <1>6 DEF RemoveFinished, Remove, Removed, At, Go
<1>7. ASSUME NEW p \in Procs, ReleaseFinished(p) PROVE WebTypeOK'
  BY <1>7 DEF ReleaseFinished, Release, At, Go
<1>8. ASSUME NEW p \in Procs, Reserve(p) PROVE WebTypeOK'
  BY <1>8 DEF Reserve, At, Go
<1>9. ASSUME NEW p \in Procs, Add(p) PROVE WebTypeOK'
  BY <1>9 DEF Add, At, Go, Ends
<1>10. ASSUME NEW p \in Procs, AddFails(p) PROVE WebTypeOK'
  BY <1>10 DEF AddFails, At, Go, Ends
<1>11. ASSUME NEW p \in Procs, Refused(p) PROVE WebTypeOK'
  BY <1>11 DEF Refused, At, Go, Ends, Updated
<1>12. ASSUME NEW p \in Procs, Delete(p) PROVE WebTypeOK'
  BY <1>12 DEF Delete, Begin, At, Go
<1>13. ASSUME NEW p \in Procs, DelLookup(p) PROVE WebTypeOK'
  BY <1>13 DEF DelLookup, At, Go
<1>14. ASSUME NEW p \in Procs, DelRemove(p) PROVE WebTypeOK'
  BY <1>14 DEF DelRemove, Remove, Removed, At, Go
<1>15. ASSUME NEW p \in Procs, DelRelease(p) PROVE WebTypeOK'
  BY <1>15 DEF DelRelease, Release, At, Go
<1>16. ASSUME NEW p \in Procs, DelList(p) PROVE WebTypeOK'
  BY <1>16 DEF DelList, At, Go
<1>17. ASSUME NEW p \in Procs, DelFiles(p) PROVE WebTypeOK'
  BY <1>17 DEF DelFiles, At, Go
<1>18. ASSUME NEW p \in Procs, DelManifest(p) PROVE WebTypeOK'
  BY <1>18 DEF DelManifest, At, Go
<1>19. ASSUME NEW p \in Procs, DelRow(p) PROVE WebTypeOK'
  BY <1>19 DEF DelRow, At, Go, Ends
<1>20. CASE WorkerStep \/ Crash \/ Stalled \/ Retired \/ PruneStale
           \/ SweepParts
  BY <1>20
  DEF WorkerStep, FetchDone, FetchFails, CommitFormat, Claim, Expired,
      NoRoom, Start, SeeCancel, Settled, ReadManifest, RecordFormats,
      Complete, CommitFails, Rollback, RereadManifest, UnrecordFormats,
      Fail, ReleaseAdmission, Return, Crash, Stalled, Retired, PruneStale,
      SweepParts, Updated
<1>21. CASE UNCHANGED vars
  BY <1>21 DEF vars
<1> QED BY <1>1, <1>2, <1>3, <1>4, <1>5, <1>6, <1>7, <1>8, <1>9, <1>10,
           <1>11, <1>12, <1>13, <1>14, <1>15, <1>16, <1>17, <1>18, <1>19,
           <1>20, <1>21
    DEF Next, RequestStep, DeleteStep

(* So do the row, the job, the disk and the worker's variables.            *)
LEMMA RestTyped ==
  ASSUME TypeOK, Staged, [Next]_vars
  PROVE  RestTypeOK'
<1> USE Bounds DEF TypeOK, RestTypeOK, Staged, Live, WorkerSteps, queue,
                   disk, web, run, past, worker
<1>1. ASSUME NEW p \in Procs, Request(p) PROVE RestTypeOK'
  BY <1>1 DEF Request, Begin, At, Go
<1>2. ASSUME NEW p \in Procs, CacheExpires(p) PROVE RestTypeOK'
  BY <1>2 DEF CacheExpires
<1>3. ASSUME NEW p \in Procs, Upsert(p) PROVE RestTypeOK'
  BY <1>3 DEF Upsert, At, Go, Updated
<1>4. ASSUME NEW p \in Procs, Uncancel(p) PROVE RestTypeOK'
  <2>1. cancel' \in BOOLEAN
    BY <1>4 DEF Uncancel
  <2> QED BY <1>4, <2>1 DEF Uncancel
<1>5. ASSUME NEW p \in Procs, Lookup(p) PROVE RestTypeOK'
  BY <1>5 DEF Lookup, At, Go, Ends
<1>6. ASSUME NEW p \in Procs, RemoveFinished(p) PROVE RestTypeOK'
  BY <1>6 DEF RemoveFinished, Remove, Removed, At, Go
<1>7. ASSUME NEW p \in Procs, ReleaseFinished(p) PROVE RestTypeOK'
  <2>1. admitted' \in BOOLEAN
    BY <1>7 DEF ReleaseFinished, Release
  <2> QED BY <1>7, <2>1 DEF ReleaseFinished, Release
<1>8. ASSUME NEW p \in Procs, Reserve(p) PROVE RestTypeOK'
  <2>1. admitted' \in BOOLEAN
    BY <1>8 DEF Reserve
  <2> QED BY <1>8, <2>1 DEF Reserve
<1>9. ASSUME NEW p \in Procs, Add(p) PROVE RestTypeOK'
  BY <1>9 DEF Add, At, Go, Ends
<1>10. ASSUME NEW p \in Procs, AddFails(p) PROVE RestTypeOK'
  <2>1. admitted' \in BOOLEAN
    BY <1>10 DEF AddFails
  <2> QED BY <1>10, <2>1 DEF AddFails
<1>11. ASSUME NEW p \in Procs, Refused(p) PROVE RestTypeOK'
  BY <1>11 DEF Refused, At, Go, Ends, Updated
<1>12. ASSUME NEW p \in Procs, Delete(p) PROVE RestTypeOK'
  BY <1>12 DEF Delete, Begin, At, Go
<1>13. ASSUME NEW p \in Procs, DelLookup(p) PROVE RestTypeOK'
  BY <1>13 DEF DelLookup, At, Go
<1>14. ASSUME NEW p \in Procs, DelRemove(p) PROVE RestTypeOK'
  BY <1>14 DEF DelRemove, Remove, Removed, At, Go
<1>15. ASSUME NEW p \in Procs, DelRelease(p) PROVE RestTypeOK'
  <2>1. admitted' \in BOOLEAN
    BY <1>15 DEF DelRelease, Release
  <2> QED BY <1>15, <2>1 DEF DelRelease, Release
<1>16. ASSUME NEW p \in Procs, DelList(p) PROVE RestTypeOK'
  BY <1>16 DEF DelList, At, Go
<1>17. ASSUME NEW p \in Procs, DelFiles(p) PROVE RestTypeOK'
  BY <1>17 DEF DelFiles, At, Go
<1>18. ASSUME NEW p \in Procs, DelManifest(p) PROVE RestTypeOK'
  BY <1>18 DEF DelManifest, At, Go
<1>19. ASSUME NEW p \in Procs, DelRow(p) PROVE RestTypeOK'
  BY <1>19 DEF DelRow, At, Go, Ends
<1>20. ASSUME NEW f \in Formats, FetchDone(f) PROVE RestTypeOK'
  BY <1>20 DEF FetchDone
<1>21. ASSUME NEW f \in Formats, FetchFails(f) PROVE RestTypeOK'
  BY <1>21 DEF FetchFails
<1>22. ASSUME NEW f \in Formats, CommitFormat(f) PROVE RestTypeOK'
  BY <1>22 DEF CommitFormat
<1>23. CASE Claim
  BY <1>23 DEF Claim
<1>24. CASE Expired
  BY <1>24 DEF Expired, Updated
<1>25. CASE NoRoom
  BY <1>25 DEF NoRoom
<1>26. CASE Start
  BY <1>26 DEF Start
<1>27. CASE SeeCancel
  BY <1>27 DEF SeeCancel
<1>28. CASE Settled
  BY <1>28 DEF Settled
<1>29. CASE ReadManifest
  BY <1>29 DEF ReadManifest
<1>30. CASE RecordFormats
  BY <1>30 DEF RecordFormats
<1>31. CASE Complete
  BY <1>31 DEF Complete, Updated
<1>32. CASE CommitFails
  BY <1>32 DEF CommitFails
<1>33. CASE Rollback
  BY <1>33 DEF Rollback
<1>34. CASE RereadManifest
  BY <1>34 DEF RereadManifest
<1>35. CASE UnrecordFormats
  BY <1>35 DEF UnrecordFormats
<1>36. CASE Fail
  BY <1>36 DEF Fail, Updated
<1>37. CASE ReleaseAdmission
  BY <1>37 DEF ReleaseAdmission
<1>38. CASE Return
  BY <1>38 DEF Return
<1>39. CASE Crash
  <2>1. crashes' \in 0..MaxCrashes
    BY <1>39 DEF Crash
  <2> QED BY <1>39, <2>1 DEF Crash
<1>40. CASE Stalled
  BY <1>40 DEF Stalled
<1>41. CASE Retired
  BY <1>41 DEF Retired
<1>42. CASE PruneStale
  BY <1>42 DEF PruneStale
<1>43. CASE SweepParts
  BY <1>43 DEF SweepParts
<1>44. CASE UNCHANGED vars
  BY <1>44 DEF vars
<1> QED BY <1>1, <1>2, <1>3, <1>4, <1>5, <1>6, <1>7, <1>8, <1>9, <1>10,
           <1>11, <1>12, <1>13, <1>14, <1>15, <1>16, <1>17, <1>18, <1>19,
           <1>20, <1>21, <1>22, <1>23, <1>24, <1>25, <1>26, <1>27, <1>28,
           <1>29, <1>30, <1>31, <1>32, <1>33, <1>34, <1>35, <1>36, <1>37,
           <1>38, <1>39, <1>40, <1>41, <1>42, <1>43, <1>44
    DEF Next, RequestStep, DeleteStep, WorkerStep

(* Every step leaves the worker at a stage that holds what it should.      *)
LEMMA StagedStep ==
  ASSUME TypeOK, Staged, [Next]_vars
  PROVE  Staged'
<1> USE DEF TypeOK, Staged, Live, queue, disk, web, run, past, worker
<1>1. ASSUME NEW p \in Procs, RequestStep(p) \/ DeleteStep(p) PROVE Staged'
  BY <1>1
  DEF RequestStep, DeleteStep, Request, CacheExpires, Upsert, Uncancel,
      Lookup, RemoveFinished, ReleaseFinished, Reserve, Add, AddFails,
      Refused, Delete, DelLookup, DelRemove, DelRelease, DelList, DelFiles,
      DelManifest, DelRow, Begin, At, Go, Ends, Remove, Removed, Release,
      Updated
<1>2. ASSUME NEW f \in Formats, FetchDone(f) PROVE Staged'
  BY <1>2 DEF FetchDone
<1>3. ASSUME NEW f \in Formats, FetchFails(f) PROVE Staged'
  BY <1>3 DEF FetchFails
<1>4. ASSUME NEW f \in Formats, CommitFormat(f) PROVE Staged'
  BY <1>4 DEF CommitFormat
<1>5. CASE Claim
  BY <1>5 DEF Claim
<1>6. CASE Expired
  BY <1>6 DEF Expired, Updated
<1>7. CASE NoRoom
  BY <1>7 DEF NoRoom
<1>8. CASE Start
  BY <1>8 DEF Start
<1>9. CASE SeeCancel
  BY <1>9 DEF SeeCancel
<1>10. CASE Settled
  BY <1>10 DEF Settled
<1>11. CASE ReadManifest
  BY <1>11 DEF ReadManifest
<1>12. CASE RecordFormats
  BY <1>12 DEF RecordFormats
<1>13. CASE Complete
  BY <1>13 DEF Complete, Updated
<1>14. CASE CommitFails
  BY <1>14 DEF CommitFails
<1>15. CASE Rollback
  BY <1>15 DEF Rollback
<1>16. CASE RereadManifest
  BY <1>16 DEF RereadManifest
<1>17. CASE UnrecordFormats
  BY <1>17 DEF UnrecordFormats
<1>18. CASE Fail
  BY <1>18 DEF Fail, Updated
<1>19. CASE ReleaseAdmission
  BY <1>19 DEF ReleaseAdmission
<1>20. CASE Return
  BY <1>20 DEF Return
<1>21. CASE Crash
  BY <1>21 DEF Crash
<1>22. CASE Stalled
  BY <1>22 DEF Stalled
<1>23. CASE Retired
  BY <1>23 DEF Retired
<1>24. CASE PruneStale
  BY <1>24 DEF PruneStale
<1>25. CASE SweepParts
  BY <1>25 DEF SweepParts
<1>26. CASE UNCHANGED vars
  BY <1>26 DEF vars
<1> QED BY <1>1, <1>2, <1>3, <1>4, <1>5, <1>6, <1>7, <1>8, <1>9, <1>10,
           <1>11, <1>12, <1>13, <1>14, <1>15, <1>16, <1>17, <1>18, <1>19,
           <1>20, <1>21, <1>22, <1>23, <1>24, <1>25, <1>26
    DEF Next, WorkerStep

(* No step lets a request or its job go on with nothing to fetch.          *)
LEMMA AskedStep ==
  ASSUME TypeOK, Staged, Asked, [Next]_vars
  PROVE  Asked'
<1> USE DEF TypeOK, Asked, Live, ReqSteps, DelSteps, queue, disk, web, run,
            past, worker
<1>1. ASSUME NEW p \in Procs, Request(p) PROVE Asked'
  BY <1>1 DEF Request, Begin, At, Go
<1>2. ASSUME NEW p \in Procs, CacheExpires(p) PROVE Asked'
  BY <1>2 DEF CacheExpires
<1>3. ASSUME NEW p \in Procs, Upsert(p) PROVE Asked'
  BY <1>3 DEF Upsert, At, Go, Updated
<1>4. ASSUME NEW p \in Procs, Uncancel(p) PROVE Asked'
  BY <1>4 DEF Uncancel, At, Go
<1>5. ASSUME NEW p \in Procs, Lookup(p) PROVE Asked'
  BY <1>5 DEF Lookup, At, Go, Ends
<1>6. ASSUME NEW p \in Procs, RemoveFinished(p) PROVE Asked'
  BY <1>6 DEF RemoveFinished, Remove, Removed, At, Go
<1>7. ASSUME NEW p \in Procs, ReleaseFinished(p) PROVE Asked'
  BY <1>7 DEF ReleaseFinished, Release, At, Go
<1>8. ASSUME NEW p \in Procs, Reserve(p) PROVE Asked'
  BY <1>8 DEF Reserve, At, Go
<1>9. ASSUME NEW p \in Procs, Add(p) PROVE Asked'
  BY <1>9 DEF Add, At, Go, Ends
<1>10. ASSUME NEW p \in Procs, AddFails(p) PROVE Asked'
  BY <1>10 DEF AddFails, At, Go, Ends
<1>11. ASSUME NEW p \in Procs, Refused(p) PROVE Asked'
  BY <1>11 DEF Refused, At, Go, Ends, Updated
<1>12. ASSUME NEW p \in Procs, Delete(p) PROVE Asked'
  BY <1>12 DEF Delete, Begin, At, Go
<1>13. ASSUME NEW p \in Procs, DelLookup(p) PROVE Asked'
  BY <1>13 DEF DelLookup, At, Go
<1>14. ASSUME NEW p \in Procs, DelRemove(p) PROVE Asked'
  BY <1>14 DEF DelRemove, Remove, Removed, At, Go
<1>15. ASSUME NEW p \in Procs, DelRelease(p) PROVE Asked'
  BY <1>15 DEF DelRelease, Release, At, Go
<1>16. ASSUME NEW p \in Procs, DelList(p) PROVE Asked'
  BY <1>16 DEF DelList, At, Go
<1>17. ASSUME NEW p \in Procs, DelFiles(p) PROVE Asked'
  BY <1>17 DEF DelFiles, At, Go
<1>18. ASSUME NEW p \in Procs, DelManifest(p) PROVE Asked'
  BY <1>18 DEF DelManifest, At, Go
<1>19. ASSUME NEW p \in Procs, DelRow(p) PROVE Asked'
  BY <1>19 DEF DelRow, At, Go, Ends
<1>20. CASE WorkerStep \/ Crash \/ Stalled \/ Retired \/ PruneStale
           \/ SweepParts
  BY <1>20
  DEF WorkerStep, FetchDone, FetchFails, CommitFormat, Claim, Expired,
      NoRoom, Start, SeeCancel, Settled, ReadManifest, RecordFormats,
      Complete, CommitFails, Rollback, RereadManifest, UnrecordFormats,
      Fail, ReleaseAdmission, Return, Crash, Stalled, Retired, PruneStale,
      SweepParts, Updated
<1>21. CASE UNCHANGED vars
  BY <1>21 DEF vars
<1> QED BY <1>1, <1>2, <1>3, <1>4, <1>5, <1>6, <1>7, <1>8, <1>9, <1>10,
           <1>11, <1>12, <1>13, <1>14, <1>15, <1>16, <1>17, <1>18, <1>19,
           <1>20, <1>21
    DEF Next, RequestStep, DeleteStep

(* A commit that has happened is undone by a deletion only.                *)
LEMMA KeptStep ==
  ASSUME TypeOK, Staged, Kept, [Next]_vars
  PROVE  Kept'
<1> USE DEF TypeOK, Staged, Kept, queue, disk, web, run, past, worker
<1>1. ASSUME NEW p \in Procs, RequestStep(p) \/ DeleteStep(p) PROVE Kept'
  BY <1>1
  DEF RequestStep, DeleteStep, Request, CacheExpires, Upsert, Uncancel,
      Lookup, RemoveFinished, ReleaseFinished, Reserve, Add, AddFails,
      Refused, Delete, DelLookup, DelRemove, DelRelease, DelList, DelFiles,
      DelManifest, DelRow, Begin, At, Go, Ends, Remove, Removed, Release,
      Updated
<1>2. ASSUME NEW f \in Formats, FetchDone(f) PROVE Kept'
  BY <1>2 DEF FetchDone
<1>3. ASSUME NEW f \in Formats, FetchFails(f) PROVE Kept'
  BY <1>3 DEF FetchFails
<1>4. ASSUME NEW f \in Formats, CommitFormat(f) PROVE Kept'
  BY <1>4 DEF CommitFormat
<1>5. CASE Claim
  BY <1>5 DEF Claim
<1>6. CASE Expired
  BY <1>6 DEF Expired, Updated
<1>7. CASE NoRoom
  BY <1>7 DEF NoRoom
<1>8. CASE Start
  BY <1>8 DEF Start
<1>9. CASE SeeCancel
  BY <1>9 DEF SeeCancel
<1>10. CASE Settled
  BY <1>10 DEF Settled
<1>11. CASE ReadManifest
  BY <1>11 DEF ReadManifest
<1>12. CASE RecordFormats
  BY <1>12 DEF RecordFormats
<1>13. CASE Complete
  BY <1>13 DEF Complete, Updated
<1>14. CASE CommitFails
  BY <1>14 DEF CommitFails
<1>15. CASE Rollback
  BY <1>15 DEF Rollback
<1>16. CASE RereadManifest
  BY <1>16 DEF RereadManifest
<1>17. CASE UnrecordFormats
  BY <1>17 DEF UnrecordFormats
<1>18. CASE Fail
  BY <1>18 DEF Fail, Updated
<1>19. CASE ReleaseAdmission
  BY <1>19 DEF ReleaseAdmission
<1>20. CASE Return
  BY <1>20 DEF Return
<1>21. CASE Crash
  BY <1>21 DEF Crash
<1>22. CASE Stalled
  BY <1>22 DEF Stalled
<1>23. CASE Retired
  BY <1>23 DEF Retired
<1>24. CASE PruneStale
  BY <1>24 DEF PruneStale
<1>25. CASE SweepParts
  BY <1>25 DEF SweepParts
<1>26. CASE UNCHANGED vars
  BY <1>26 DEF vars
<1> QED BY <1>1, <1>2, <1>3, <1>4, <1>5, <1>6, <1>7, <1>8, <1>9, <1>10,
           <1>11, <1>12, <1>13, <1>14, <1>15, <1>16, <1>17, <1>18, <1>19,
           <1>20, <1>21, <1>22, <1>23, <1>24, <1>25, <1>26
    DEF Next, WorkerStep

(* A part file has an owner after every step, while no worker died.        *)
LEMMA PartsStep ==
  ASSUME TypeOK, Staged, PartsOwned, [Next]_vars
  PROVE  PartsOwned'
<1> USE DEF TypeOK, Staged, PartsOwned, queue, disk, web, run, past, worker
<1>1. ASSUME NEW p \in Procs, RequestStep(p) \/ DeleteStep(p) PROVE PartsOwned'
  BY <1>1
  DEF RequestStep, DeleteStep, Request, CacheExpires, Upsert, Uncancel,
      Lookup, RemoveFinished, ReleaseFinished, Reserve, Add, AddFails,
      Refused, Delete, DelLookup, DelRemove, DelRelease, DelList, DelFiles,
      DelManifest, DelRow, Begin, At, Go, Ends, Remove, Removed, Release,
      Updated
<1>2. ASSUME NEW f \in Formats, FetchDone(f) PROVE PartsOwned'
  BY <1>2 DEF FetchDone
<1>3. ASSUME NEW f \in Formats, FetchFails(f) PROVE PartsOwned'
  BY <1>3 DEF FetchFails
<1>4. ASSUME NEW f \in Formats, CommitFormat(f) PROVE PartsOwned'
  BY <1>4 DEF CommitFormat
<1>5. CASE Claim
  BY <1>5 DEF Claim
<1>6. CASE Expired
  BY <1>6 DEF Expired, Updated
<1>7. CASE NoRoom
  BY <1>7 DEF NoRoom
<1>8. CASE Start
  BY <1>8 DEF Start
<1>9. CASE SeeCancel
  BY <1>9 DEF SeeCancel
<1>10. CASE Settled
  BY <1>10 DEF Settled
<1>11. CASE ReadManifest
  BY <1>11 DEF ReadManifest
<1>12. CASE RecordFormats
  BY <1>12 DEF RecordFormats
<1>13. CASE Complete
  BY <1>13 DEF Complete, Updated
<1>14. CASE CommitFails
  BY <1>14 DEF CommitFails
<1>15. CASE Rollback
  BY <1>15 DEF Rollback
<1>16. CASE RereadManifest
  BY <1>16 DEF RereadManifest
<1>17. CASE UnrecordFormats
  BY <1>17 DEF UnrecordFormats
<1>18. CASE Fail
  BY <1>18 DEF Fail, Updated
<1>19. CASE ReleaseAdmission
  BY <1>19 DEF ReleaseAdmission
<1>20. CASE Return
  BY <1>20 DEF Return
<1>21. CASE Crash
  BY <1>21 DEF Crash
<1>22. CASE Stalled
  BY <1>22 DEF Stalled
<1>23. CASE Retired
  BY <1>23 DEF Retired
<1>24. CASE PruneStale
  BY <1>24 DEF PruneStale
<1>25. CASE SweepParts
  BY <1>25 DEF SweepParts
<1>26. CASE UNCHANGED vars
  BY <1>26 DEF vars
<1> QED BY <1>1, <1>2, <1>3, <1>4, <1>5, <1>6, <1>7, <1>8, <1>9, <1>10,
           <1>11, <1>12, <1>13, <1>14, <1>15, <1>16, <1>17, <1>18, <1>19,
           <1>20, <1>21, <1>22, <1>23, <1>24, <1>25, <1>26
    DEF Next, WorkerStep

(* Files and manifest differ by what the current run accounts for.         *)
LEMMA AccountedStep ==
  ASSUME TypeOK, Staged, Kept, Accounted, [Next]_vars
  PROVE  Accounted'
<1> USE DEF TypeOK, Staged, Kept, Accounted, queue, disk, web, run, past,
            worker
<1>1. ASSUME NEW p \in Procs, RequestStep(p) \/ DeleteStep(p) PROVE Accounted'
  BY <1>1
  DEF RequestStep, DeleteStep, Request, CacheExpires, Upsert, Uncancel,
      Lookup, RemoveFinished, ReleaseFinished, Reserve, Add, AddFails,
      Refused, Delete, DelLookup, DelRemove, DelRelease, DelList, DelFiles,
      DelManifest, DelRow, Begin, At, Go, Ends, Remove, Removed, Release,
      Updated
<1>2. ASSUME NEW f \in Formats, FetchDone(f) PROVE Accounted'
  BY <1>2 DEF FetchDone
<1>3. ASSUME NEW f \in Formats, FetchFails(f) PROVE Accounted'
  BY <1>3 DEF FetchFails
<1>4. ASSUME NEW f \in Formats, CommitFormat(f) PROVE Accounted'
  BY <1>4 DEF CommitFormat
<1>5. CASE Claim
  BY <1>5 DEF Claim
<1>6. CASE Expired
  BY <1>6 DEF Expired, Updated
<1>7. CASE NoRoom
  BY <1>7 DEF NoRoom
<1>8. CASE Start
  BY <1>8 DEF Start
<1>9. CASE SeeCancel
  BY <1>9 DEF SeeCancel
<1>10. CASE Settled
  BY <1>10 DEF Settled
<1>11. CASE ReadManifest
  BY <1>11 DEF ReadManifest
<1>12. CASE RecordFormats
  BY <1>12 DEF RecordFormats
<1>13. CASE Complete
  BY <1>13 DEF Complete, Updated
<1>14. CASE CommitFails
  BY <1>14 DEF CommitFails
<1>15. CASE Rollback
  BY <1>15 DEF Rollback
<1>16. CASE RereadManifest
  BY <1>16 DEF RereadManifest
<1>17. CASE UnrecordFormats
  BY <1>17 DEF UnrecordFormats
<1>18. CASE Fail
  BY <1>18 DEF Fail, Updated
<1>19. CASE ReleaseAdmission
  BY <1>19 DEF ReleaseAdmission
<1>20. CASE Return
  BY <1>20 DEF Return
<1>21. CASE Crash
  BY <1>21 DEF Crash
<1>22. CASE Stalled
  BY <1>22 DEF Stalled
<1>23. CASE Retired
  BY <1>23 DEF Retired
<1>24. CASE PruneStale
  BY <1>24 DEF PruneStale
<1>25. CASE SweepParts
  BY <1>25 DEF SweepParts
<1>26. CASE UNCHANGED vars
  BY <1>26 DEF vars
<1> QED BY <1>1, <1>2, <1>3, <1>4, <1>5, <1>6, <1>7, <1>8, <1>9, <1>10,
           <1>11, <1>12, <1>13, <1>14, <1>15, <1>16, <1>17, <1>18, <1>19,
           <1>20, <1>21, <1>22, <1>23, <1>24, <1>25, <1>26
    DEF Next, WorkerStep

(* A row that says complete stays servable.                                *)
LEMMA ServableStep ==
  ASSUME TypeOK, Staged, Asked, Kept, Servable, [Next]_vars
  PROVE  Servable'
<1> USE DEF TypeOK, Staged, Servable, Undoing, Live, queue, disk, web, run,
            past, worker
<1>1. ASSUME NEW p \in Procs, RequestStep(p) \/ DeleteStep(p) PROVE Servable'
  BY <1>1
  DEF RequestStep, DeleteStep, Request, CacheExpires, Upsert, Uncancel,
      Lookup, RemoveFinished, ReleaseFinished, Reserve, Add, AddFails,
      Refused, Delete, DelLookup, DelRemove, DelRelease, DelList, DelFiles,
      DelManifest, DelRow, Begin, At, Go, Ends, Remove, Removed, Release,
      Updated
<1>2. ASSUME NEW f \in Formats, FetchDone(f) PROVE Servable'
  BY <1>2 DEF FetchDone
<1>3. ASSUME NEW f \in Formats, FetchFails(f) PROVE Servable'
  BY <1>3 DEF FetchFails
<1>4. ASSUME NEW f \in Formats, CommitFormat(f) PROVE Servable'
  BY <1>4 DEF CommitFormat
<1>5. CASE Claim
  BY <1>5 DEF Claim
<1>6. CASE Expired
  BY <1>6 DEF Expired, Updated
<1>7. CASE NoRoom
  BY <1>7 DEF NoRoom
<1>8. CASE Start
  BY <1>8 DEF Start
<1>9. CASE SeeCancel
  BY <1>9 DEF SeeCancel
<1>10. CASE Settled
  BY <1>10 DEF Settled
<1>11. CASE ReadManifest
  BY <1>11 DEF ReadManifest
<1>12. CASE RecordFormats
  BY <1>12 DEF RecordFormats
<1>13. CASE Complete
  BY <1>13 DEF Complete, Updated, Asked, Kept
<1>14. CASE CommitFails
  BY <1>14 DEF CommitFails
<1>15. CASE Rollback
  BY <1>15 DEF Rollback
<1>16. CASE RereadManifest
  BY <1>16 DEF RereadManifest
<1>17. CASE UnrecordFormats
  BY <1>17 DEF UnrecordFormats
<1>18. CASE Fail
  BY <1>18 DEF Fail, Updated
<1>19. CASE ReleaseAdmission
  BY <1>19 DEF ReleaseAdmission
<1>20. CASE Return
  BY <1>20 DEF Return
<1>21. CASE Crash
  BY <1>21 DEF Crash
<1>22. CASE Stalled
  BY <1>22 DEF Stalled
<1>23. CASE Retired
  BY <1>23 DEF Retired
<1>24. CASE PruneStale
  BY <1>24 DEF PruneStale
<1>25. CASE SweepParts
  BY <1>25 DEF SweepParts
<1>26. CASE UNCHANGED vars
  BY <1>26 DEF vars
<1> QED BY <1>1, <1>2, <1>3, <1>4, <1>5, <1>6, <1>7, <1>8, <1>9, <1>10,
           <1>11, <1>12, <1>13, <1>14, <1>15, <1>16, <1>17, <1>18, <1>19,
           <1>20, <1>21, <1>22, <1>23, <1>24, <1>25, <1>26
    DEF Next, WorkerStep

(* A job runs again only if a worker has died in between.                  *)
LEMMA DeathsStep ==
  ASSUME TypeOK, Staged, Deaths, [Next]_vars
  PROVE  Deaths'
<1> USE Bounds DEF TypeOK, Staged, Deaths, Live, queue, disk, web, run,
                   past, worker
<1>1. ASSUME NEW p \in Procs, RequestStep(p) \/ DeleteStep(p) PROVE Deaths'
  BY <1>1
  DEF RequestStep, DeleteStep, Request, CacheExpires, Upsert, Uncancel,
      Lookup, RemoveFinished, ReleaseFinished, Reserve, Add, AddFails,
      Refused, Delete, DelLookup, DelRemove, DelRelease, DelList, DelFiles,
      DelManifest, DelRow, Begin, At, Go, Ends, Remove, Removed, Release,
      Updated
<1>2. ASSUME NEW f \in Formats, FetchDone(f) PROVE Deaths'
  BY <1>2 DEF FetchDone
<1>3. ASSUME NEW f \in Formats, FetchFails(f) PROVE Deaths'
  BY <1>3 DEF FetchFails
<1>4. ASSUME NEW f \in Formats, CommitFormat(f) PROVE Deaths'
  BY <1>4 DEF CommitFormat
<1>5. CASE Claim
  BY <1>5 DEF Claim
<1>6. CASE Expired
  BY <1>6 DEF Expired, Updated
<1>7. CASE NoRoom
  BY <1>7 DEF NoRoom
<1>8. CASE Start
  BY <1>8 DEF Start
<1>9. CASE SeeCancel
  BY <1>9 DEF SeeCancel
<1>10. CASE Settled
  BY <1>10 DEF Settled
<1>11. CASE ReadManifest
  BY <1>11 DEF ReadManifest
<1>12. CASE RecordFormats
  BY <1>12 DEF RecordFormats
<1>13. CASE Complete
  BY <1>13 DEF Complete, Updated
<1>14. CASE CommitFails
  BY <1>14 DEF CommitFails
<1>15. CASE Rollback
  BY <1>15 DEF Rollback
<1>16. CASE RereadManifest
  BY <1>16 DEF RereadManifest
<1>17. CASE UnrecordFormats
  BY <1>17 DEF UnrecordFormats
<1>18. CASE Fail
  BY <1>18 DEF Fail, Updated
<1>19. CASE ReleaseAdmission
  BY <1>19 DEF ReleaseAdmission
<1>20. CASE Return
  BY <1>20 DEF Return
<1>21. CASE Crash
  BY <1>21 DEF Crash
<1>22. CASE Stalled
  BY <1>22 DEF Stalled
<1>23. CASE Retired
  BY <1>23 DEF Retired
<1>24. CASE PruneStale
  BY <1>24 DEF PruneStale
<1>25. CASE SweepParts
  BY <1>25 DEF SweepParts
<1>26. CASE UNCHANGED vars
  BY <1>26 DEF vars
<1> QED BY <1>1, <1>2, <1>3, <1>4, <1>5, <1>6, <1>7, <1>8, <1>9, <1>10,
           <1>11, <1>12, <1>13, <1>14, <1>15, <1>16, <1>17, <1>18, <1>19,
           <1>20, <1>21, <1>22, <1>23, <1>24, <1>25, <1>26
    DEF Next, WorkerStep

(* Handlers that do not overlap take turns at every step.                  *)
LEMMA OneStep ==
  ASSUME TypeOK, ~overlap => OneAtATime, ~overlap', [Next]_vars
  PROVE  OneAtATime'
<1> USE DEF TypeOK, OneAtATime, queue, disk, web, run, past, worker
<1>1. ASSUME NEW p \in Procs, Request(p) PROVE OneAtATime'
  BY <1>1 DEF Request, Begin, At, Go
<1>2. ASSUME NEW p \in Procs, CacheExpires(p) PROVE OneAtATime'
  BY <1>2 DEF CacheExpires
<1>3. ASSUME NEW p \in Procs, Upsert(p) PROVE OneAtATime'
  BY <1>3 DEF Upsert, At, Go, Updated
<1>4. ASSUME NEW p \in Procs, Uncancel(p) PROVE OneAtATime'
  BY <1>4 DEF Uncancel, At, Go
<1>5. ASSUME NEW p \in Procs, Lookup(p) PROVE OneAtATime'
  BY <1>5 DEF Lookup, At, Go, Ends
<1>6. ASSUME NEW p \in Procs, RemoveFinished(p) PROVE OneAtATime'
  BY <1>6 DEF RemoveFinished, Remove, Removed, At, Go
<1>7. ASSUME NEW p \in Procs, ReleaseFinished(p) PROVE OneAtATime'
  BY <1>7 DEF ReleaseFinished, Release, At, Go
<1>8. ASSUME NEW p \in Procs, Reserve(p) PROVE OneAtATime'
  BY <1>8 DEF Reserve, At, Go
<1>9. ASSUME NEW p \in Procs, Add(p) PROVE OneAtATime'
  BY <1>9 DEF Add, At, Go, Ends
<1>10. ASSUME NEW p \in Procs, AddFails(p) PROVE OneAtATime'
  BY <1>10 DEF AddFails, At, Go, Ends
<1>11. ASSUME NEW p \in Procs, Refused(p) PROVE OneAtATime'
  BY <1>11 DEF Refused, At, Go, Ends, Updated
<1>12. ASSUME NEW p \in Procs, Delete(p) PROVE OneAtATime'
  BY <1>12 DEF Delete, Begin, At, Go
<1>13. ASSUME NEW p \in Procs, DelLookup(p) PROVE OneAtATime'
  BY <1>13 DEF DelLookup, At, Go
<1>14. ASSUME NEW p \in Procs, DelRemove(p) PROVE OneAtATime'
  BY <1>14 DEF DelRemove, Remove, Removed, At, Go
<1>15. ASSUME NEW p \in Procs, DelRelease(p) PROVE OneAtATime'
  BY <1>15 DEF DelRelease, Release, At, Go
<1>16. ASSUME NEW p \in Procs, DelList(p) PROVE OneAtATime'
  BY <1>16 DEF DelList, At, Go
<1>17. ASSUME NEW p \in Procs, DelFiles(p) PROVE OneAtATime'
  BY <1>17 DEF DelFiles, At, Go
<1>18. ASSUME NEW p \in Procs, DelManifest(p) PROVE OneAtATime'
  BY <1>18 DEF DelManifest, At, Go
<1>19. ASSUME NEW p \in Procs, DelRow(p) PROVE OneAtATime'
  BY <1>19 DEF DelRow, At, Go, Ends
<1>20. CASE WorkerStep \/ Crash \/ Stalled \/ Retired \/ PruneStale
           \/ SweepParts
  BY <1>20
  DEF WorkerStep, FetchDone, FetchFails, CommitFormat, Claim, Expired,
      NoRoom, Start, SeeCancel, Settled, ReadManifest, RecordFormats,
      Complete, CommitFails, Rollback, RereadManifest, UnrecordFormats,
      Fail, ReleaseAdmission, Return, Crash, Stalled, Retired, PruneStale,
      SweepParts, Updated
<1>21. CASE UNCHANGED vars
  BY <1>21 DEF vars
<1> QED BY <1>1, <1>2, <1>3, <1>4, <1>5, <1>6, <1>7, <1>8, <1>9, <1>10,
           <1>11, <1>12, <1>13, <1>14, <1>15, <1>16, <1>17, <1>18, <1>19,
           <1>20, <1>21
    DEF Next, RequestStep, DeleteStep

(* What a handler alone on the job has read stays true.                    *)
LEMMA KnowsStep ==
  ASSUME TypeOK, Staged, InTurn, ~overlap', NEW q \in Procs, [Next]_vars
  PROVE  Knows(q)'
<1> USE Bounds DEF TypeOK, Staged, InTurn, OneAtATime, Knows, Leased,
                   LeaseBacked, Live, queue, disk, web, run, past, worker
<1>1. ASSUME NEW p \in Procs, Request(p) PROVE Knows(q)'
  BY <1>1 DEF Request, Begin, At, Go
<1>2. ASSUME NEW p \in Procs, CacheExpires(p) PROVE Knows(q)'
  BY <1>2 DEF CacheExpires
<1>3. ASSUME NEW p \in Procs, Upsert(p) PROVE Knows(q)'
  BY <1>3 DEF Upsert, At, Go, Updated
<1>4. ASSUME NEW p \in Procs, Uncancel(p) PROVE Knows(q)'
  BY <1>4 DEF Uncancel, At, Go
<1>5. ASSUME NEW p \in Procs, Lookup(p) PROVE Knows(q)'
  BY <1>5 DEF Lookup, At, Go, Ends
<1>6. ASSUME NEW p \in Procs, RemoveFinished(p) PROVE Knows(q)'
  BY <1>6 DEF RemoveFinished, Remove, Removed, At, Go
<1>7. ASSUME NEW p \in Procs, ReleaseFinished(p) PROVE Knows(q)'
  BY <1>7 DEF ReleaseFinished, Release, At, Go
<1>8. ASSUME NEW p \in Procs, Reserve(p) PROVE Knows(q)'
  BY <1>8 DEF Reserve, At, Go
<1>9. ASSUME NEW p \in Procs, Add(p) PROVE Knows(q)'
  BY <1>9 DEF Add, At, Go, Ends
<1>10. ASSUME NEW p \in Procs, AddFails(p) PROVE Knows(q)'
  BY <1>10 DEF AddFails, At, Go, Ends
<1>11. ASSUME NEW p \in Procs, Refused(p) PROVE Knows(q)'
  BY <1>11 DEF Refused, At, Go, Ends, Updated
<1>12. ASSUME NEW p \in Procs, Delete(p) PROVE Knows(q)'
  BY <1>12 DEF Delete, Begin, At, Go
<1>13. ASSUME NEW p \in Procs, DelLookup(p) PROVE Knows(q)'
  BY <1>13 DEF DelLookup, At, Go
<1>14. ASSUME NEW p \in Procs, DelRemove(p) PROVE Knows(q)'
  BY <1>14 DEF DelRemove, Remove, Removed, At, Go
<1>15. ASSUME NEW p \in Procs, DelRelease(p) PROVE Knows(q)'
  BY <1>15 DEF DelRelease, Release, At, Go
<1>16. ASSUME NEW p \in Procs, DelList(p) PROVE Knows(q)'
  BY <1>16 DEF DelList, At, Go
<1>17. ASSUME NEW p \in Procs, DelFiles(p) PROVE Knows(q)'
  BY <1>17 DEF DelFiles, At, Go
<1>18. ASSUME NEW p \in Procs, DelManifest(p) PROVE Knows(q)'
  BY <1>18 DEF DelManifest, At, Go
<1>19. ASSUME NEW p \in Procs, DelRow(p) PROVE Knows(q)'
  BY <1>19 DEF DelRow, At, Go, Ends
<1>20. CASE WorkerStep \/ Crash \/ Stalled \/ Retired \/ PruneStale
           \/ SweepParts
  BY <1>20
  DEF WorkerStep, FetchDone, FetchFails, CommitFormat, Claim, Expired,
      NoRoom, Start, SeeCancel, Settled, ReadManifest, RecordFormats,
      Complete, CommitFails, Rollback, RereadManifest, UnrecordFormats,
      Fail, ReleaseAdmission, Return, Crash, Stalled, Retired, PruneStale,
      SweepParts, Updated
<1>21. CASE UNCHANGED vars
  BY <1>21 DEF vars
<1> QED BY <1>1, <1>2, <1>3, <1>4, <1>5, <1>6, <1>7, <1>8, <1>9, <1>10,
           <1>11, <1>12, <1>13, <1>14, <1>15, <1>16, <1>17, <1>18, <1>19,
           <1>20, <1>21
    DEF Next, RequestStep, DeleteStep

(* A live job keeps its lease.                                             *)
LEMMA LeasedStep ==
  ASSUME TypeOK, Staged, Deaths, InTurn, ~overlap', [Next]_vars
  PROVE  Leased'
<1> USE Bounds DEF TypeOK, Staged, Deaths, InTurn, OneAtATime, Knows,
                   Leased, LeaseBacked, Live, queue, disk, web, run, past,
                   worker
<1>1. ASSUME NEW p \in Procs, Request(p) PROVE Leased'
  BY <1>1 DEF Request, Begin, At, Go
<1>2. ASSUME NEW p \in Procs, CacheExpires(p) PROVE Leased'
  BY <1>2 DEF CacheExpires
<1>3. ASSUME NEW p \in Procs, Upsert(p) PROVE Leased'
  BY <1>3 DEF Upsert, At, Go, Updated
<1>4. ASSUME NEW p \in Procs, Uncancel(p) PROVE Leased'
  BY <1>4 DEF Uncancel, At, Go
<1>5. ASSUME NEW p \in Procs, Lookup(p) PROVE Leased'
  BY <1>5 DEF Lookup, At, Go, Ends
<1>6. ASSUME NEW p \in Procs, RemoveFinished(p) PROVE Leased'
  BY <1>6 DEF RemoveFinished, Remove, Removed, At, Go
<1>7. ASSUME NEW p \in Procs, ReleaseFinished(p) PROVE Leased'
  BY <1>7 DEF ReleaseFinished, Release, At, Go
<1>8. ASSUME NEW p \in Procs, Reserve(p) PROVE Leased'
  BY <1>8 DEF Reserve, At, Go
<1>9. ASSUME NEW p \in Procs, Add(p) PROVE Leased'
  BY <1>9 DEF Add, At, Go, Ends
<1>10. ASSUME NEW p \in Procs, AddFails(p) PROVE Leased'
  BY <1>10 DEF AddFails, At, Go, Ends
<1>11. ASSUME NEW p \in Procs, Refused(p) PROVE Leased'
  BY <1>11 DEF Refused, At, Go, Ends, Updated
<1>12. ASSUME NEW p \in Procs, Delete(p) PROVE Leased'
  BY <1>12 DEF Delete, Begin, At, Go
<1>13. ASSUME NEW p \in Procs, DelLookup(p) PROVE Leased'
  BY <1>13 DEF DelLookup, At, Go
<1>14. ASSUME NEW p \in Procs, DelRemove(p) PROVE Leased'
  BY <1>14 DEF DelRemove, Remove, Removed, At, Go
<1>15. ASSUME NEW p \in Procs, DelRelease(p) PROVE Leased'
  BY <1>15 DEF DelRelease, Release, At, Go
<1>16. ASSUME NEW p \in Procs, DelList(p) PROVE Leased'
  BY <1>16 DEF DelList, At, Go
<1>17. ASSUME NEW p \in Procs, DelFiles(p) PROVE Leased'
  BY <1>17 DEF DelFiles, At, Go
<1>18. ASSUME NEW p \in Procs, DelManifest(p) PROVE Leased'
  BY <1>18 DEF DelManifest, At, Go
<1>19. ASSUME NEW p \in Procs, DelRow(p) PROVE Leased'
  BY <1>19 DEF DelRow, At, Go, Ends
<1>20. ASSUME NEW f \in Formats, FetchDone(f) PROVE Leased'
  BY <1>20 DEF FetchDone
<1>21. ASSUME NEW f \in Formats, FetchFails(f) PROVE Leased'
  BY <1>21 DEF FetchFails
<1>22. ASSUME NEW f \in Formats, CommitFormat(f) PROVE Leased'
  BY <1>22 DEF CommitFormat
<1>23. CASE Claim
  BY <1>23 DEF Claim
<1>24. CASE Expired
  BY <1>24 DEF Expired, Updated
<1>25. CASE NoRoom
  BY <1>25 DEF NoRoom
<1>26. CASE Start
  BY <1>26 DEF Start
<1>27. CASE SeeCancel
  BY <1>27 DEF SeeCancel
<1>28. CASE Settled
  BY <1>28 DEF Settled
<1>29. CASE ReadManifest
  BY <1>29 DEF ReadManifest
<1>30. CASE RecordFormats
  BY <1>30 DEF RecordFormats
<1>31. CASE Complete
  BY <1>31 DEF Complete, Updated
<1>32. CASE CommitFails
  BY <1>32 DEF CommitFails
<1>33. CASE Rollback
  BY <1>33 DEF Rollback
<1>34. CASE RereadManifest
  BY <1>34 DEF RereadManifest
<1>35. CASE UnrecordFormats
  BY <1>35 DEF UnrecordFormats
<1>36. CASE Fail
  BY <1>36 DEF Fail, Updated
<1>37. CASE ReleaseAdmission
  BY <1>37 DEF ReleaseAdmission
<1>38. CASE Return
  BY <1>38 DEF Return
<1>39. CASE Crash
  BY <1>39 DEF Crash
<1>40. CASE Stalled
  BY <1>40 DEF Stalled
<1>41. CASE Retired
  BY <1>41 DEF Retired
<1>42. CASE PruneStale
  BY <1>42 DEF PruneStale
<1>43. CASE SweepParts
  BY <1>43 DEF SweepParts
<1>44. CASE UNCHANGED vars
  BY <1>44 DEF vars
<1> QED BY <1>1, <1>2, <1>3, <1>4, <1>5, <1>6, <1>7, <1>8, <1>9, <1>10,
           <1>11, <1>12, <1>13, <1>14, <1>15, <1>16, <1>17, <1>18, <1>19,
           <1>20, <1>21, <1>22, <1>23, <1>24, <1>25, <1>26, <1>27, <1>28,
           <1>29, <1>30, <1>31, <1>32, <1>33, <1>34, <1>35, <1>36, <1>37,
           <1>38, <1>39, <1>40, <1>41, <1>42, <1>43, <1>44
    DEF Next, RequestStep, DeleteStep, WorkerStep

(* A worker whose job was cancelled has the cancel key to read.            *)
LEMMA HeardStep ==
  ASSUME TypeOK, Staged, InTurn, ~overlap', [Next]_vars
  PROVE  CancelHeard'
<1> USE DEF TypeOK, Staged, InTurn, OneAtATime, Knows, CancelHeard, queue,
            disk, web, run, past, worker
<1>1. ASSUME NEW p \in Procs, Request(p) PROVE CancelHeard'
  BY <1>1 DEF Request, Begin, At, Go
<1>2. ASSUME NEW p \in Procs, CacheExpires(p) PROVE CancelHeard'
  BY <1>2 DEF CacheExpires
<1>3. ASSUME NEW p \in Procs, Upsert(p) PROVE CancelHeard'
  BY <1>3 DEF Upsert, At, Go, Updated
<1>4. ASSUME NEW p \in Procs, Uncancel(p) PROVE CancelHeard'
  BY <1>4 DEF Uncancel, At, Go
<1>5. ASSUME NEW p \in Procs, Lookup(p) PROVE CancelHeard'
  BY <1>5 DEF Lookup, At, Go, Ends
<1>6. ASSUME NEW p \in Procs, RemoveFinished(p) PROVE CancelHeard'
  BY <1>6 DEF RemoveFinished, Remove, Removed, At, Go
<1>7. ASSUME NEW p \in Procs, ReleaseFinished(p) PROVE CancelHeard'
  BY <1>7 DEF ReleaseFinished, Release, At, Go
<1>8. ASSUME NEW p \in Procs, Reserve(p) PROVE CancelHeard'
  BY <1>8 DEF Reserve, At, Go
<1>9. ASSUME NEW p \in Procs, Add(p) PROVE CancelHeard'
  BY <1>9 DEF Add, At, Go, Ends
<1>10. ASSUME NEW p \in Procs, AddFails(p) PROVE CancelHeard'
  BY <1>10 DEF AddFails, At, Go, Ends
<1>11. ASSUME NEW p \in Procs, Refused(p) PROVE CancelHeard'
  BY <1>11 DEF Refused, At, Go, Ends, Updated
<1>12. ASSUME NEW p \in Procs, Delete(p) PROVE CancelHeard'
  BY <1>12 DEF Delete, Begin, At, Go
<1>13. ASSUME NEW p \in Procs, DelLookup(p) PROVE CancelHeard'
  BY <1>13 DEF DelLookup, At, Go
<1>14. ASSUME NEW p \in Procs, DelRemove(p) PROVE CancelHeard'
  BY <1>14 DEF DelRemove, Remove, Removed, At, Go
<1>15. ASSUME NEW p \in Procs, DelRelease(p) PROVE CancelHeard'
  BY <1>15 DEF DelRelease, Release, At, Go
<1>16. ASSUME NEW p \in Procs, DelList(p) PROVE CancelHeard'
  BY <1>16 DEF DelList, At, Go
<1>17. ASSUME NEW p \in Procs, DelFiles(p) PROVE CancelHeard'
  BY <1>17 DEF DelFiles, At, Go
<1>18. ASSUME NEW p \in Procs, DelManifest(p) PROVE CancelHeard'
  BY <1>18 DEF DelManifest, At, Go
<1>19. ASSUME NEW p \in Procs, DelRow(p) PROVE CancelHeard'
  BY <1>19 DEF DelRow, At, Go, Ends
<1>20. ASSUME NEW f \in Formats, FetchDone(f) PROVE CancelHeard'
  BY <1>20 DEF FetchDone
<1>21. ASSUME NEW f \in Formats, FetchFails(f) PROVE CancelHeard'
  BY <1>21 DEF FetchFails
<1>22. ASSUME NEW f \in Formats, CommitFormat(f) PROVE CancelHeard'
  BY <1>22 DEF CommitFormat
<1>23. CASE Claim
  BY <1>23 DEF Claim
<1>24. CASE Expired
  BY <1>24 DEF Expired, Updated
<1>25. CASE NoRoom
  BY <1>25 DEF NoRoom
<1>26. CASE Start
  BY <1>26 DEF Start
<1>27. CASE SeeCancel
  BY <1>27 DEF SeeCancel
<1>28. CASE Settled
  BY <1>28 DEF Settled
<1>29. CASE ReadManifest
  BY <1>29 DEF ReadManifest
<1>30. CASE RecordFormats
  BY <1>30 DEF RecordFormats
<1>31. CASE Complete
  BY <1>31 DEF Complete, Updated
<1>32. CASE CommitFails
  BY <1>32 DEF CommitFails
<1>33. CASE Rollback
  BY <1>33 DEF Rollback
<1>34. CASE RereadManifest
  BY <1>34 DEF RereadManifest
<1>35. CASE UnrecordFormats
  BY <1>35 DEF UnrecordFormats
<1>36. CASE Fail
  BY <1>36 DEF Fail, Updated
<1>37. CASE ReleaseAdmission
  BY <1>37 DEF ReleaseAdmission
<1>38. CASE Return
  BY <1>38 DEF Return
<1>39. CASE Crash
  BY <1>39 DEF Crash
<1>40. CASE Stalled
  BY <1>40 DEF Stalled
<1>41. CASE Retired
  BY <1>41 DEF Retired
<1>42. CASE PruneStale
  BY <1>42 DEF PruneStale
<1>43. CASE SweepParts
  BY <1>43 DEF SweepParts
<1>44. CASE UNCHANGED vars
  BY <1>44 DEF vars
<1> QED BY <1>1, <1>2, <1>3, <1>4, <1>5, <1>6, <1>7, <1>8, <1>9, <1>10,
           <1>11, <1>12, <1>13, <1>14, <1>15, <1>16, <1>17, <1>18, <1>19,
           <1>20, <1>21, <1>22, <1>23, <1>24, <1>25, <1>26, <1>27, <1>28,
           <1>29, <1>30, <1>31, <1>32, <1>33, <1>34, <1>35, <1>36, <1>37,
           <1>38, <1>39, <1>40, <1>41, <1>42, <1>43, <1>44
    DEF Next, RequestStep, DeleteStep, WorkerStep

-----------------------------------------------------------------------------
(* The invariant holds at the start.                                       *)
LEMMA JobInit == Init => JobInv
<1> SUFFICES ASSUME Init PROVE JobInv
  OBVIOUS
<1> USE DEF Init
<1>1. files \subseteq Formats
  BY JobAssumption
<1>2. TypeOK
  <2>1. WebTypeOK
    BY DEF WebTypeOK
  <2>2. RestTypeOK
    <3>1. row \in {"none", "error"}
      OBVIOUS
    <3>2. crashes \in 0..MaxCrashes /\ stalls \in 0..MaxStalls
      BY Bounds
    <3> QED BY <1>1, <3>1, <3>2 DEF RestTypeOK
  <2> QED BY <2>1, <2>2 DEF TypeOK, WebTypeOK, RestTypeOK
<1>3. Staged /\ Kept /\ PartsOwned /\ Accounted /\ Servable
  BY DEF Staged, Kept, PartsOwned, Accounted, Servable
<1>4. Asked /\ Deaths
  BY Bounds DEF Asked, Deaths, ReqSteps, Live
<1>5. InTurn
  BY DEF InTurn, OneAtATime, Knows, Leased, LeaseBacked, CancelHeard
<1> QED BY <1>2, <1>3, <1>4, <1>5 DEF JobInv

(* The three facts above make up InTurn, which every step keeps.           *)
LEMMA InTurnStep ==
  ASSUME TypeOK, Staged, Deaths, InTurn, [Next]_vars
  PROVE  InTurn'
<1> SUFFICES ASSUME ~overlap'
             PROVE  (OneAtATime /\ (\A p \in Procs : Knows(p)) /\ Leased
                       /\ CancelHeard)'
  BY DEF InTurn
<1>1. OneAtATime'
  BY OneStep DEF InTurn
<1>2. ASSUME NEW p \in Procs PROVE Knows(p)'
  BY KnowsStep
<1> QED BY <1>1, <1>2, LeasedStep, HeardStep

(* The invariant is inductive.                                             *)
LEMMA JobStep ==
  ASSUME JobInv, [Next]_vars
  PROVE  JobInv'
<1> USE DEF JobInv
<1>1. TypeOK'
  BY HandlersTyped, RestTyped DEF TypeOK, WebTypeOK, RestTypeOK
<1>2. Staged' /\ Asked' /\ Kept'
  BY StagedStep, AskedStep, KeptStep
<1>3. PartsOwned' /\ Accounted' /\ Servable'
  BY PartsStep, AccountedStep, ServableStep
<1>4. Deaths' /\ InTurn'
  BY DeathsStep, InTurnStep
<1> QED BY <1>1, <1>2, <1>3, <1>4

(* It holds in every behaviour of the specification.                       *)
LEMMA JobInvariant == Spec => []JobInv
<1> QED BY JobInit, JobStep, PTL DEF Spec

(* And it implies the property the run checks.                             *)
LEMMA JobInvSafe == JobInv => JobSafe
<1> SUFFICES ASSUME JobInv PROVE JobSafe
  OBVIOUS
<1>1. crashes = 0 => NoStrayParts
  BY DEF JobInv, PartsOwned, NoStrayParts
<1>2. crashes = 0 /\ deleted = "never" => ManifestTellsTheTruth
  BY DEF JobInv, Accounted, ManifestTellsTheTruth
<1>3. crashes = 0 /\ deleted = "never" => CompleteIsServable
  BY <1>2 DEF JobInv, Servable, Undoing, ManifestTellsTheTruth,
              CompleteIsServable
<1>4. TypeOK /\ (~overlap => LeaseBacked)
  BY DEF JobInv, InTurn, Leased
<1> QED BY <1>1, <1>2, <1>3, <1>4 DEF JobSafe

(* However many formats and web processes there are: before any worker has *)
(* died no part file outlives its run; before any deletion, too, files and *)
(* manifest agree whenever no worker is on the job and a complete row has  *)
(* something to serve; and no admission lease outlives its job while       *)
(* requests and deletions do not overlap, whoever dies.                    *)
THEOREM JobIsSafe == Spec => []JobSafe
<1> QED BY JobInvariant, JobInvSafe, PTL

(* The step from complete to release leaves the disk alone.                *)
LEMMA OnlyComplete ==
  ASSUME [Next]_vars, wpc = "complete", wpc' = "release"
  PROVE  UNCHANGED disk
<1>1. ASSUME NEW p \in Procs, RequestStep(p) \/ DeleteStep(p)
      PROVE  UNCHANGED wpc
  BY <1>1 DEF RequestStep, DeleteStep, Request, CacheExpires, Upsert,
              Uncancel, Lookup, RemoveFinished, ReleaseFinished, Reserve,
              Add, AddFails, Refused, Delete, DelLookup, DelRemove,
              DelRelease, DelList, DelFiles, DelManifest, DelRow, Begin,
              At, Go, Ends, Remove, Removed, Release, queue, disk, web,
              run, past, worker
<1>2. WorkerStep \/ Crash \/ Stalled \/ Retired \/ PruneStale \/ SweepParts
  BY <1>1 DEF Next, vars, worker, run
<1> QED BY <1>2 DEF WorkerStep, FetchDone, FetchFails, CommitFormat, Claim,
                    Expired, NoRoom, Start, SeeCancel, Settled,
                    ReadManifest, RecordFormats, Complete, CommitFails,
                    Rollback, RereadManifest, UnrecordFormats, Fail,
                    ReleaseAdmission, Return, Crash, Stalled, Retired,
                    PruneStale, SweepParts, queue, disk, web, run, past,
                    worker

(* A row becomes complete only over files and records that are there,      *)
(* whatever requests, crashes and failures came before, unless the viewer  *)
(* deletes them under the worker.                                          *)
THEOREM CompletionIsTrueAlways == Spec => CompletionIsTrue
<1>1. ASSUME JobInv, [Next]_vars, wpc = "complete", wpc' = "release",
             deleted # "now"
      PROVE  want \subseteq files' \cap manifest'
  <2>1. UNCHANGED disk /\ want \subseteq files /\ want \subseteq manifest
    BY <1>1, OnlyComplete DEF JobInv, Staged, Kept
  <2> QED BY <2>1 DEF disk
<1>2. ASSUME JobInv, [Next]_vars
      PROVE  [(/\ wpc = "complete" /\ wpc' = "release"
               /\ row' = "complete" /\ deleted # "now") =>
                 want \subseteq files' \cap manifest']_vars
  BY <1>1, <1>2
<1> QED BY <1>2, JobInvariant, PTL DEF Spec, CompletionIsTrue

(* A job that waits in the queue while its video is deleted never runs,    *)
(* unless requests and deletions overlap or it had been running before.    *)
THEOREM CancelledJobsNeverStart == Spec => CancelledJobNeverStarts
<1>1. ASSUME JobInv, [Next]_vars, job = "waiting", job' = "active",
             stalls = 0, ~overlap, cancel
      PROVE  \E p \in Procs : pc[p] \in DelSteps
  BY <1>1 DEF JobInv, InTurn, CancelHeard, DelSteps
<1>2. ASSUME JobInv, [Next]_vars
      PROVE  [(job = "waiting" /\ job' = "active" /\ stalls = 0 /\ ~overlap) =>
                ~cancel \/ \E p \in Procs : pc[p] \in DelSteps]_vars
  BY <1>1, <1>2
<1> QED BY <1>2, JobInvariant, PTL DEF Spec, CancelledJobNeverStarts
=============================================================================
