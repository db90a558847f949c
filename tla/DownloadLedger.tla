--------------------------- MODULE DownloadLedger ---------------------------
(***************************************************************************)
(* The byte accounting of the download library: stored_bytes in the        *)
(* database, the reservations of running downloads, the files themselves   *)
(* and the reconciliation that recounts them (lib/download-storage.ts,     *)
(* with the steps of download-worker.ts and routes/stream/downloads.ts     *)
(* that rename, count and delete files).                                   *)
(*                                                                         *)
(* One download writes one file.  With Clustered the reservations live in  *)
(* Redis and a script decides; without, in the process, under              *)
(* withLocalReservationLock.  Sizes are in units of some bytes, the free   *)
(* space on the disk is ample, and a download never turns out larger than  *)
(* what was reserved for it.                                               *)
(***************************************************************************)
EXTENDS Integers, FiniteSets, Functions

CONSTANTS Files,       \* final paths; a download of each may run at any time
          MaxSize,     \* sizes are 1..MaxSize
          Limit,       \* DOWNLOAD_STORAGE_MAX_BYTES
          Clustered,   \* reservations in Redis
          Reconciling, \* scheduleDownloadStorageReconciliation was called
          MaxFaults,   \* bound: failed counter updates, dead workers and
                       \* reservations that outlast their lease
          None

ASSUME LedgerAssumption ==
  /\ IsFiniteSet(Files) /\ None \notin Files
  /\ MaxSize \in Nat \ {0} /\ Limit \in Nat \ {0}
  /\ Clustered \in BOOLEAN /\ Reconciling \in BOOLEAN
  /\ MaxFaults \in Nat

VARIABLES
  stored,   \* download_storage_usage.stored_bytes
  mutated,  \* mutation_version has changed since the scan read it
  size,     \* bytes of each final file, 0 when there is none
  listed,   \* size of each file according to its manifest
  reserved, \* reservation of each file's download, 0 when there is none
  pc,       \* where each file's download is
  snap,     \* stored_bytes as the download read it
  ask,      \* bytes it asks for, later those it wrote
  previous, \* size of the file it replaced
  lock,     \* holder of withLocalReservationLock
  deleting, \* bytes unlinked by a deletion and not yet subtracted
  scan,     \* the reconciliation: files it still has to stat, their sum
  faults

job == <<pc, snap, ask, previous, lock>>
usage == <<stored, mutated>>
vars == <<usage, size, listed, reserved, job, deleting, scan, faults>>

NoScan == [on |-> FALSE, left |-> {}, sum |-> 0]

Init ==
  /\ stored = 0 /\ mutated = FALSE
  /\ size = [f \in Files |-> 0]
  /\ listed = [f \in Files |-> 0]
  /\ reserved = [f \in Files |-> 0]
  /\ pc = [f \in Files |-> "idle"]
  /\ snap = [f \in Files |-> 0]
  /\ ask = [f \in Files |-> 0]
  /\ previous = [f \in Files |-> 0]
  /\ lock = None
  /\ deleting = [f \in Files |-> 0]
  /\ scan = NoScan
  /\ faults = 0

At(f, step) == pc[f] = step
Go(f, step) == pc' = [pc EXCEPT ![f] = step]

(* The download is over: its locals are gone.                              *)
End(f) ==
  /\ Go(f, "idle")
  /\ ask' = [ask EXCEPT ![f] = 0]
  /\ snap' = [snap EXCEPT ![f] = 0]
  /\ previous' = [previous EXCEPT ![f] = 0]

(* UPDATE ... SET stored_bytes = MAX(0, stored_bytes + delta), with a new  *)
(* mutation_version.                                                       *)
Adjust(delta) ==
  /\ stored' = IF stored + delta > 0 THEN stored + delta ELSE 0
  /\ mutated' = scan.on

-----------------------------------------------------------------------------
(* The usage is read; a request that alone would pass the limit ends here. *)
(* A listed file is asked for again only when another process lists it.    *)
ReadUsage(f) ==
  /\ At(f, "idle")
  /\ Clustered \/ listed[f] = 0
  /\ lock = None
  /\ \E b \in 1..MaxSize :
       /\ stored + b <= Limit
       /\ ask' = [ask EXCEPT ![f] = b]
  /\ snap' = [snap EXCEPT ![f] = stored]
  /\ lock' = IF Clustered THEN None ELSE f
  /\ Go(f, "decide")
  /\ UNCHANGED <<usage, size, listed, reserved, previous, deleting, scan,
                faults>>

(* Reserved by the other downloads; one's own old reservation is replaced. *)
ByOthers(f) == SumFunction([reserved EXCEPT ![f] = 0])

(* Fault: only this download's own request is compared.                    *)
Fits_Alone(f) == ask[f] <= Limit - snap[f]

Fits(f) == ByOthers(f) + ask[f] <= Limit - snap[f]

(* Fault: the reservation is never stored.                                 *)
Reserve_Unstored(f) ==
  /\ At(f, "decide")
  /\ lock' = None
  /\ IF Fits(f) THEN Go(f, "writing") /\ UNCHANGED <<ask, snap, previous>>
     ELSE End(f)
  /\ UNCHANGED <<usage, size, listed, reserved, deleting, scan, faults>>

Reserve(f) ==
  /\ At(f, "decide")
  /\ lock' = None
  /\ IF Fits(f)
     THEN /\ reserved' = [reserved EXCEPT ![f] = ask[f]]
          /\ snap' = [snap EXCEPT ![f] = 0]
          /\ Go(f, "writing")
          /\ UNCHANGED <<ask, previous>>
     ELSE End(f) /\ UNCHANGED reserved
  /\ UNCHANGED <<usage, size, listed, deleting, scan, faults>>

(* Fault: a download may write more than it reserved.                      *)
StatPrevious_Larger(f) ==
  /\ At(f, "writing")
  /\ ask' = [ask EXCEPT ![f] = MaxSize + 1]
  /\ previous' = [previous EXCEPT ![f] = size[f]]
  /\ Go(f, "rename")
  /\ UNCHANGED <<usage, size, listed, reserved, snap, lock, deleting, scan,
                faults>>

(* The bytes are in the part file, perhaps fewer than reserved; what is at *)
(* the final path is looked at and then replaced.                          *)
StatPrevious(f) ==
  /\ At(f, "writing")
  /\ \E b \in 1..ask[f] : ask' = [ask EXCEPT ![f] = b]
  /\ previous' = [previous EXCEPT ![f] = size[f]]
  /\ Go(f, "rename")
  /\ UNCHANGED <<usage, size, listed, reserved, snap, lock, deleting, scan,
                faults>>

Rename(f) ==
  /\ At(f, "rename")
  /\ size' = [size EXCEPT ![f] = ask[f]]
  /\ Go(f, "renamed")
  /\ UNCHANGED <<usage, listed, reserved, snap, ask, previous, lock, deleting,
                scan, faults>>

Count(f) ==
  /\ At(f, "renamed")
  /\ Adjust(ask[f] - previous[f])
  /\ Go(f, "counted")
  /\ UNCHANGED <<size, listed, reserved, snap, ask, previous, lock, deleting,
                scan, faults>>

(* recordDownloadedFormats.                                                *)
Record(f) ==
  /\ At(f, "counted")
  /\ listed' = [listed EXCEPT ![f] = ask[f]]
  /\ Go(f, "recorded")
  /\ UNCHANGED <<usage, size, reserved, snap, ask, previous, lock, deleting,
                scan, faults>>

Complete(f) ==
  /\ At(f, "recorded")
  /\ Go(f, "release")
  /\ UNCHANGED <<usage, size, listed, reserved, snap, ask, previous, lock,
                deleting, scan, faults>>

WriteFails(f) ==
  /\ At(f, "writing")
  /\ Go(f, "release")
  /\ UNCHANGED <<usage, size, listed, reserved, snap, ask, previous, lock,
                deleting, scan, faults>>

(* The counter update throws: the file goes, nothing is subtracted.        *)
CountFails(f) ==
  /\ At(f, "renamed")
  /\ faults < MaxFaults
  /\ faults' = faults + 1
  /\ size' = [size EXCEPT ![f] = 0]
  /\ listed' = [listed EXCEPT ![f] = 0]
  /\ Go(f, "release")
  /\ UNCHANGED <<usage, reserved, snap, ask, previous, lock, deleting, scan>>

(* Fault: the bytes already counted are not subtracted.                    *)
UndoLocal_StillCounted(f) ==
  /\ ~Clustered /\ pc[f] \in {"counted", "recorded"}
  /\ listed' = [listed EXCEPT ![f] = 0]
  /\ size' = [size EXCEPT ![f] = 0]
  /\ Go(f, "release")
  /\ UNCHANGED <<usage, reserved, snap, ask, previous, lock, deleting, scan,
                faults>>

(* In the process it is unlisted first; cleanupBgDownload then unlinks it  *)
(* and subtracts on its own time, unless the entry was already done.       *)
UndoLocal(f) ==
  /\ ~Clustered /\ pc[f] \in {"counted", "recorded"}
  /\ listed' = [listed EXCEPT ![f] = 0]
  /\ IF At(f, "counted")
     THEN /\ size' = [size EXCEPT ![f] = 0]
          /\ deleting' = [deleting EXCEPT ![f] = @ + ask[f]]
     ELSE UNCHANGED <<size, deleting>>
  /\ Go(f, "release")
  /\ UNCHANGED <<usage, reserved, snap, ask, previous, lock, scan, faults>>

(* A later step of the worker throws: the file goes, then its bytes.       *)
Undo(f) ==
  /\ Clustered /\ pc[f] \in {"counted", "recorded"}
  /\ size' = [size EXCEPT ![f] = 0]
  /\ Go(f, IF size[f] = 0 THEN "unlist" ELSE "uncount")
  /\ UNCHANGED <<usage, listed, reserved, snap, ask, previous, lock, deleting,
                scan, faults>>

Uncount(f) ==
  /\ At(f, "uncount")
  /\ Adjust(-ask[f])
  /\ Go(f, "unlist")
  /\ UNCHANGED <<size, listed, reserved, snap, ask, previous, lock, deleting,
                scan, faults>>

(* removeDownloadedFormatRecords.                                          *)
Unlist(f) ==
  /\ At(f, "unlist")
  /\ listed' = [listed EXCEPT ![f] = 0]
  /\ Go(f, "release")
  /\ UNCHANGED <<usage, size, reserved, snap, ask, previous, lock, deleting,
                scan, faults>>

Release(f) ==
  /\ At(f, "release")
  /\ lock = None
  /\ reserved' = [reserved EXCEPT ![f] = 0]
  /\ End(f)
  /\ UNCHANGED <<usage, size, listed, lock, deleting, scan, faults>>

(* The worker dies; its reservation in Redis stays until the lease ends.   *)
Crash(f) ==
  /\ Clustered /\ ~At(f, "idle")
  /\ faults < MaxFaults
  /\ faults' = faults + 1
  /\ End(f)
  /\ UNCHANGED <<usage, size, listed, reserved, lock, deleting, scan>>

ReservationExpires(f) ==
  /\ Clustered /\ reserved[f] > 0
  /\ faults < MaxFaults
  /\ faults' = faults + 1
  /\ reserved' = [reserved EXCEPT ![f] = 0]
  /\ UNCHANGED <<usage, size, listed, job, deleting, scan>>

-----------------------------------------------------------------------------
(* deleteVideoDownloadFiles unlinks what the manifest lists and subtracts  *)
(* the listed sizes of what it could unlink.                               *)
DeleteFile(f) ==
  /\ listed[f] > 0 /\ deleting[f] = 0
  /\ deleting' = [deleting EXCEPT ![f] = IF size[f] > 0 THEN listed[f] ELSE 0]
  /\ size' = [size EXCEPT ![f] = 0]
  /\ listed' = [listed EXCEPT ![f] = 0]
  /\ UNCHANGED <<usage, reserved, job, scan, faults>>

Subtract(f) ==
  /\ deleting[f] > 0
  /\ Adjust(-deleting[f])
  /\ deleting' = [deleting EXCEPT ![f] = 0]
  /\ UNCHANGED <<size, listed, reserved, job, scan, faults>>

(* The update throws, or the process dies before it.                       *)
SubtractFails(f) ==
  /\ deleting[f] > 0
  /\ faults < MaxFaults
  /\ faults' = faults + 1
  /\ deleting' = [deleting EXCEPT ![f] = 0]
  /\ UNCHANGED <<usage, size, listed, reserved, job, scan>>

-----------------------------------------------------------------------------
(* reconcileDownloadStorageUsage: read the version, stat every file, and   *)
(* store the sum if the version is still the same.                         *)
ScanBegin ==
  /\ Reconciling /\ ~scan.on
  /\ scan' = [on |-> TRUE, left |-> Files, sum |-> 0]
  /\ mutated' = FALSE
  /\ UNCHANGED <<stored, size, listed, reserved, job, deleting, faults>>

Stat(f) ==
  /\ scan.on /\ f \in scan.left
  /\ scan' = [scan EXCEPT !.left = @ \ {f}, !.sum = @ + size[f]]
  /\ UNCHANGED <<usage, size, listed, reserved, job, deleting, faults>>

(* Fault: the sum is not stored.                                           *)
ScanEnd_Dropped ==
  /\ scan.on /\ scan.left = {}
  /\ scan' = NoScan
  /\ UNCHANGED <<usage, size, listed, reserved, job, deleting, faults>>

ScanEnd ==
  /\ scan.on /\ scan.left = {}
  /\ stored' = IF mutated THEN stored ELSE scan.sum
  /\ mutated' = FALSE
  /\ scan' = NoScan
  /\ UNCHANGED <<size, listed, reserved, job, deleting, faults>>

DownloadStep(f) ==
  \/ Reserve(f) \/ StatPrevious(f) \/ Rename(f) \/ Count(f)
  \/ Record(f) \/ Complete(f) \/ WriteFails(f) \/ CountFails(f)
  \/ Undo(f) \/ UndoLocal(f) \/ Uncount(f) \/ Unlist(f) \/ Release(f)

Next ==
  \/ \E f \in Files :
       \/ ReadUsage(f) \/ DownloadStep(f) \/ Crash(f) \/ ReservationExpires(f)
       \/ DeleteFile(f) \/ Subtract(f) \/ SubtractFails(f) \/ Stat(f)
  \/ ScanBegin \/ ScanEnd

Spec == Init /\ [][Next]_vars

(* The reconciliation runs on a timer and reads the directory to its end.  *)
FairSpec ==
  /\ Spec
  /\ WF_vars(ScanBegin) /\ WF_vars(ScanEnd)
  /\ \A f \in Files : WF_vars(Stat(f))

-----------------------------------------------------------------------------
TypeOK ==
  /\ stored \in Nat /\ mutated \in BOOLEAN
  /\ size \in [Files -> 0..MaxSize]
  /\ listed \in [Files -> 0..MaxSize]
  /\ reserved \in [Files -> 0..MaxSize]
  /\ deleting \in [Files -> Nat]
  /\ pc \in [Files -> {"idle", "decide", "writing", "rename", "renamed",
                      "counted", "recorded", "uncount", "unlist", "release"}]
  /\ snap \in [Files -> Nat] /\ ask \in [Files -> 0..MaxSize]
  /\ previous \in [Files -> 0..MaxSize]
  /\ lock \in Files \cup {None}
  /\ scan \in [on : BOOLEAN, left : SUBSET Files, sum : Nat]
  /\ faults \in 0..MaxFaults

(* The library stays within its configured size, whatever downloads and    *)
(* deletions run at once.                                                  *)
LibraryWithinLimit == SumFunction(size) <= Limit

(* No capacity is promised twice: what is stored and what downloads that   *)
(* are not yet counted may still write fit together.                       *)
Uncounted(f) ==
  IF pc[f] \in {"writing", "rename", "renamed"} THEN reserved[f] ELSE 0
CapacityPromisedOnce ==
  stored + SumFunction([f \in Files |-> Uncounted(f)]) <= Limit

(* With no download and no deletion under way the counter is the library,  *)
(* unless an update of it has failed.                                      *)
Settled == \A f \in Files : At(f, "idle") /\ deleting[f] = 0
CounterExact == Settled /\ faults = 0 => stored = SumFunction(size)

(* Whatever drift crashes, failed updates and races of the scan itself     *)
(* have caused, the counter is right again once the library rests.         *)
CounterHeals == <>[]Settled => <>[](stored = SumFunction(size))

(* The accounts are right: no capacity is promised twice, and the counter  *)
(* is exact whenever nothing is under way.                                 *)
AccountsExact == CapacityPromisedOnce /\ CounterExact

(* The ledger is right: well typed, within its limit, and exact.           *)
LedgerSafe == TypeOK /\ LibraryWithinLimit /\ AccountsExact
=============================================================================
