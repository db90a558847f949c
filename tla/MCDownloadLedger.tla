-------------------------- MODULE MCDownloadLedger --------------------------
(* Three files, or two where the reservations live in Redis.  In the part  *)
(* "heal" the counter drifts and the reconciliation runs.                   *)
EXTENDS DownloadLedger

CONSTANTS f1, f2, f3

VARIABLES part, healStored, healMutated, healSize, healListed, healReserved,
          healPc, healSnap, healAsk, healPrevious, healLock, healDeleting,
          healScan, healFaults

downloadLedgerVars ==
  <<healStored, healMutated, healSize, healListed, healReserved, healPc,
    healSnap, healAsk, healPrevious, healLock, healDeleting, healScan,
    healFaults>>

ThreeFiles == {f1, f2, f3}
TwoFiles == {f1, f2}

Heal == INSTANCE DownloadLedger WITH
  Files <- TwoFiles, MaxSize <- 1, Limit <- 1, Clustered <- TRUE,
  Reconciling <- TRUE, stored <- healStored, mutated <- healMutated,
  size <- healSize, listed <- healListed, reserved <- healReserved,
  pc <- healPc, snap <- healSnap, ask <- healAsk, previous <- healPrevious,
  lock <- healLock, deleting <- healDeleting, scan <- healScan,
  faults <- healFaults

(* Each part of the suite is a system of its own: the others rest.         *)
MCInit ==
  \/ /\ part = "gateway"
     /\ Init
     /\ Heal!Init
  \/ /\ part = "heal"
     /\ Heal!Init
     /\ Init
MCNext ==
  /\ UNCHANGED part
  /\ \/ /\ part = "gateway" /\ Next
        /\ UNCHANGED <<downloadLedgerVars>>
     \/ /\ part = "heal" /\ Heal!Next
        /\ UNCHANGED <<vars>>
MCVars == <<downloadLedgerVars, vars, part>>
StepIn(name, A, rest) ==
  part = name /\ A /\ UNCHANGED <<part, rest>>
MCSpec ==
  /\ MCInit /\ [][MCNext]_MCVars
  /\ WF_MCVars(StepIn("heal", Heal!ScanBegin, <<vars>>))
  /\ WF_MCVars(StepIn("heal", Heal!ScanEnd, <<vars>>))
  /\ \A f \in TwoFiles : WF_MCVars(StepIn("heal", Heal!Stat(f), <<vars>>))

(* See DownloadLedger: the counter agrees with the library again.          *)
DriftHeals == part = "heal" => Heal!CounterHeals
=============================================================================
