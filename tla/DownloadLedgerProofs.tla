------------------------ MODULE DownloadLedgerProofs ------------------------
(***************************************************************************)
(* The byte accounting of one process (reservations under                  *)
(* withLocalReservationLock), for every number of files, every size and    *)
(* every limit: the library never outgrows its limit.                      *)
(*                                                                         *)
(* The argument.  What the counter must have is, for every file, what a    *)
(* deletion has unlinked and not yet subtracted, and the file itself, or   *)
(* what was there before as long as a new file is not counted.  No step    *)
(* makes the counter less than that; only failures make it more.  A        *)
(* reservation covers what its download may still write, and whoever holds *)
(* the lock knows that nobody else can promise more than when it read the  *)
(* counter: what others count meanwhile was reserved.                      *)
(***************************************************************************)
EXTENDS DownloadLedger, DataFacts

(* Scans take part as long as what they store is true: it is refused       *)
(* because the counter changed meanwhile, or nothing is under way and the  *)
(* sum is that of the files.  (A scan that reads a file between its        *)
(* unlinking and its subtraction can store too little.)                    *)
TrueScans ==
  [][ScanEnd => mutated \/ (Settled /\ scan.sum = SumFunction(size))]_vars

(* Of each file, what the counter must have.                               *)
Accounted ==
  [f \in Files |->
     deleting[f] + IF At(f, "renamed") THEN previous[f] ELSE size[f]]
AllUncounted == [f \in Files |-> Uncounted(f)]

(* In one process these steps do not occur.                                *)
LocalTypeOK ==
  /\ TypeOK
  /\ pc \in [Files -> {"idle", "decide", "writing", "rename", "renamed",
                       "counted", "recorded", "release"}]

(* What a download knows is so: the file it is about to replace, the one   *)
(* it wrote, and that nobody lists it before it has recorded it.           *)
DownloadsKnow ==
  \A f \in Files :
    /\ pc[f] \in {"decide", "writing", "rename", "renamed", "counted"} =>
         listed[f] = 0
    /\ At(f, "rename") => previous[f] = size[f]
    /\ pc[f] \in {"renamed", "counted"} => size[f] = ask[f]
    /\ At(f, "recorded") /\ listed[f] > 0 => listed[f] = ask[f]
    /\ listed[f] > 0 => listed[f] = size[f]

Covered ==
  \A f \in Files :
    /\ pc[f] \in {"decide", "writing"} => ask[f] > 0
    /\ pc[f] \in {"writing", "rename", "renamed"} => ask[f] <= reserved[f]

(* The counter has at least what it must have, and exactly that as long as *)
(* nothing fails.                                                          *)
CounterCovers ==
  /\ SumFunction(Accounted) <= stored
  /\ faults = 0 => stored = SumFunction(Accounted)

(* Who has the lock is deciding, and what is stored and promised to others *)
(* is no more than what was stored when it looked and others reserved.     *)
ToOthers(f) == SumFunction([AllUncounted EXCEPT ![f] = 0])
HolderKnows(f) == stored + ToOthers(f) <= snap[f] + ByOthers(f)
LockHeld ==
  \A f \in Files :
    /\ At(f, "decide") <=> lock = f
    /\ At(f, "decide") => HolderKnows(f)

Inv ==
  /\ LocalTypeOK /\ DownloadsKnow /\ Covered /\ CounterCovers /\ LockHeld
  /\ CapacityPromisedOnce

-----------------------------------------------------------------------------
(* The steps that one process takes.                                       *)
LocalStep(f) ==
  \/ ReadUsage(f) \/ Reserve(f) \/ StatPrevious(f) \/ Rename(f) \/ Count(f)
  \/ Record(f) \/ Complete(f) \/ WriteFails(f) \/ CountFails(f)
  \/ UndoLocal(f) \/ Release(f)
  \/ DeleteFile(f) \/ Subtract(f) \/ SubtractFails(f)
ScanStep == ScanBegin \/ ScanEnd \/ \E f \in Files : Stat(f)

(* With one process a step is the scan's or one of a file's local ones.    *)
LEMMA LocalSteps ==
  ASSUME ~Clustered, LocalTypeOK, Next
  PROVE  ScanStep \/ \E f \in Files : LocalStep(f)
<1>1. \A f \in Files : ~Undo(f) /\ ~Uncount(f) /\ ~Unlist(f) /\ ~Crash(f)
                       /\ ~ReservationExpires(f)
  BY DEF LocalTypeOK, Undo, Uncount, Unlist, Crash, ReservationExpires, At
<1> QED
  BY <1>1 DEF Next, DownloadStep, LocalStep, ScanStep

(* Types.                                                                  *)
LEMMA SumsTyped ==
  ASSUME LocalTypeOK
  PROVE  /\ Accounted \in [Files -> Nat] /\ AllUncounted \in [Files -> Nat]
         /\ reserved \in [Files -> Nat] /\ size \in [Files -> Nat]
         /\ SumFunction(Accounted) \in Nat
         /\ SumFunction(AllUncounted) \in Nat
         /\ \A f \in Files : AllUncounted[f] <= reserved[f]
<1>1. MaxSize \in Nat /\ IsFiniteSet(Files)
  BY LedgerAssumption
<1>2. Accounted \in [Files -> Nat]
  BY <1>1 DEF LocalTypeOK, TypeOK, Accounted
<1>3. AllUncounted \in [Files -> Nat]
  BY <1>1 DEF LocalTypeOK, TypeOK, AllUncounted, Uncounted
<1>4. reserved \in [Files -> Nat] /\ size \in [Files -> Nat]
  BY <1>1 DEF LocalTypeOK, TypeOK
<1>5. SumFunction(Accounted) \in Nat /\ SumFunction(AllUncounted) \in Nat
  BY <1>1, <1>2, <1>3, FoldBounds
<1>6. \A f \in Files : AllUncounted[f] <= reserved[f]
  BY <1>4 DEF AllUncounted, Uncounted
<1> QED
  BY <1>2, <1>3, <1>4, <1>5, <1>6

(* A file's step keeps the types.                                          *)
LEMMA TypeStep ==
  ASSUME LocalTypeOK, NEW f \in Files, LocalStep(f)
  PROVE  LocalTypeOK'
<1> USE LedgerAssumption DEF LocalTypeOK, TypeOK, Adjust, Go, End, At
<1>1. CASE ReadUsage(f)
  BY <1>1 DEF ReadUsage, usage
<1>2. CASE Reserve(f)
  BY <1>2 DEF Reserve, usage
<1>3. CASE StatPrevious(f)
  BY <1>3 DEF StatPrevious, usage
<1>4. CASE Rename(f)
  BY <1>4 DEF Rename, usage
<1>5. CASE Count(f)
  BY <1>5 DEF Count
<1>6. CASE Record(f)
  BY <1>6 DEF Record, usage
<1>7. CASE Complete(f) \/ WriteFails(f)
  BY <1>7 DEF Complete, WriteFails, usage
<1>8. CASE CountFails(f)
  BY <1>8 DEF CountFails, usage
<1>9. CASE UndoLocal(f)
  BY <1>9 DEF UndoLocal, usage
<1>10. CASE Release(f)
  BY <1>10 DEF Release, usage
<1>11. CASE DeleteFile(f)
  BY <1>11 DEF DeleteFile, usage, job
<1>12. CASE Subtract(f)
  BY <1>12 DEF Subtract, job
<1>13. CASE SubtractFails(f)
  BY <1>13 DEF SubtractFails, usage, job
<1> QED
  BY <1>1, <1>2, <1>3, <1>4, <1>5, <1>6, <1>7, <1>8, <1>9, <1>10, <1>11,
     <1>12, <1>13 DEF LocalStep

(* The scan keeps the types.                                               *)
LEMMA TypeScan ==
  ASSUME LocalTypeOK, ScanStep
  PROVE  LocalTypeOK'
<1> USE LedgerAssumption DEF LocalTypeOK, TypeOK, usage, job, NoScan
<1>1. CASE ScanBegin
  BY <1>1 DEF ScanBegin
<1>2. CASE ScanEnd
  BY <1>2 DEF ScanEnd
<1>3. ASSUME NEW f \in Files, Stat(f)
      PROVE  LocalTypeOK'
  <2>1. /\ scan.left \ {f} \in SUBSET Files /\ scan.sum + size[f] \in Nat
        /\ scan.on \in BOOLEAN
    OBVIOUS
  <2>2. scan' = [on |-> scan.on, left |-> scan.left \ {f},
                 sum |-> scan.sum + size[f]]
    BY <1>3 DEF Stat
  <2>3. scan' \in [on : BOOLEAN, left : SUBSET Files, sum : Nat]
    BY ONLY <2>1, <2>2
  <2> QED
    BY <1>3, <2>3 DEF Stat
<1> QED
  BY <1>1, <1>2, <1>3 DEF ScanStep

-----------------------------------------------------------------------------
(* What a download knows, and what its reservation covers.                 *)
LEMMA KnowStep ==
  ASSUME ~Clustered, LocalTypeOK, DownloadsKnow, Covered, NEW f \in Files,
         LocalStep(f)
  PROVE  DownloadsKnow' /\ Covered'
<1> USE LedgerAssumption
    DEF LocalTypeOK, TypeOK, Adjust, Go, End, At, DownloadsKnow, Covered
<1>1. CASE ReadUsage(f)
  BY <1>1 DEF ReadUsage, usage
<1>2. CASE Reserve(f)
  BY <1>2 DEF Reserve, usage
<1>3. CASE StatPrevious(f)
  BY <1>3 DEF StatPrevious, usage
<1>4. CASE Rename(f)
  BY <1>4 DEF Rename, usage
<1>5. CASE Count(f)
  BY <1>5 DEF Count
<1>6. CASE Record(f)
  BY <1>6 DEF Record, usage
<1>7. CASE Complete(f) \/ WriteFails(f)
  BY <1>7 DEF Complete, WriteFails, usage
<1>8. CASE CountFails(f)
  BY <1>8 DEF CountFails, usage
<1>9. CASE UndoLocal(f)
  BY <1>9 DEF UndoLocal, usage
<1>10. CASE Release(f)
  BY <1>10 DEF Release, usage
<1>11. CASE DeleteFile(f)
  BY <1>11 DEF DeleteFile, usage, job
<1>12. CASE Subtract(f)
  BY <1>12 DEF Subtract, job
<1>13. CASE SubtractFails(f)
  BY <1>13 DEF SubtractFails, usage, job
<1> QED
  BY <1>1, <1>2, <1>3, <1>4, <1>5, <1>6, <1>7, <1>8, <1>9, <1>10, <1>11,
     <1>12, <1>13 DEF LocalStep

-----------------------------------------------------------------------------
(* The counter.                                                            *)

(* One file's account changes and the counter with it: the counter still   *)
(* covers all of them.                                                     *)
Moves(f, v) == v \in Nat /\ Accounted' = [Accounted EXCEPT ![f] = v]
Follows(f, v) ==
  /\ stored' \in Nat /\ faults \in Nat /\ faults' \in Nat
  /\ stored + v <= stored' + Accounted[f]
  /\ faults' = 0 => faults = 0 /\ stored' + Accounted[f] = stored + v

(* One file accounts for v now, the others for what they did.              *)
LEMMA MovesAt ==
  ASSUME LocalTypeOK, LocalTypeOK', NEW f \in Files, NEW v \in Nat,
         Accounted'[f] = v,
         \A g \in Files \ {f} : Accounted'[g] = Accounted[g]
  PROVE  Moves(f, v)
<1>1. Accounted \in [Files -> Nat] /\ Accounted' \in [Files -> Nat]
  BY SumsTyped DEF Accounted, LocalTypeOK, TypeOK, At
<1> QED
  BY <1>1 DEF Moves

(* The counter follows what a file accounts for, so it still covers.       *)
LEMMA AccountMoves ==
  ASSUME LocalTypeOK, CounterCovers, NEW f \in Files, NEW v,
         Moves(f, v), Follows(f, v)
  PROVE  CounterCovers'
<1>1. Accounted \in [Files -> Nat] /\ SumFunction(Accounted) \in Nat
  BY SumsTyped
<1>2. SumFunction([Accounted EXCEPT ![f] = v]) =
        SumFunction(Accounted) - Accounted[f] + v
  <2>1. IsFiniteSet(Files)
    BY LedgerAssumption
  <2> QED
    BY <1>1, <2>1, FoldExcept DEF Moves
<1>3. SumFunction(Accounted)' = SumFunction(Accounted) - Accounted[f] + v
  BY <1>2 DEF Moves
<1>4. Accounted[f] \in Nat /\ stored \in Nat
  BY <1>1 DEF LocalTypeOK, TypeOK
<1> QED
  BY <1>1, <1>3, <1>4 DEF CounterCovers, Moves, Follows

(* The counter covers any one account.                                     *)
LEMMA CoversEach ==
  ASSUME LocalTypeOK, CounterCovers
  PROVE  \A f \in Files : Accounted[f] \in Nat /\ Accounted[f] <= stored
<1>1. Accounted \in [Files -> Nat] /\ SumFunction(Accounted) \in Nat
  BY SumsTyped
<1>2. \A f \in Files : Accounted[f] <= SumFunction(Accounted)
  BY <1>1, FoldBounds, LedgerAssumption
<1> QED
  BY <1>1, <1>2 DEF CounterCovers, LocalTypeOK, TypeOK

(* The counter covers the library after every local step.                  *)
LEMMA CountStep ==
  ASSUME LocalTypeOK, LocalTypeOK', DownloadsKnow, CounterCovers,
         NEW f \in Files, LocalStep(f)
  PROVE  CounterCovers'
<1> DEFINE a == Accounted[f]
<1>1. /\ a \in Nat /\ a <= stored /\ stored \in Nat /\ stored' \in Nat
      /\ faults \in Nat /\ faults' \in Nat
      /\ deleting[f] \in Nat /\ size[f] \in Nat /\ previous[f] \in Nat
      /\ ask[f] \in Nat /\ listed[f] \in Nat
  BY CoversEach, LedgerAssumption DEF LocalTypeOK, TypeOK
<1>2. a = deleting[f] + IF At(f, "renamed") THEN previous[f] ELSE size[f]
  BY DEF Accounted
<1>3. Accounted \in [Files -> Nat]
  BY SumsTyped
<1>4. Accounted' = [g \in Files |-> deleting'[g] +
                     IF pc'[g] = "renamed" THEN previous'[g] ELSE size'[g]]
  BY DEF Accounted, At
<1>5. Accounted = [g \in Files |-> deleting[g] +
                     IF pc[g] = "renamed" THEN previous[g] ELSE size[g]]
  BY DEF Accounted, At
<1>6. ASSUME Moves(f, a), stored' = stored, faults' = faults
      PROVE  CounterCovers'
  <2>1. Follows(f, a)
    BY <1>1, <1>6 DEF Follows
  <2> QED
    BY <1>6, <2>1, AccountMoves
<1> USE DEF LocalTypeOK, TypeOK, Go, End, At
<1>7. CASE \/ ReadUsage(f) \/ Reserve(f) \/ StatPrevious(f) \/ Record(f)
           \/ Complete(f) \/ WriteFails(f) \/ Release(f)
  <2>1. Moves(f, a) /\ stored' = stored /\ faults' = faults
    <3> HIDE DEF Accounted
    <3> QED
      BY <1>7, <1>1, <1>2, <1>3, <1>4, <1>5
      DEF Moves, ReadUsage, Reserve, StatPrevious, Record, Complete, WriteFails,
          Release, usage
  <2> QED
    BY <2>1, <1>6
<1>8. CASE Rename(f)
  <2>1. Moves(f, a) /\ stored' = stored /\ faults' = faults
    BY <1>8, <1>1, <1>2, <1>3, <1>4, <1>5
    DEF Moves, Rename, usage, DownloadsKnow
  <2> QED
    BY <2>1, <1>6
<1>9. CASE Count(f)
  <2>1. Moves(f, deleting[f] + size[f]) /\ a = deleting[f] + previous[f]
        /\ size[f] = ask[f]
    <3>1. a = deleting[f] + previous[f] /\ size[f] = ask[f]
      BY <1>9, <1>2 DEF Count, DownloadsKnow
    <3>2. Accounted'[f] = deleting[f] + size[f]
      BY <1>9, <1>4 DEF Count
    <3>3. \A g \in Files \ {f} : Accounted'[g] = Accounted[g]
      BY <1>9, <1>4, <1>5 DEF Count
    <3>4. deleting[f] + size[f] \in Nat
      BY <1>1
    <3> QED
      BY <3>1, <3>2, <3>3, <3>4, MovesAt
  <2>2. stored' = stored + (ask[f] - previous[f]) /\ faults' = faults
    BY <1>9, <1>1, <2>1 DEF Count, Adjust
  <2>3. Follows(f, deleting[f] + size[f])
    BY <1>1, <2>1, <2>2 DEF Follows
  <2> QED
    BY <2>1, <2>3, AccountMoves
<1>10. CASE CountFails(f)
  <2>1. Moves(f, deleting[f]) /\ a >= deleting[f]
    BY <1>10, <1>1, <1>2, <1>3, <1>4, <1>5 DEF Moves, CountFails
  <2>2. stored' = stored /\ faults' = faults + 1
    BY <1>10 DEF CountFails, usage
  <2>3. Follows(f, deleting[f])
    BY <1>1, <2>1, <2>2 DEF Follows
  <2> QED
    BY <2>1, <2>3, AccountMoves
<1>11. CASE UndoLocal(f)
  <2>1. Moves(f, a) /\ stored' = stored /\ faults' = faults
    <3>1. a = deleting[f] + size[f] /\ pc'[f] # "renamed"
      BY <1>11, <1>2 DEF UndoLocal
    <3>2. deleting'[f] + size'[f] = deleting[f] + size[f]
      <4>1. CASE pc[f] = "counted"
        BY <1>11, <1>1, <4>1 DEF UndoLocal, DownloadsKnow
      <4>2. CASE pc[f] # "counted"
        BY <1>11, <4>2 DEF UndoLocal
      <4> QED
        BY <4>1, <4>2
    <3>3. Accounted'[f] = a
      BY <1>4, <3>1, <3>2
    <3>4. \A g \in Files \ {f} : Accounted'[g] = Accounted[g]
      BY <1>11, <1>4, <1>5 DEF UndoLocal
    <3> QED
      BY <1>1, <1>11, <3>3, <3>4, MovesAt DEF UndoLocal, usage
  <2> QED
    BY <2>1, <1>6
<1>12. CASE DeleteFile(f)
  <2>1. Moves(f, a) /\ stored' = stored /\ faults' = faults
    <3>1. a = size[f] /\ pc[f] # "renamed" /\ deleting[f] = 0
      BY <1>12, <1>1, <1>2 DEF DeleteFile, DownloadsKnow
    <3>2. deleting'[f] = size[f] /\ size'[f] = 0 /\ pc' = pc
      BY <1>12, <1>1 DEF DeleteFile, job, DownloadsKnow
    <3>3. Accounted'[f] = a
      BY <1>1, <1>4, <3>1, <3>2
    <3>4. \A g \in Files \ {f} : Accounted'[g] = Accounted[g]
      BY <1>12, <1>4, <1>5 DEF DeleteFile, job
    <3> QED
      BY <1>1, <1>12, <3>3, <3>4, MovesAt DEF DeleteFile, usage
  <2> QED
    BY <2>1, <1>6
<1>13. CASE Subtract(f)
  <2>1. Moves(f, a - deleting[f]) /\ a >= deleting[f]
    <3>1. a - deleting[f] \in Nat /\ a >= deleting[f]
      BY <1>1, <1>2
    <3>2. Accounted'[f] = a - deleting[f]
      BY <1>13, <1>1, <1>2, <1>4 DEF Subtract, job
    <3>3. \A g \in Files \ {f} : Accounted'[g] = Accounted[g]
      BY <1>13, <1>4, <1>5 DEF Subtract, job
    <3> QED
      BY <3>1, <3>2, <3>3, MovesAt
  <2>2. stored' = stored - deleting[f] /\ faults' = faults
    BY <1>13, <1>1, <2>1 DEF Subtract, Adjust
  <2>3. Follows(f, a - deleting[f])
    BY <1>1, <2>1, <2>2 DEF Follows
  <2> QED
    BY <2>1, <2>3, AccountMoves
<1>14. CASE SubtractFails(f)
  <2>1. Moves(f, a - deleting[f]) /\ a >= deleting[f]
    <3>1. a - deleting[f] \in Nat /\ a >= deleting[f]
      BY <1>1, <1>2
    <3>2. Accounted'[f] = a - deleting[f]
      BY <1>14, <1>1, <1>2, <1>4 DEF SubtractFails, job
    <3>3. \A g \in Files \ {f} : Accounted'[g] = Accounted[g]
      BY <1>14, <1>4, <1>5 DEF SubtractFails, job
    <3> QED
      BY <3>1, <3>2, <3>3, MovesAt
  <2>2. stored' = stored /\ faults' = faults + 1
    BY <1>14 DEF SubtractFails, usage
  <2>3. Follows(f, a - deleting[f])
    BY <1>1, <2>1, <2>2 DEF Follows
  <2> QED
    BY <2>1, <2>3, AccountMoves
<1> QED
  BY <1>7, <1>8, <1>9, <1>10, <1>11, <1>12, <1>13, <1>14 DEF LocalStep

-----------------------------------------------------------------------------
(* What is promised.                                                       *)

(* The promised sums are natural numbers, split as f and the others.       *)
LEMMA PromisesTyped ==
  ASSUME LocalTypeOK, NEW f \in Files
  PROVE  /\ ToOthers(f) \in Nat /\ ByOthers(f) \in Nat
         /\ ToOthers(f) = SumFunction(AllUncounted) - AllUncounted[f]
         /\ ToOthers(f) <= ByOthers(f)
         /\ SumFunction(AllUncounted) \in Nat /\ AllUncounted[f] \in Nat
<1> DEFINE u == [AllUncounted EXCEPT ![f] = 0]
           r == [reserved EXCEPT ![f] = 0]
<1>1. IsFiniteSet(Files) /\ 0 \in Nat
  BY LedgerAssumption
<1>2. /\ AllUncounted \in [Files -> Nat] /\ reserved \in [Files -> Nat]
      /\ \A g \in Files : AllUncounted[g] <= reserved[g]
      /\ SumFunction(AllUncounted) \in Nat
  BY SumsTyped
<1>3. u \in [Files -> Nat] /\ r \in [Files -> Nat]
      /\ \A g \in Files : u[g] <= r[g]
  BY <1>2
<1>4. SumFunction(u) = SumFunction(AllUncounted) - AllUncounted[f] + 0
  BY ONLY <1>1, <1>2, FoldExcept
<1>5. AllUncounted[f] \in Nat
  BY <1>2
<1> HIDE DEF u, r
<1>6. /\ SumFunction(u) \in Nat /\ SumFunction(r) \in Nat
      /\ SumFunction(u) <= SumFunction(r)
  BY ONLY <1>1, <1>3, FoldBounds, FoldCompare
<1> QED
  BY <1>2, <1>4, <1>5, <1>6 DEF ToOthers, ByOthers, u, r

(* Capacity is promised once exactly if the sums fit the limit.            *)
LEMMA CapacityAs ==
  CapacityPromisedOnce <=> stored + SumFunction(AllUncounted) <= Limit
BY DEF CapacityPromisedOnce, AllUncounted

(* A download that has its capacity goes on: it and the counter together   *)
(* take no more than before.                                               *)
Keeps(f) ==
  /\ reserved' = reserved /\ snap' = snap /\ lock' = lock
  /\ stored' \in Nat
  /\ stored' + AllUncounted'[f] <= stored + AllUncounted[f]
  /\ \A g \in Files \ {f} : pc'[g] = pc[g]
  /\ pc[f] # "decide" /\ pc'[f] # "decide"

(* A file that changes its promise changes the sums by as much.            *)
LEMMA OthersAndMine ==
  ASSUME LocalTypeOK, LocalTypeOK', NEW f \in Files, NEW v \in Nat,
         AllUncounted'[f] = v,
         \A g \in Files \ {f} : AllUncounted'[g] = AllUncounted[g]
  PROVE  /\ SumFunction(AllUncounted)' =
              SumFunction(AllUncounted) - AllUncounted[f] + v
         /\ \A g \in Files \ {f} : ToOthers(g)' =
              ToOthers(g) - AllUncounted[f] + v
<1>1. /\ AllUncounted \in [Files -> Nat] /\ AllUncounted' \in [Files -> Nat]
      /\ SumFunction(AllUncounted) \in Nat
  BY SumsTyped DEF AllUncounted, LocalTypeOK, TypeOK, Uncounted, At
<1>2. AllUncounted' = [AllUncounted EXCEPT ![f] = v]
  BY <1>1
<1>3. IsFiniteSet(Files)
  BY LedgerAssumption
<1>4. SumFunction([AllUncounted EXCEPT ![f] = v]) =
        SumFunction(AllUncounted) - AllUncounted[f] + v
  BY ONLY <1>1, <1>3, FoldExcept
<1>5. ASSUME NEW g \in Files \ {f}
      PROVE  ToOthers(g)' = ToOthers(g) - AllUncounted[f] + v
  <2> DEFINE u == [AllUncounted EXCEPT ![g] = 0]
  <2>1. u \in [Files -> Nat] /\ u[f] = AllUncounted[f]
    BY <1>1
  <2>2. [AllUncounted' EXCEPT ![g] = 0] = [u EXCEPT ![f] = v]
    BY <1>1, <1>2
  <2>3. ToOthers(g) = SumFunction(u)
    BY DEF ToOthers
  <2>4. ToOthers(g)' = SumFunction([AllUncounted' EXCEPT ![g] = 0])
    BY DEF ToOthers
  <2> HIDE DEF u
  <2>5. SumFunction([u EXCEPT ![f] = v]) = SumFunction(u) - u[f] + v
    BY ONLY <1>3, <2>1, FoldExcept
  <2> QED
    BY <2>1, <2>2, <2>3, <2>4, <2>5
<1> QED
  BY <1>2, <1>4, <1>5

(* A step that only spends a file's promise keeps the capacity.            *)
LEMMA Spending ==
  ASSUME LocalTypeOK, LocalTypeOK', LockHeld, CapacityPromisedOnce,
         NEW f \in Files, Keeps(f)
  PROVE  LockHeld' /\ CapacityPromisedOnce'
<1> DEFINE v == AllUncounted'[f]
<1>1. v \in Nat /\ AllUncounted[f] \in Nat /\ stored \in Nat /\ Limit \in Nat
      /\ SumFunction(AllUncounted) \in Nat
      /\ AllUncounted' \in [Files -> Nat]
  BY SumsTyped, LedgerAssumption
  DEF AllUncounted, LocalTypeOK, TypeOK, Uncounted, At
<1>2. \A g \in Files \ {f} : AllUncounted'[g] = AllUncounted[g]
  BY DEF Keeps, AllUncounted, Uncounted, At
<1> HIDE DEF v
<1>3. /\ SumFunction(AllUncounted)' =
           SumFunction(AllUncounted) - AllUncounted[f] + v
      /\ \A g \in Files \ {f} : ToOthers(g)' =
           ToOthers(g) - AllUncounted[f] + v
  BY <1>1, <1>2, OthersAndMine DEF v
<1>4. stored' + v <= stored + AllUncounted[f] /\ stored' \in Nat
  BY DEF Keeps, v
<1>5. CapacityPromisedOnce'
  <2>1. stored' + SumFunction(AllUncounted)' <= Limit
    BY <1>1, <1>3, <1>4, CapacityAs
  <2> QED
    BY <2>1, CapacityAs DEF CapacityPromisedOnce, AllUncounted, Uncounted, At
<1>6. ASSUME NEW g \in Files
      PROVE  /\ At(g, "decide")' <=> lock' = g
             /\ At(g, "decide")' => HolderKnows(g)'
  <2>1. CASE g = f
    BY <2>1 DEF Keeps, LockHeld, At
  <2>2. CASE g # f
    <3>1. At(g, "decide")' <=> At(g, "decide")
      BY <2>2 DEF Keeps, At
    <3>2. ASSUME HolderKnows(g)
          PROVE  HolderKnows(g)'
      <4>1. ToOthers(g)' = ToOthers(g) - AllUncounted[f] + v
        BY <1>3, <2>2
      <4>2. snap'[g] = snap[g] /\ ByOthers(g)' = ByOthers(g)
        BY DEF Keeps, ByOthers
      <4>3. /\ ToOthers(g) \in Nat /\ ByOthers(g) \in Nat
            /\ snap[g] \in Nat
        BY PromisesTyped DEF LocalTypeOK, TypeOK
      <4>4. stored + ToOthers(g) <= snap[g] + ByOthers(g)
        BY <3>2 DEF HolderKnows
      <4>5. stored' + ToOthers(g)' <= snap'[g] + ByOthers(g)'
        BY <1>1, <1>4, <4>1, <4>2, <4>3, <4>4
      <4> QED
        BY <4>5 DEF HolderKnows
    <3> QED
      BY <3>1, <3>2 DEF Keeps, LockHeld
  <2> QED
    BY <2>1, <2>2
<1>7. LockHeld'
  BY <1>6 DEF LockHeld, At, HolderKnows, ToOthers, ByOthers
<1> QED
  BY <1>5, <1>7

(* The downloads stay where they are, and the counter does not grow.       *)
Rests ==
  /\ reserved' = reserved /\ snap' = snap /\ lock' = lock /\ pc' = pc
  /\ stored' \in Nat /\ stored' <= stored
(* So does a step that leaves bytes and promises alone.                    *)
LEMMA Resting ==
  ASSUME LocalTypeOK, LockHeld, CapacityPromisedOnce, Rests
  PROVE  LockHeld' /\ CapacityPromisedOnce'
<1>1. AllUncounted' = AllUncounted
  BY DEF AllUncounted, Uncounted, At, Rests
<1>2. stored \in Nat /\ SumFunction(AllUncounted) \in Nat /\ Limit \in Nat
  BY SumsTyped, LedgerAssumption DEF LocalTypeOK, TypeOK
<1>3. CapacityPromisedOnce'
  <2>1. stored' + SumFunction(AllUncounted) <= Limit
    BY <1>2, CapacityAs DEF Rests
  <2> QED
    BY <1>1, <2>1 DEF CapacityPromisedOnce, AllUncounted, Uncounted, At
<1>4. ASSUME NEW f \in Files
      PROVE  /\ At(f, "decide")' <=> lock' = f
             /\ At(f, "decide")' => HolderKnows(f)'
  <2>1. /\ ToOthers(f) \in Nat /\ ByOthers(f) \in Nat
        /\ snap[f] \in Nat
    BY PromisesTyped DEF LocalTypeOK, TypeOK
  <2>2. ToOthers(f)' = ToOthers(f)
    BY <1>1 DEF ToOthers
  <2>3. ByOthers(f)' = ByOthers(f)
    BY DEF ByOthers, Rests
  <2>4. HolderKnows(f) => HolderKnows(f)'
    BY <1>2, <2>1, <2>2, <2>3 DEF HolderKnows, Rests
  <2> QED
    BY <2>4 DEF LockHeld, At, Rests
<1> QED
  BY <1>3, <1>4 DEF LockHeld, At, HolderKnows, ToOthers, ByOthers

(* Lock and capacity are kept by every local step.                         *)
LEMMA PromiseStep ==
  ASSUME ~Clustered, LocalTypeOK, LocalTypeOK', DownloadsKnow, Covered,
         CounterCovers, LockHeld, CapacityPromisedOnce,
         NEW f \in Files, LocalStep(f)
  PROVE  LockHeld' /\ CapacityPromisedOnce'
<1>1. /\ stored \in Nat /\ stored' \in Nat /\ Limit \in Nat
      /\ ask[f] \in Nat /\ previous[f] \in Nat /\ deleting[f] \in Nat
      /\ reserved[f] \in Nat /\ snap[f] \in Nat
  BY LedgerAssumption DEF LocalTypeOK, TypeOK
<1>2. /\ AllUncounted[f] = IF pc[f] \in {"writing", "rename", "renamed"}
                           THEN reserved[f] ELSE 0
      /\ AllUncounted'[f] = IF pc'[f] \in {"writing", "rename", "renamed"}
                            THEN reserved'[f] ELSE 0
  BY DEF AllUncounted, Uncounted, At
<1>3. pc \in [Files -> {"idle", "decide", "writing", "rename", "renamed",
                        "counted", "recorded", "release"}]
      /\ snap \in [Files -> Nat]
  BY DEF LocalTypeOK, TypeOK
<1>4. ASSUME stored' = stored, reserved' = reserved, snap' = snap,
             lock' = lock, NEW s, pc' = [pc EXCEPT ![f] = s],
             pc[f] # "decide", s # "decide",
             \/ s \notin {"writing", "rename", "renamed"}
             \/ pc[f] \in {"writing", "rename", "renamed"}
      PROVE  LockHeld' /\ CapacityPromisedOnce'
  <2>1. AllUncounted'[f] <= AllUncounted[f]
    BY <1>1, <1>2, <1>3, <1>4
  <2>2. AllUncounted'[f] \in Nat /\ AllUncounted[f] \in Nat
    BY <1>1, <1>2, <1>4
  <2> QED
    BY <1>1, <1>3, <1>4, <2>1, <2>2, Spending DEF Keeps
<1>5. CASE ReadUsage(f)
  <2>1. /\ stored' = stored /\ reserved' = reserved /\ lock = None
        /\ lock' = f /\ pc[f] = "idle" /\ snap' = [snap EXCEPT ![f] = stored]
        /\ pc' = [pc EXCEPT ![f] = "decide"]
    BY <1>5 DEF ReadUsage, usage, At, Go
  <2>2. \A g \in Files : pc[g] # "decide"
    BY <2>1, LedgerAssumption DEF LockHeld, At
  <2>3. AllUncounted' = AllUncounted
    BY <2>1, <1>3 DEF AllUncounted, Uncounted, At
  <2>4. CapacityPromisedOnce'
    BY <2>1, <2>3 DEF CapacityPromisedOnce, AllUncounted
  <2>5. HolderKnows(f)'
    <3>1. ToOthers(f)' = ToOthers(f) /\ ByOthers(f)' = ByOthers(f)
          /\ snap'[f] = stored
      BY <1>3, <2>1, <2>3 DEF ToOthers, ByOthers
    <3>2. /\ ToOthers(f) \in Nat /\ ByOthers(f) \in Nat
          /\ ToOthers(f) <= ByOthers(f)
      BY PromisesTyped
    <3> QED
      BY <1>1, <2>1, <3>1, <3>2 DEF HolderKnows
  <2>6. \A g \in Files : pc'[g] = "decide" <=> g = f
    BY <1>3, <2>1, <2>2
  <2> QED
    BY <2>1, <2>4, <2>5, <2>6
    DEF LockHeld, At, HolderKnows, ToOthers, ByOthers
<1>6. CASE Reserve(f)
  <2>1. pc[f] = "decide" /\ lock = f /\ lock' = None /\ stored' = stored
        /\ HolderKnows(f)
    BY <1>6 DEF Reserve, usage, At, LockHeld
  <2>2. \A g \in Files : pc'[g] # "decide"
    BY <1>3, <1>6, <2>1 DEF Reserve, Go, End, LockHeld, At
  <2>3. LockHeld'
    BY <2>1, <2>2, LedgerAssumption DEF LockHeld, At
  <2>4. CapacityPromisedOnce'
    <3>1. CASE Fits(f)
      <4>1. AllUncounted'[f] = ask[f]
        BY <1>2, <1>3, <1>6, <3>1 DEF Reserve, Go, LocalTypeOK, TypeOK
      <4>2. \A g \in Files \ {f} : AllUncounted'[g] = AllUncounted[g]
        <5>1. /\ pc' = [pc EXCEPT ![f] = "writing"]
              /\ reserved' = [reserved EXCEPT ![f] = ask[f]]
          BY <1>6, <3>1 DEF Reserve, Go
        <5> QED
          BY <5>1, <1>3
          DEF AllUncounted, Uncounted, At, LocalTypeOK, TypeOK
      <4>3. SumFunction(AllUncounted)' =
              SumFunction(AllUncounted) - AllUncounted[f] + ask[f]
        BY <1>1, <4>1, <4>2, OthersAndMine
      <4>4. /\ ToOthers(f) \in Nat /\ ByOthers(f) \in Nat
            /\ ToOthers(f) = SumFunction(AllUncounted) - AllUncounted[f]
        BY PromisesTyped
      <4>5. ByOthers(f) + ask[f] <= Limit - snap[f]
        BY <3>1 DEF Fits
      <4>6. stored + ToOthers(f) <= snap[f] + ByOthers(f)
        BY <2>1 DEF HolderKnows
      <4>7. stored' + SumFunction(AllUncounted)' <= Limit
        BY <1>1, <2>1, <4>3, <4>4, <4>5, <4>6
      <4> QED
        BY <4>7 DEF CapacityPromisedOnce, AllUncounted, Uncounted, At
    <3>2. CASE ~Fits(f)
      <4>1. AllUncounted' = AllUncounted
        BY <1>3, <1>6, <3>2 DEF Reserve, Go, End, AllUncounted, Uncounted, At
      <4> QED
        BY <2>1, <4>1 DEF CapacityPromisedOnce, AllUncounted
    <3> QED
      BY <3>1, <3>2
  <2> QED
    BY <2>3, <2>4
<1>7. CASE \/ StatPrevious(f) \/ Rename(f)
  <2>1. PICK s \in {"rename", "renamed"} :
          /\ pc' = [pc EXCEPT ![f] = s] /\ pc[f] \in {"writing", "rename"}
          /\ stored' = stored /\ reserved' = reserved /\ snap' = snap
          /\ lock' = lock
    BY <1>7 DEF StatPrevious, Rename, usage, At, Go
  <2> QED
    BY <1>4, <2>1
<1>8. CASE \/ Record(f) \/ Complete(f) \/ WriteFails(f) \/ CountFails(f)
           \/ UndoLocal(f)
  <2>1. PICK s \in {"recorded", "release"} :
          /\ pc' = [pc EXCEPT ![f] = s] /\ pc[f] # "decide"
          /\ stored' = stored /\ reserved' = reserved /\ snap' = snap
          /\ lock' = lock
    BY <1>8 DEF Record, Complete, WriteFails, CountFails, UndoLocal, usage,
                At, Go
  <2> QED
    BY <1>4, <2>1
<1>9. CASE Count(f)
  <2>1. /\ pc[f] = "renamed" /\ pc' = [pc EXCEPT ![f] = "counted"]
        /\ reserved' = reserved /\ snap' = snap /\ lock' = lock
    BY <1>9 DEF Count, At, Go
  <2>2. AllUncounted[f] = reserved[f] /\ AllUncounted'[f] = 0
    BY <1>2, <1>3, <2>1
  <2>3. ask[f] <= reserved[f]
    BY <2>1 DEF Covered
  <2>4. stored' <= stored + ask[f]
    BY <1>1, <1>9 DEF Count, Adjust
  <2>5. stored' + AllUncounted'[f] <= stored + AllUncounted[f]
    BY <1>1, <2>2, <2>3, <2>4
  <2> QED
    BY <1>1, <1>3, <2>1, <2>5, Spending DEF Keeps
<1>10. CASE Release(f)
  <2>1. /\ pc[f] = "release" /\ pc' = [pc EXCEPT ![f] = "idle"]
        /\ lock = None /\ lock' = lock /\ stored' = stored
        /\ reserved' = [reserved EXCEPT ![f] = 0]
    BY <1>10 DEF Release, usage, At, Go, End
  <2>2. AllUncounted' = AllUncounted
    BY <1>3, <2>1 DEF AllUncounted, Uncounted, At, LocalTypeOK, TypeOK
  <2>3. \A g \in Files : pc'[g] # "decide" /\ lock' # g
    BY <1>3, <2>1, LedgerAssumption DEF LockHeld, At
  <2> QED
    BY <2>1, <2>2, <2>3 DEF LockHeld, At, CapacityPromisedOnce, AllUncounted
<1>11. CASE \/ DeleteFile(f) \/ Subtract(f) \/ SubtractFails(f)
  <2>1. stored' <= stored
    BY <1>1, <1>11 DEF DeleteFile, Subtract, SubtractFails, Adjust, usage
  <2> QED
    BY <1>1, <1>11, <2>1, Resting
    DEF Rests, DeleteFile, Subtract, SubtractFails, job
<1> QED
  BY <1>5, <1>6, <1>7, <1>8, <1>9, <1>10, <1>11 DEF LocalStep

-----------------------------------------------------------------------------
(* At rest the account of a file is its size.                              *)
LEMMA SettledAccounts ==
  ASSUME LocalTypeOK, Settled
  PROVE  Accounted = size
<1>1. size \in [Files -> Nat] /\ Accounted \in [Files -> Nat]
  BY SumsTyped
<1>2. \A f \in Files : Accounted[f] = size[f]
  BY <1>1 DEF Settled, Accounted, At
<1> QED
  BY <1>1, <1>2

(* A scan that counted the truth, or whose result is dropped, keeps Inv.   *)
LEMMA ScanKeeps ==
  ASSUME Inv, ScanStep,
         ScanEnd => mutated \/ (Settled /\ scan.sum = SumFunction(size))
  PROVE  Inv'
<1>1. LocalTypeOK /\ LocalTypeOK'
  BY TypeScan DEF Inv
<1>2. /\ UNCHANGED <<size, listed, reserved, job, deleting, faults>>
      /\ \/ stored' = stored
         \/ Settled /\ stored' = SumFunction(size)
  BY DEF ScanStep, ScanBegin, ScanEnd, Stat, usage
<1>3. Accounted' = Accounted /\ DownloadsKnow' /\ Covered'
  BY <1>2 DEF Accounted, Inv, DownloadsKnow, Covered, At, job
<1>4. stored \in Nat /\ stored' \in Nat /\ SumFunction(Accounted) \in Nat
  BY <1>1, SumsTyped DEF LocalTypeOK, TypeOK
<1>5. /\ SumFunction(Accounted) <= stored' /\ stored' <= stored
      /\ faults = 0 => stored' = SumFunction(Accounted)
  <2>1. Settled => Accounted = size
    BY <1>1, SettledAccounts
  <2> QED
    BY <1>2, <1>4, <2>1 DEF Inv, CounterCovers
<1>6. CounterCovers'
  BY <1>2, <1>3, <1>5 DEF CounterCovers
<1>7. LockHeld' /\ CapacityPromisedOnce'
  BY <1>1, <1>2, <1>4, <1>5, Resting DEF Rests, job, Inv
<1> QED
  BY <1>1, <1>3, <1>6, <1>7 DEF Inv

(* The invariant holds at the start.                                       *)
LEMMA InvInit ==
  ASSUME Init
  PROVE  Inv
<1> USE LedgerAssumption DEF Init
<1>1. LocalTypeOK
  <2>1. scan \in [on : BOOLEAN, left : SUBSET Files, sum : Nat]
    BY DEF NoScan
  <2>2. 0 \in 0 .. MaxSize /\ 0 \in 0 .. MaxFaults
    OBVIOUS
  <2> QED
    BY <2>1, <2>2 DEF LocalTypeOK, TypeOK
<1>2. DownloadsKnow /\ Covered
  BY DEF DownloadsKnow, Covered, At
<1>3. /\ \A f \in Files : Accounted[f] = 0 /\ AllUncounted[f] = 0
      /\ stored = 0 /\ \A f \in Files : pc[f] # "decide" /\ lock # f
  BY DEF Accounted, AllUncounted, Uncounted, At
<1>4. SumFunction(Accounted) = 0 /\ SumFunction(AllUncounted) = 0
  <2>1. Accounted \in [Files -> Nat] /\ AllUncounted \in [Files -> Nat]
    BY <1>1, SumsTyped
  <2>2. IsFiniteSet(Files)
    OBVIOUS
  <2> QED
    BY ONLY <1>3, <2>1, <2>2, FoldBounds
<1>5. CounterCovers /\ CapacityPromisedOnce
  BY <1>3, <1>4, CapacityAs DEF CounterCovers
<1>6. LockHeld
  BY <1>3 DEF LockHeld, At
<1> QED
  BY <1>1, <1>2, <1>5, <1>6 DEF Inv

(* The invariant is inductive for one process with true scans.             *)
LEMMA InvStep ==
  ASSUME ~Clustered, Inv, [Next]_vars,
         [ScanEnd => mutated \/ (Settled /\ scan.sum = SumFunction(size))]_vars
  PROVE  Inv'
<1>1. CASE UNCHANGED vars
  BY <1>1
  DEF vars, usage, job, Inv, LocalTypeOK, TypeOK, DownloadsKnow, Covered,
      CounterCovers, LockHeld, CapacityPromisedOnce, HolderKnows, ToOthers,
      ByOthers, Accounted, AllUncounted, Uncounted, At
<1>2. CASE Next /\ ~UNCHANGED vars
  <2>1. CASE ScanStep
    BY <1>2, <2>1, ScanKeeps
  <2>2. ASSUME NEW f \in Files, LocalStep(f)
        PROVE  Inv'
    <3>1. LocalTypeOK /\ LocalTypeOK'
      BY <2>2, TypeStep DEF Inv
    <3>2. DownloadsKnow' /\ Covered'
      BY <2>2, KnowStep DEF Inv
    <3>3. CounterCovers'
      BY <2>2, <3>1, CountStep DEF Inv
    <3>4. LockHeld' /\ CapacityPromisedOnce'
      BY <2>2, <3>1, PromiseStep DEF Inv
    <3> QED
      BY <3>1, <3>2, <3>3, <3>4 DEF Inv
  <2> QED
    BY <1>2, <2>1, <2>2, LocalSteps DEF Inv
<1> QED
  BY <1>1, <1>2

(* What the invariant says of the library and of the counter.              *)
LEMMA InvGivesLedger ==
  ASSUME Inv
  PROVE  LedgerSafe
<1>1. LocalTypeOK /\ IsFiniteSet(Files) /\ Limit \in Nat
  BY LedgerAssumption DEF Inv
<1>2. /\ Accounted \in [Files -> Nat] /\ AllUncounted \in [Files -> Nat]
      /\ size \in [Files -> Nat]
      /\ SumFunction(Accounted) \in Nat /\ SumFunction(AllUncounted) \in Nat
  BY <1>1, SumsTyped
<1>3. SumFunction(size) \in Nat /\ stored \in Nat
  BY <1>1, <1>2, FoldBounds DEF LocalTypeOK, TypeOK
<1>4. LibraryWithinLimit
  <2> DEFINE both == [f \in Files |-> Accounted[f] + AllUncounted[f]]
  <2>1. SumFunction(both) =
          SumFunction(Accounted) + SumFunction(AllUncounted)
    BY ONLY <1>1, <1>2, FoldAdd
  <2>2. \A f \in Files : size[f] <= both[f]
    <3> SUFFICES ASSUME NEW f \in Files
                 PROVE  size[f] <= both[f]
      OBVIOUS
    <3>1. both[f] = Accounted[f] + AllUncounted[f]
      OBVIOUS
    <3>2. /\ deleting[f] \in Nat /\ size[f] \in Nat /\ previous[f] \in Nat
          /\ ask[f] \in Nat /\ reserved[f] \in Nat
      BY <1>1, LedgerAssumption DEF LocalTypeOK, TypeOK
    <3>3. CASE At(f, "renamed")
      <4>1. size[f] = ask[f] /\ ask[f] <= reserved[f]
        BY <3>3 DEF Inv, DownloadsKnow, Covered, At
      <4>2. Accounted[f] \in Nat /\ AllUncounted[f] = reserved[f]
        BY <1>2, <3>3 DEF AllUncounted, Uncounted, At
      <4> QED
        BY <3>1, <3>2, <4>1, <4>2
    <3>4. CASE ~At(f, "renamed")
      <4>1. Accounted[f] = deleting[f] + size[f] /\ AllUncounted[f] \in Nat
        BY <1>2, <3>4 DEF Accounted
      <4> QED
        BY <3>1, <3>2, <4>1
    <3> QED
      BY <3>3, <3>4
  <2>3. both \in [Files -> Nat]
    BY <1>2
  <2> HIDE DEF both
  <2>4. SumFunction(size) <= SumFunction(both)
    BY ONLY <1>1, <1>2, <2>2, <2>3, FoldCompare
  <2>5. /\ SumFunction(Accounted) <= stored
        /\ stored + SumFunction(AllUncounted) <= Limit
    BY CapacityAs DEF Inv, CounterCovers
  <2> QED
    BY <1>1, <1>2, <1>3, <2>1, <2>4, <2>5 DEF LibraryWithinLimit
<1>5. AccountsExact
  BY <1>1, SettledAccounts
  DEF AccountsExact, CounterExact, Inv, CounterCovers
<1> QED
  BY <1>4, <1>5 DEF LedgerSafe, Inv, LocalTypeOK

(* The ledger of one process: whatever downloads and deletions run at      *)
(* once, and whatever counter updates fail, the library stays within its   *)
(* limit, no capacity is promised twice, and with nothing under way and    *)
(* nothing failed the counter is the library.                              *)
THEOREM LedgerHolds ==
  ASSUME ~Clustered
  PROVE  Spec /\ TrueScans => []LedgerSafe
<1>1. Init => Inv
  BY InvInit
<1>2. Inv /\ [Next]_vars
        /\ [ScanEnd => mutated \/
              (Settled /\ scan.sum = SumFunction(size))]_vars => Inv'
  BY InvStep
<1>3. Inv => LedgerSafe
  BY InvGivesLedger
<1> QED
  BY <1>1, <1>2, <1>3, PTL DEF Spec, TrueScans
=============================================================================
