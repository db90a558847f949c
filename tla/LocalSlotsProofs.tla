-------------------------- MODULE LocalSlotsProofs --------------------------
(***************************************************************************)
(* Theorems about the local slot pool for every set of tasks and every     *)
(* limit.  The inductive invariant relates the three pieces of state that  *)
(* the code keeps apart: the counter, the waiter array and the position    *)
(* of each task in its function.  The order of the array, the order of     *)
(* service and the refinement of Semaphore follow over that invariant.     *)
(***************************************************************************)
EXTENDS LocalSlots, DataFacts

IInv ==
  /\ TypeOK
  /\ QueueHoldsWaiters
  /\ SlotConservation
  /\ NobodyWaitsForAFreeSlot

-----------------------------------------------------------------------------
(* The insertion point is a position of the array or the one after it.     *)
LEMMA InsertIndexType ==
  ASSUME NEW s \in Seq(Tasks), NEW t \in Tasks
  PROVE  InsertIndex(s, t) \in 1 .. Len(s) + 1
<1> DEFINE Before == {i \in DOMAIN s : Priority(s[i]) <= Priority(t)}
<1>1. Len(s) \in Nat /\ DOMAIN s = 1 .. Len(s)
  BY LenProperties
<1>2. IsFiniteSet(1 .. Len(s)) /\ Cardinality(1 .. Len(s)) = Len(s)
  <2>1. ASSUME NEW n \in Nat
        PROVE  IsFiniteSet(1 .. n) /\ Cardinality(1 .. n) = n
    BY FS_Interval
  <2> QED BY <1>1, <2>1
<1>3. Before \in SUBSET (1 .. Len(s))
  BY <1>1
<1>4. IsFiniteSet(Before) /\ Cardinality(Before) <= Len(s)
  BY <1>2, <1>3, FS_Subset
<1>5. Cardinality(Before) \in Nat
  BY <1>4, FS_CardinalityType
<1> QED
  BY <1>1, <1>4, <1>5 DEF InsertIndex

(* Only finitely many tasks can hold a slot.                               *)
LEMMA HoldersFinite ==
  /\ IsFiniteSet(Holders)
  /\ Cardinality(Holders) \in Nat
BY SlotsAssumption, FS_Subset, FS_CardinalityType DEF Holders

(* A step that leaves the array, the counter and the set of waiting and    *)
(* holding tasks alone keeps the invariant.                                *)
LEMMA FrameKeepsIInv ==
  ASSUME IInv, TypeOK', UNCHANGED <<active, queue>>,
         Holders' = Holders, Waiting' = Waiting
  PROVE  IInv'
BY DEF IInv, QueueHoldsWaiters, SlotConservation, NobodyWaitsForAFreeSlot

-----------------------------------------------------------------------------
(* The invariant holds at the start.                                       *)
LEMMA InitIInv == Init => IInv
<1> SUFFICES ASSUME Init PROVE IInv
  OBVIOUS
<1>1. Holders = {} /\ Waiting = {}
  BY DEF Init, Holders, Waiting
<1>2. <<>> \in Seq(Tasks) /\ Len(<<>>) = 0
  OBVIOUS
<1>3. TypeOK
  BY <1>2, SlotsAssumption DEF Init, TypeOK
<1> QED
  BY <1>1, <1>3, FS_EmptySet
     DEF Init, IInv, QueueHoldsWaiters, SlotConservation,
         NobodyWaitsForAFreeSlot, IsInjective, ToSet

(* A request that comes aborted changes no slot.                           *)
LEMMA ArriveAbortedIInv ==
  ASSUME NEW t \in Tasks, IInv, ArriveAborted(t)
  PROVE  IInv'
<1>1. pc' = pc
  BY DEF ArriveAborted, Leave, IInv, TypeOK
<1>2. Holders' = Holders /\ Waiting' = Waiting
  BY <1>1 DEF Holders, Waiting
<1>3. TypeOK'
  BY <1>1 DEF ArriveAborted, Leave, IInv, TypeOK
<1> QED
  BY <1>2, <1>3, FrameKeepsIInv DEF ArriveAborted

(* A free slot that is taken is counted.                                   *)
LEMMA ArriveFreeIInv ==
  ASSUME NEW t \in Tasks, IInv, ArriveFree(t)
  PROVE  IInv'
<1> USE DEF IInv
<1>1. TypeOK'
  BY SlotsAssumption DEF ArriveFree, TypeOK
<1>2. Holders' = Holders \cup {t} /\ t \notin Holders /\ Waiting' = Waiting
  BY DEF ArriveFree, TypeOK, Holders, Waiting
<1>3. QueueHoldsWaiters'
  BY <1>2 DEF ArriveFree, QueueHoldsWaiters
<1>4. SlotConservation'
  BY <1>2, HoldersFinite, FS_AddElement DEF ArriveFree, SlotConservation
<1>5. NobodyWaitsForAFreeSlot'
  BY SlotsAssumption DEF ArriveFree, TypeOK, NobodyWaitsForAFreeSlot
<1> QED
  BY <1>1, <1>3, <1>4, <1>5

(* A request that queues finds all slots taken.                            *)
LEMMA ArriveQueuedIInv ==
  ASSUME NEW t \in Tasks, IInv, ArriveQueued(t)
  PROVE  IInv'
<1> USE DEF IInv
<1>1. InsertIndex(queue, t) \in 1 .. Len(queue) + 1
  BY InsertIndexType DEF TypeOK
<1>2. Holders' = Holders /\ Waiting' = Waiting \cup {t} /\ t \notin Waiting
  BY DEF ArriveQueued, TypeOK, Holders, Waiting
<1>3. queue' \in Seq(Tasks) /\ Len(queue') = Len(queue) + 1
  BY <1>1, InsertAtProperties DEF ArriveQueued, TypeOK
<1>4. TypeOK'
  BY <1>3, SlotsAssumption, LenProperties DEF ArriveQueued, TypeOK
<1>5. IsInjective(queue') /\ ToSet(queue') = ToSet(queue) \cup {t}
  BY <1>1, <1>2, InsertAtDistinct DEF ArriveQueued, TypeOK, QueueHoldsWaiters
<1>6. QueueHoldsWaiters'
  BY <1>2, <1>5 DEF QueueHoldsWaiters
<1>7. SlotConservation'
  BY <1>2 DEF ArriveQueued, SlotConservation
<1>8. NobodyWaitsForAFreeSlot'
  BY SlotsAssumption DEF ArriveQueued, TypeOK, NobodyWaitsForAFreeSlot
<1> QED
  BY <1>4, <1>6, <1>7, <1>8

(* A waiter that leaves takes its place in the queue with it.              *)
LEMMA LeaveQueueIInv ==
  ASSUME NEW t \in Tasks, IInv, LeaveQueue(t)
  PROVE  IInv'
<1> USE DEF IInv
<1>1. PICK i \in DOMAIN queue : queue[i] = t /\ queue' = RemoveAt(queue, i)
  BY DEF LeaveQueue
<1>2. i \in 1 .. Len(queue)
  BY <1>1, LenProperties DEF TypeOK
<1>3. queue' \in Seq(Tasks) /\ Len(queue') = Len(queue) - 1
  BY <1>1, <1>2, RemoveAtProperties DEF TypeOK
<1>4. Holders' = Holders /\ Waiting' = Waiting \ {t}
  BY DEF LeaveQueue, Leave, TypeOK, Holders, Waiting
<1>5. TypeOK'
  BY <1>2, <1>3, SlotsAssumption, LenProperties DEF LeaveQueue, Leave, TypeOK
<1>6. IsInjective(queue') /\ ToSet(queue') = ToSet(queue) \ {t}
  BY <1>1, <1>2, RemoveAtDistinct DEF TypeOK, QueueHoldsWaiters
<1>7. QueueHoldsWaiters'
  BY <1>4, <1>6 DEF QueueHoldsWaiters
<1>8. SlotConservation'
  BY <1>4 DEF LeaveQueue, SlotConservation
<1>9. queue # <<>>
  BY <1>2
<1>10. NobodyWaitsForAFreeSlot'
  BY <1>9 DEF LeaveQueue, NobodyWaitsForAFreeSlot
<1> QED
  BY <1>5, <1>7, <1>8, <1>10

(* A slot that is released goes to the head or is uncounted.               *)
LEMMA ReleaseSlotIInv ==
  ASSUME NEW t \in Tasks, IInv, t \in Holders, ReleaseSlot(t)
  PROVE  IInv'
<1> USE DEF IInv
<1>1. CASE queue # <<>>
  <2> DEFINE u == Head(queue)
  <2>1. /\ queue' = Tail(queue)
        /\ pc' = [pc EXCEPT ![t] = "idle", ![u] = "granted"]
        /\ active' = active
        /\ aborted' = aborted \ {t}
    BY <1>1 DEF ReleaseSlot
  <2>2. /\ Tail(queue) \in Seq(Tasks)
        /\ Len(Tail(queue)) = Len(queue) - 1
        /\ u \in ToSet(queue)
        /\ IsInjective(Tail(queue))
        /\ ToSet(Tail(queue)) = ToSet(queue) \ {u}
    BY <1>1, TailDistinct, HeadTailProperties DEF TypeOK, QueueHoldsWaiters
  <2>3. u \in Waiting
    BY <2>2 DEF QueueHoldsWaiters
  <2> HIDE DEF u
  <2>4. /\ Holders' = (Holders \ {t}) \cup {u}
        /\ u \notin Holders
        /\ Waiting' = Waiting \ {u}
    BY <2>1, <2>3 DEF TypeOK, Holders, Waiting
  <2>5. TypeOK'
    <3>1. Len(queue) \in Nat
      BY LenProperties DEF TypeOK
    <3>2. queue' \in Seq(Tasks) /\ Len(queue') <= MaxQueue
      BY <2>1, <2>2, <3>1, SlotsAssumption DEF TypeOK
    <3> QED
      BY <2>1, <2>3, <3>2 DEF TypeOK, Waiting
  <2>6. QueueHoldsWaiters'
    BY <2>1, <2>2, <2>4 DEF QueueHoldsWaiters
  <2>7. Cardinality(Holders') = Cardinality(Holders)
    <3>1. /\ IsFiniteSet(Holders \ {t})
          /\ Cardinality(Holders \ {t}) = Cardinality(Holders) - 1
      BY HoldersFinite, FS_RemoveElement
    <3>2. Cardinality((Holders \ {t}) \cup {u}) = Cardinality(Holders \ {t}) + 1
      BY <2>4, <3>1, FS_AddElement
    <3> QED
      BY <2>4, <3>1, <3>2, HoldersFinite
  <2>8. SlotConservation'
    BY <2>1, <2>7 DEF SlotConservation
  <2>9. NobodyWaitsForAFreeSlot'
    BY <1>1, <2>1 DEF NobodyWaitsForAFreeSlot
  <2> QED
    BY <2>5, <2>6, <2>8, <2>9
<1>2. CASE queue = <<>>
  <2>1. /\ active' = IF active > 0 THEN active - 1 ELSE 0
        /\ pc' = [pc EXCEPT ![t] = "idle"]
        /\ queue' = queue
        /\ aborted' = aborted \ {t}
    BY <1>2 DEF ReleaseSlot
  <2>2. Holders' = Holders \ {t} /\ Waiting' = Waiting
    BY <2>1 DEF TypeOK, Holders, Waiting
  <2>3. Cardinality(Holders') = Cardinality(Holders) - 1
    BY <2>2, HoldersFinite, FS_RemoveElement
  <2>4. Cardinality(Holders) # 0
    BY HoldersFinite, FS_EmptySet
  <2>5. TypeOK'
    BY <2>1, SlotsAssumption DEF TypeOK
  <2>6. SlotConservation'
    BY <2>1, <2>3, <2>4, HoldersFinite, SlotsAssumption
       DEF SlotConservation, TypeOK
  <2>7. QueueHoldsWaiters' /\ NobodyWaitsForAFreeSlot'
    BY <1>2, <2>1, <2>2 DEF QueueHoldsWaiters, NobodyWaitsForAFreeSlot
  <2> QED
    BY <2>5, <2>6, <2>7
<1> QED
  BY <1>1, <1>2

(* The invariant is inductive.                                             *)
LEMMA NextIInv == IInv /\ [Next]_vars => IInv'
<1> SUFFICES ASSUME IInv, [Next]_vars PROVE IInv'
  OBVIOUS
<1>1. CASE UNCHANGED vars
  <2>1. Holders' = Holders /\ Waiting' = Waiting /\ TypeOK'
    BY <1>1 DEF vars, Holders, Waiting, IInv, TypeOK
  <2> QED
    BY <1>1, <2>1, FrameKeepsIInv DEF vars
<1>2. ASSUME NEW t \in Tasks, Abort(t) PROVE IInv'
  <2>1. CASE LeaveQueue(t)
    BY <2>1, LeaveQueueIInv
  <2>2. CASE aborted' = aborted \cup {t} /\ UNCHANGED <<active, queue, pc>>
    <3>1. Holders' = Holders /\ Waiting' = Waiting /\ TypeOK'
      BY <2>2 DEF Holders, Waiting, IInv, TypeOK
    <3> QED
      BY <2>2, <3>1, FrameKeepsIInv
  <2> QED
    BY <1>2, <2>1, <2>2 DEF Abort
<1>3. ASSUME NEW t \in Tasks, Resume(t) PROVE IInv'
  <2>1. CASE ReleaseSlot(t)
    <3>1. t \in Holders
      BY <1>3 DEF Resume, Holders
    <3> QED
      BY <2>1, <3>1, ReleaseSlotIInv
  <2>2. CASE /\ pc' = [pc EXCEPT ![t] = "running"]
             /\ UNCHANGED <<active, queue, aborted>>
    <3>1. Holders' = Holders /\ Waiting' = Waiting /\ TypeOK'
      BY <1>3, <2>2 DEF Resume, Holders, Waiting, IInv, TypeOK
    <3> QED
      BY <2>2, <3>1, FrameKeepsIInv
  <2> QED
    BY <1>3, <2>1, <2>2 DEF Resume
<1>4. ASSUME NEW t \in Tasks, Finish(t) PROVE IInv'
  <2>1. t \in Holders /\ ReleaseSlot(t)
    BY <1>4 DEF Finish, Holders
  <2> QED
    BY <2>1, ReleaseSlotIInv
<1>5. ASSUME NEW t \in Tasks, ArriveQueueFull(t) PROVE IInv'
  BY <1>1, <1>5 DEF ArriveQueueFull
<1> QED
  BY <1>1, <1>2, <1>3, <1>4, <1>5, ArriveAbortedIInv, ArriveFreeIInv,
     ArriveQueuedIInv, LeaveQueueIInv DEF Next, Timeout

-----------------------------------------------------------------------------
(* Every reachable state of the pool satisfies the inductive invariant.    *)
THEOREM Invariance == Spec => []IInv
BY InitIInv, NextIInv, PTL DEF Spec

(* The state is always of its type.                                        *)
THEOREM TypeCorrect == Spec => []TypeOK
<1>1. IInv => TypeOK
  BY DEF IInv
<1> QED
  BY <1>1, Invariance, PTL

(* The waiter array and the waiting tasks are the same set.                *)
THEOREM QueueCorrect == Spec => []QueueHoldsWaiters
<1>1. IInv => QueueHoldsWaiters
  BY DEF IInv
<1> QED
  BY <1>1, Invariance, PTL

(* The counter is exact: no slot leaks, none is counted twice, and a task  *)
(* that releases finds the counter positive, so the Math.max of            *)
(* releaseLocalYtdlpSlot never hides a double release.                     *)
THEOREM Conservation == Spec => []SlotConservation
<1>1. IInv => SlotConservation
  BY DEF IInv
<1> QED
  BY <1>1, Invariance, PTL

(* Never more than MaxConcurrent tasks hold a slot.                        *)
THEOREM Bounded == Spec => []NoOverbooking
<1>1. IInv => NoOverbooking
  BY SlotsAssumption DEF IInv, TypeOK, SlotConservation, NoOverbooking
<1> QED
  BY <1>1, Invariance, PTL

(* No wake-up is lost: while a task waits, every slot is taken.            *)
THEOREM NoLostWakeup == Spec => []NobodyWaitsForAFreeSlot
<1>1. IInv => NobodyWaitsForAFreeSlot
  BY DEF IInv
<1> QED
  BY <1>1, Invariance, PTL

-----------------------------------------------------------------------------
(* The order of the array                                                  *)

Ordered(s) ==
  \A i, j \in DOMAIN s : i < j => Priority(s[i]) <= Priority(s[j])

(* Priorities are natural numbers.                                         *)
LEMMA PriorityType == \A t \in Tasks : Priority(t) \in Nat
BY DEF Priority

(* In an ordered array the insertion point parts the better and equal      *)
(* tasks from the worse ones.                                              *)
LEMMA InsertIndexParts ==
  ASSUME NEW s \in Seq(Tasks), NEW t \in Tasks, Ordered(s)
  PROVE  \A i \in 1 .. Len(s) :
           i < InsertIndex(s, t) <=> Priority(s[i]) <= Priority(t)
<1> DEFINE Before == {i \in DOMAIN s : Priority(s[i]) <= Priority(t)}
<1>1. Len(s) \in Nat /\ DOMAIN s = 1 .. Len(s)
  BY LenProperties
<1>2. \A i \in 1 .. Len(s) : s[i] \in Tasks
  BY <1>1, ElementOfSeq
<1>3. /\ IsFiniteSet(Before) /\ Before \subseteq 1 .. Len(s)
      /\ Cardinality(Before) \in Nat
  <2>1. IsFiniteSet(1 .. Len(s))
    BY <1>1, FS_Interval
  <2>2. Before \in SUBSET (1 .. Len(s))
    BY <1>1
  <2> QED
    BY <2>1, <2>2, FS_Subset, FS_CardinalityType
<1>4. ASSUME NEW i \in 1 .. Len(s), Priority(s[i]) <= Priority(t)
      PROVE  i <= Cardinality(Before)
  <2>1. \A j \in 1 .. i : j \in Before
    <3> SUFFICES ASSUME NEW j \in 1 .. i PROVE j \in Before
      OBVIOUS
    <3>1. j \in 1 .. Len(s) /\ Priority(s[j]) <= Priority(s[i])
      BY <1>1, <1>2, PriorityType DEF Ordered
    <3> QED
      BY <1>1, <1>2, <1>4, <3>1, PriorityType
  <2>2. 1 .. i \in SUBSET Before
    BY <2>1
  <2>3. Cardinality(1 .. i) = i
    BY <1>1, FS_Interval
  <2>4. Cardinality(1 .. i) <= Cardinality(Before)
    BY <1>3, <2>2, FS_Subset
  <2> QED
    BY <2>3, <2>4
<1>5. ASSUME NEW i \in 1 .. Len(s), ~(Priority(s[i]) <= Priority(t))
      PROVE  Cardinality(Before) <= i - 1
  <2>1. \A j \in Before : j \in 1 .. i - 1
    <3> SUFFICES ASSUME NEW j \in Before, ~(j < i) PROVE FALSE
      BY <1>1, <1>3
    <3>1. j \in 1 .. Len(s) /\ Priority(s[i]) <= Priority(s[j])
      BY <1>1, <1>2, PriorityType DEF Ordered
    <3> QED
      BY <1>2, <1>5, <3>1, PriorityType
  <2>2. Before \in SUBSET (1 .. i - 1)
    BY <2>1
  <2>3. IsFiniteSet(1 .. i - 1) /\ Cardinality(1 .. i - 1) = i - 1
    <3>1. i - 1 \in Nat
      BY <1>1
    <3> QED
      BY <3>1, FS_Interval
  <2>4. Cardinality(Before) <= Cardinality(1 .. i - 1)
    BY <2>2, <2>3, FS_Subset
  <2> QED
    BY <2>3, <2>4
<1>6. InsertIndex(s, t) = Cardinality(Before) + 1
  BY DEF InsertIndex
<1> HIDE DEF Before
<1> QED
  BY <1>1, <1>3, <1>4, <1>5, <1>6

(* Inserting at the place found keeps the queue in order.                  *)
LEMMA InsertKeepsOrder ==
  ASSUME NEW s \in Seq(Tasks), NEW t \in Tasks, Ordered(s)
  PROVE  Ordered(InsertAt(s, InsertIndex(s, t), t))
<1> DEFINE k == InsertIndex(s, t)
           r == InsertAt(s, k, t)
<1>1. k \in 1 .. Len(s) + 1 /\ Len(s) \in Nat /\ DOMAIN s = 1 .. Len(s)
  BY InsertIndexType, LenProperties
<1>2. \A i \in 1 .. Len(s) : i < k <=> Priority(s[i]) <= Priority(t)
  BY InsertIndexParts
<1>3. \A i \in 1 .. Len(s) : s[i] \in Tasks /\ Priority(s[i]) \in Nat
  BY <1>1, ElementOfSeq, PriorityType
<1>4. /\ DOMAIN r = 1 .. Len(s) + 1
      /\ r[k] = t
      /\ \A j \in 1 .. k - 1 : r[j] = s[j]
      /\ \A j \in k .. Len(s) : r[j + 1] = s[j]
  BY <1>1, InsertAtProperties, LenProperties
<1> HIDE DEF k, r
<1>5. \A j \in k + 1 .. Len(s) + 1 : r[j] = s[j - 1]
  <2> SUFFICES ASSUME NEW j \in k + 1 .. Len(s) + 1 PROVE r[j] = s[j - 1]
    OBVIOUS
  <2>1. j - 1 \in k .. Len(s) /\ (j - 1) + 1 = j
    BY <1>1
  <2> QED
    BY <1>4, <2>1
<1>6. ASSUME NEW i \in DOMAIN r, NEW j \in DOMAIN r, i < j
      PROVE  Priority(r[i]) <= Priority(r[j])
  <2>1. CASE j < k
    BY <1>1, <1>4, <1>6, <2>1 DEF Ordered
  <2>2. CASE j = k
    BY <1>1, <1>2, <1>4, <1>6, <2>2
  <2>3. CASE j > k /\ i < k
    <3>1. i \in 1 .. Len(s) /\ j - 1 \in 1 .. Len(s) /\ i <= j - 1
      BY <1>1, <1>4, <2>3
    <3>2. r[i] = s[i] /\ r[j] = s[j - 1]
      BY <1>1, <1>4, <1>5, <2>3
    <3> QED
      BY <1>1, <1>3, <3>1, <3>2 DEF Ordered
  <2>4. CASE j > k /\ i = k
    <3>1. j - 1 \in 1 .. Len(s) /\ ~(j - 1 < k) /\ r[j] = s[j - 1]
      BY <1>1, <1>4, <1>5, <2>4
    <3> QED
      BY <1>2, <1>3, <1>4, <2>4, <3>1, PriorityType
  <2>5. CASE j > k /\ i > k
    <3>1. i - 1 \in 1 .. Len(s) /\ j - 1 \in 1 .. Len(s) /\ i - 1 < j - 1
      BY <1>1, <1>4, <1>6, <2>5
    <3>2. r[i] = s[i - 1] /\ r[j] = s[j - 1]
      BY <1>1, <1>4, <1>5, <2>5
    <3> QED
      BY <1>1, <3>1, <3>2 DEF Ordered
  <2> QED
    BY <1>1, <1>4, <2>1, <2>2, <2>3, <2>4, <2>5
<1> QED
  BY <1>6 DEF Ordered, r, k

(* Removing an element keeps the queue in order.                           *)
LEMMA RemoveKeepsOrder ==
  ASSUME NEW s \in Seq(Tasks), NEW i \in 1 .. Len(s), Ordered(s)
  PROVE  Ordered(RemoveAt(s, i))
<1> DEFINE r == RemoveAt(s, i)
<1>1. /\ Len(s) \in Nat /\ DOMAIN s = 1 .. Len(s)
      /\ DOMAIN r = 1 .. Len(s) - 1
      /\ \A j \in 1 .. Len(s) - 1 : r[j] = IF j < i THEN s[j] ELSE s[j + 1]
  BY RemoveAtProperties, LenProperties
<1> HIDE DEF r
<1>2. ASSUME NEW a \in DOMAIN r, NEW b \in DOMAIN r, a < b
      PROVE  Priority(r[a]) <= Priority(r[b])
  <2> DEFINE a1 == IF a < i THEN a ELSE a + 1
             b1 == IF b < i THEN b ELSE b + 1
  <2>1. a1 \in 1 .. Len(s) /\ b1 \in 1 .. Len(s) /\ a1 < b1
    BY <1>1, <1>2
  <2>2. r[a] = s[a1] /\ r[b] = s[b1]
    BY <1>1
  <2> HIDE DEF a1, b1
  <2>3. Priority(s[a1]) <= Priority(s[b1])
    BY <1>1, <2>1 DEF Ordered
  <2> QED
    BY <2>2, <2>3
<1> QED
  BY <1>2 DEF Ordered, r

(* So does serving the head, which is a best one.                          *)
LEMMA TailKeepsOrder ==
  ASSUME NEW s \in Seq(Tasks), s # <<>>, Ordered(s)
  PROVE  /\ Ordered(Tail(s))
         /\ \A i \in DOMAIN s : Priority(Head(s)) <= Priority(s[i])
<1> DEFINE r == Tail(s)
<1>1. /\ Len(s) \in Nat /\ DOMAIN s = 1 .. Len(s) /\ Head(s) = s[1]
      /\ DOMAIN r = 1 .. Len(s) - 1
      /\ \A j \in 1 .. Len(s) - 1 : r[j] = s[j + 1]
  BY HeadTailProperties, LenProperties
<1>2. \A i \in DOMAIN s : s[i] \in Tasks
  BY ElementOfSeq, <1>1
<1> HIDE DEF r
<1>3. ASSUME NEW a \in DOMAIN r, NEW b \in DOMAIN r, a < b
      PROVE  Priority(r[a]) <= Priority(r[b])
  <2>1. a + 1 \in 1 .. Len(s) /\ b + 1 \in 1 .. Len(s) /\ a + 1 < b + 1
    BY <1>1, <1>3
  <2>2. r[a] = s[a + 1] /\ r[b] = s[b + 1]
    BY <1>1
  <2>3. Priority(s[a + 1]) <= Priority(s[b + 1])
    BY <1>1, <2>1 DEF Ordered
  <2> QED
    BY <2>2, <2>3
<1>4. ASSUME NEW i \in DOMAIN s PROVE Priority(Head(s)) <= Priority(s[i])
  BY <1>1, <1>2, <1>4, PriorityType DEF Ordered
<1> QED
  BY <1>3, <1>4 DEF Ordered, r

(* A release keeps the queue in order.                                     *)
LEMMA ReleaseSlotOrder ==
  ASSUME NEW t \in Tasks, IInv, QueueOrdered, ReleaseSlot(t)
  PROVE  QueueOrdered'
<1>1. CASE queue # <<>>
  <2>1. queue' = Tail(queue) /\ Ordered(queue) /\ queue \in Seq(Tasks)
    BY <1>1 DEF ReleaseSlot, QueueOrdered, Ordered, IInv, TypeOK
  <2>2. Ordered(Tail(queue))
    BY <1>1, <2>1, TailKeepsOrder
  <2> QED
    BY <2>1, <2>2 DEF QueueOrdered, Ordered
<1>2. CASE queue = <<>>
  BY <1>2 DEF ReleaseSlot, QueueOrdered
<1> QED
  BY <1>1, <1>2

(* So does a waiter that leaves.                                           *)
LEMMA LeaveQueueOrder ==
  ASSUME NEW t \in Tasks, IInv, QueueOrdered, LeaveQueue(t)
  PROVE  QueueOrdered'
<1>1. PICK i \in DOMAIN queue : queue' = RemoveAt(queue, i)
  BY DEF LeaveQueue
<1>2. queue \in Seq(Tasks) /\ i \in 1 .. Len(queue) /\ Ordered(queue)
  BY LenProperties DEF IInv, TypeOK, QueueOrdered, Ordered
<1>3. Ordered(RemoveAt(queue, i))
  BY <1>2, RemoveKeepsOrder
<1> QED
  BY <1>1, <1>3 DEF QueueOrdered, Ordered

(* And every other step.                                                   *)
LEMMA NextOrder == IInv /\ QueueOrdered /\ [Next]_vars => QueueOrdered'
<1> SUFFICES ASSUME IInv, QueueOrdered, [Next]_vars PROVE QueueOrdered'
  OBVIOUS
<1>1. ASSUME queue' = queue PROVE QueueOrdered'
  BY <1>1 DEF QueueOrdered
<1>2. ASSUME NEW t \in Tasks, ArriveQueued(t) PROVE QueueOrdered'
  <2>1. queue' = InsertAt(queue, InsertIndex(queue, t), t)
    BY <1>2 DEF ArriveQueued
  <2>2. queue \in Seq(Tasks) /\ Ordered(queue)
    BY DEF IInv, TypeOK, QueueOrdered, Ordered
  <2>3. Ordered(InsertAt(queue, InsertIndex(queue, t), t))
    BY <2>2, InsertKeepsOrder
  <2> QED
    BY <2>1, <2>3 DEF QueueOrdered, Ordered
<1>3. ASSUME NEW t \in Tasks, Resume(t) PROVE QueueOrdered'
  BY <1>1, <1>3, ReleaseSlotOrder DEF Resume
<1>4. ASSUME NEW t \in Tasks, Finish(t) PROVE QueueOrdered'
  BY <1>4, ReleaseSlotOrder DEF Finish
<1>5. ASSUME NEW t \in Tasks, Abort(t) PROVE QueueOrdered'
  BY <1>1, <1>5, LeaveQueueOrder DEF Abort
<1>6. ASSUME NEW t \in Tasks,
             ArriveAborted(t) \/ ArriveFree(t) \/ ArriveQueueFull(t)
      PROVE  QueueOrdered'
  BY <1>1, <1>6 DEF ArriveAborted, ArriveFree, ArriveQueueFull, vars
<1> QED
  BY <1>1, <1>2, <1>3, <1>4, <1>5, <1>6, LeaveQueueOrder
     DEF Next, Timeout, vars

(* The array is ordered at all times, so the binary search that inserts    *)
(* into it and the shift that serves its head are both right.              *)
THEOREM OrderKept == Spec => []QueueOrdered
<1>1. Init => QueueOrdered
  BY DEF Init, QueueOrdered
<1> QED
  BY <1>1, NextOrder, Invariance, PTL DEF Spec

-----------------------------------------------------------------------------
(* The pool implements the abstract semaphore                              *)

(* A release is the semaphore's release to a best waiter.                  *)
LEMMA ReleaseSlotImplements ==
  ASSUME NEW t \in Tasks, IInv, QueueOrdered, t \in Holders, ReleaseSlot(t)
  PROVE  Promised!Next
<1>1. CASE queue # <<>>
  <2> DEFINE u == Head(queue)
  <2>1. /\ queue \in Seq(Tasks) /\ Ordered(queue) /\ u \in ToSet(queue)
        /\ \A w \in ToSet(queue) : Priority(u) <= Priority(w)
    <3>1. queue \in Seq(Tasks) /\ Ordered(queue)
      BY DEF IInv, TypeOK, QueueOrdered, Ordered
    <3>2. \A i \in DOMAIN queue : Priority(u) <= Priority(queue[i])
      BY <1>1, <3>1, TailKeepsOrder
    <3>3. u \in ToSet(queue)
      BY <1>1, <3>1, HeadTailProperties, TailDistinct
         DEF IInv, QueueHoldsWaiters
    <3> QED
      BY <3>1, <3>2, <3>3 DEF ToSet
  <2>2. pc' = [pc EXCEPT ![t] = "idle", ![u] = "granted"]
    BY <1>1 DEF ReleaseSlot
  <2>3. u \in Waiting /\ \A w \in Waiting : Priority(u) <= Priority(w)
    BY <2>1 DEF IInv, QueueHoldsWaiters
  <2> HIDE DEF u
  <2>4. /\ Holders' = (Holders \ {t}) \cup {u}
        /\ Waiting' = Waiting \ {u}
    BY <2>2, <2>3 DEF IInv, TypeOK, Holders, Waiting
  <2>5. u \in Tasks /\ Promised!HandOver(t, u)
    BY <2>3, <2>4 DEF Promised!HandOver, Waiting
  <2> QED
    BY <2>5 DEF Promised!Next
<1>2. CASE queue = <<>>
  <2>1. pc' = [pc EXCEPT ![t] = "idle"]
    BY <1>2 DEF ReleaseSlot
  <2>2. Holders' = Holders \ {t} /\ Waiting' = Waiting
    BY <2>1 DEF IInv, TypeOK, Holders, Waiting
  <2>3. Waiting = {}
    BY <1>2 DEF IInv, QueueHoldsWaiters, ToSet
  <2>4. Promised!Free(t)
    BY <2>2, <2>3 DEF Promised!Free
  <2> QED
    BY <2>4 DEF Promised!Next
<1> QED
  BY <1>1, <1>2

(* A waiter that leaves is one that the semaphore lets go.                 *)
LEMMA LeaveQueueImplements ==
  ASSUME NEW t \in Tasks, IInv, LeaveQueue(t)
  PROVE  Promised!Next
<1>1. t \in Waiting /\ Holders' = Holders /\ Waiting' = Waiting \ {t}
  BY DEF LeaveQueue, Leave, IInv, TypeOK, Holders, Waiting
<1>2. Promised!GiveUp(t)
  BY <1>1 DEF Promised!GiveUp
<1> QED
  BY <1>2 DEF Promised!Next

(* The cardinality the instance speaks of is the one of this module.       *)
LEMMA SameCardinality ==
  ASSUME NEW S
  PROVE  Promised!Cardinality(S) = Cardinality(S)
BY DEF Promised!Cardinality, Cardinality

(* Every step is one of the semaphore, or a stutter.                       *)
LEMMA NextImplements ==
  IInv /\ QueueOrdered /\ [Next]_vars => [Promised!Next]_Promised!semVars
<1> SUFFICES ASSUME IInv, QueueOrdered, [Next]_vars
             PROVE  [Promised!Next]_Promised!semVars
  OBVIOUS
<1>1. ASSUME Holders' = Holders, Waiting' = Waiting
      PROVE  [Promised!Next]_Promised!semVars
  BY <1>1 DEF Promised!semVars
<1>2. ASSUME pc' = pc PROVE [Promised!Next]_Promised!semVars
  BY <1>1, <1>2 DEF Holders, Waiting
<1>3. ASSUME NEW t \in Tasks, ArriveFree(t)
      PROVE  [Promised!Next]_Promised!semVars
  <2>1. /\ t \notin Holders \cup Waiting
        /\ Holders' = Holders \cup {t}
        /\ Waiting' = Waiting
    BY <1>3 DEF ArriveFree, IInv, TypeOK, Holders, Waiting
  <2>2. active < MaxConcurrent /\ active \in Nat
    BY <1>3, SlotsAssumption DEF ArriveFree, IInv, TypeOK
  <2>3. queue = <<>>
    BY <2>2, SlotsAssumption DEF IInv, NobodyWaitsForAFreeSlot
  <2>4. Waiting = {}
    BY <2>3 DEF IInv, QueueHoldsWaiters, ToSet
  <2>5. Promised!Enter(t)
    BY <2>1, <2>2, <2>4, SameCardinality
       DEF Promised!Enter, IInv, SlotConservation
  <2> QED
    BY <2>5 DEF Promised!Next
<1>4. ASSUME NEW t \in Tasks, ArriveQueued(t)
      PROVE  [Promised!Next]_Promised!semVars
  <2>1. /\ t \notin Holders \cup Waiting
        /\ Holders' = Holders
        /\ Waiting' = Waiting \cup {t}
    BY <1>4 DEF ArriveQueued, IInv, TypeOK, Holders, Waiting
  <2>2. active = MaxConcurrent
    BY <1>4, SlotsAssumption DEF ArriveQueued, IInv, TypeOK
  <2>3. Promised!Queue(t)
    BY <2>1, <2>2, SameCardinality DEF Promised!Queue, IInv, SlotConservation
  <2> QED
    BY <2>3 DEF Promised!Next
<1>5. ASSUME NEW t \in Tasks, Resume(t)
      PROVE  [Promised!Next]_Promised!semVars
  <2>1. CASE ReleaseSlot(t)
    <3>1. t \in Holders
      BY <1>5 DEF Resume, Holders
    <3> QED
      BY <2>1, <3>1, ReleaseSlotImplements
  <2>2. CASE pc' = [pc EXCEPT ![t] = "running"]
    <3>1. Holders' = Holders /\ Waiting' = Waiting
      BY <1>5, <2>2 DEF Resume, IInv, TypeOK, Holders, Waiting
    <3> QED
      BY <1>1, <3>1
  <2> QED
    BY <1>5, <2>1, <2>2 DEF Resume
<1>6. ASSUME NEW t \in Tasks, Finish(t)
      PROVE  [Promised!Next]_Promised!semVars
  BY <1>6, ReleaseSlotImplements DEF Finish, Holders
<1>7. ASSUME NEW t \in Tasks, Abort(t)
      PROVE  [Promised!Next]_Promised!semVars
  BY <1>2, <1>7, LeaveQueueImplements DEF Abort
<1>8. ASSUME NEW t \in Tasks, ArriveAborted(t)
      PROVE  [Promised!Next]_Promised!semVars
  <2>1. pc' = pc
    BY <1>8 DEF ArriveAborted, Leave, IInv, TypeOK
  <2> QED
    BY <1>2, <2>1
<1>9. ASSUME NEW t \in Tasks, ArriveQueueFull(t)
      PROVE  [Promised!Next]_Promised!semVars
  BY <1>2, <1>9 DEF ArriveQueueFull, vars
<1>10. CASE UNCHANGED vars
  BY <1>2, <1>10 DEF vars
<1> QED
  BY <1>3, <1>4, <1>5, <1>6, <1>7, <1>8, <1>9, <1>10, LeaveQueueImplements
     DEF Next, Timeout

(* The pool is a semaphore: a newcomer enters only when nobody waits, a    *)
(* free slot goes to a waiter of the best priority in the very step that   *)
(* frees it, and a waiter that gives up takes no slot with it.             *)
THEOREM Implements == Spec => ImplementsSemaphore
<1>1. Init => Promised!Init
  BY DEF Init, Promised!Init, Holders, Waiting
<1> QED
  BY <1>1, NextImplements, Invariance, OrderKept, PTL
     DEF Spec, ImplementsSemaphore, Promised!Spec

-----------------------------------------------------------------------------
(* No overtaking                                                           *)

(* In a queue without repetition a task has one position.                  *)
LEMMA PositionIs ==
  ASSUME NEW s \in Seq(Tasks), IsInjective(s), NEW i \in 1 .. Len(s)
  PROVE  Position(s, s[i]) = i
<1>1. DOMAIN s = 1 .. Len(s)
  BY LenProperties
<1>2. \A j \in DOMAIN s : s[j] = s[i] => j = i
  BY <1>1 DEF IsInjective
<1> QED
  BY <1>1, <1>2 DEF Position

(* Two tasks keep their order in an array whose places are those of the    *)
(* old one, moved by a map that keeps their order.                         *)
LEMMA EmbeddingKeepsOrder ==
  ASSUME NEW s \in Seq(Tasks), IsInjective(s),
         NEW r \in Seq(Tasks), IsInjective(r),
         NEW i \in 1 .. Len(s), NEW j \in 1 .. Len(s),
         NEW a \in 1 .. Len(r), NEW b \in 1 .. Len(r),
         r[a] = s[i], r[b] = s[j], i < j => a < b
  PROVE  Position(s, s[i]) < Position(s, s[j])
           => Position(r, s[i]) < Position(r, s[j])
BY PositionIs

(* What stands where after an insertion.                                   *)
LEMMA InsertPlaces ==
  ASSUME NEW s \in Seq(Tasks), NEW n \in Tasks, NEW k \in 1 .. Len(s) + 1
  PROVE  /\ InsertAt(s, k, n) \in Seq(Tasks)
         /\ Len(InsertAt(s, k, n)) = Len(s) + 1
         /\ InsertAt(s, k, n)[k] = n
         /\ \A j \in 1 .. k - 1 : InsertAt(s, k, n)[j] = s[j]
         /\ \A j \in k .. Len(s) : InsertAt(s, k, n)[j + 1] = s[j]
BY InsertAtProperties

(* Insertion overtakes nobody of the same or a better priority.            *)
LEMMA InsertKeepsPlaces ==
  ASSUME NEW s \in Seq(Tasks), IsInjective(s), Ordered(s),
         NEW n \in Tasks \ ToSet(s),
         NEW r, r = InsertAt(s, InsertIndex(s, n), n)
  PROVE  /\ \A t, u \in ToSet(s) :
              Position(s, t) < Position(s, u) => Position(r, t) < Position(r, u)
         /\ \A t \in ToSet(s) :
              Priority(t) <= Priority(n) => Position(r, t) < Position(r, n)
<1> DEFINE k == InsertIndex(s, n)
           At(i) == IF i < k THEN i ELSE i + 1
<1>1. k \in 1 .. Len(s) + 1 /\ Len(s) \in Nat /\ DOMAIN s = 1 .. Len(s)
  BY InsertIndexType, LenProperties
<1>2. r = InsertAt(s, k, n)
  OBVIOUS
<1>3. \A i \in 1 .. Len(s) : i < k <=> Priority(s[i]) <= Priority(n)
  BY InsertIndexParts
<1> HIDE DEF k
<1>4. /\ r \in Seq(Tasks) /\ Len(r) = Len(s) + 1 /\ r[k] = n
      /\ \A j \in 1 .. k - 1 : r[j] = s[j]
      /\ \A j \in k .. Len(s) : r[j + 1] = s[j]
      /\ IsInjective(r)
  <2>1. /\ s \in Seq(Tasks) /\ n \in Tasks /\ n \notin ToSet(s)
        /\ k \in 1 .. Len(s) + 1
    BY <1>1
  <2>2. /\ InsertAt(s, k, n) \in Seq(Tasks)
        /\ Len(InsertAt(s, k, n)) = Len(s) + 1
        /\ InsertAt(s, k, n)[k] = n
        /\ \A j \in 1 .. k - 1 : InsertAt(s, k, n)[j] = s[j]
        /\ \A j \in k .. Len(s) : InsertAt(s, k, n)[j + 1] = s[j]
    BY <2>1, InsertPlaces
  <2>3. IsInjective(InsertAt(s, k, n))
    BY <1>1, <2>1, InsertAtDistinct
  <2> QED
    BY <1>2, <2>2, <2>3
<1>5. \A i \in 1 .. Len(s) : At(i) \in 1 .. Len(r) /\ r[At(i)] = s[i]
  BY <1>1, <1>4
<1>6. \A i, j \in 1 .. Len(s) : i < j => At(i) < At(j)
  BY <1>1
<1>7. ASSUME NEW t \in ToSet(s), NEW u \in ToSet(s)
      PROVE  Position(s, t) < Position(s, u) => Position(r, t) < Position(r, u)
  <2>1. PICK i \in 1 .. Len(s), j \in 1 .. Len(s) : t = s[i] /\ u = s[j]
    BY <1>1 DEF ToSet
  <2> HIDE DEF At
  <2> QED
    BY <1>4, <1>5, <1>6, <2>1, EmbeddingKeepsOrder
<1>8. ASSUME NEW t \in ToSet(s), Priority(t) <= Priority(n)
      PROVE  Position(r, t) < Position(r, n)
  <2>1. PICK i \in 1 .. Len(s) : t = s[i]
    BY <1>1 DEF ToSet
  <2>2. i < k
    BY <1>3, <1>8, <2>1
  <2>3. i \in 1 .. Len(r) /\ k \in 1 .. Len(r) /\ r[i] = t
    BY <1>1, <1>4, <2>1, <2>2
  <2>4. Position(r, r[i]) = i /\ Position(r, r[k]) = k
    BY <1>4, <2>3, PositionIs
  <2> QED
    BY <1>4, <2>2, <2>3, <2>4
<1> QED
  BY <1>7, <1>8

(* A removal leaves the others in their order.                             *)
LEMMA RemoveKeepsPlaces ==
  ASSUME NEW s \in Seq(Tasks), IsInjective(s), NEW x \in 1 .. Len(s),
         NEW r, r = RemoveAt(s, x),
         NEW t \in ToSet(s) \ {s[x]}, NEW u \in ToSet(s) \ {s[x]}
  PROVE  Position(s, t) < Position(s, u) => Position(r, t) < Position(r, u)
<1> DEFINE At(i) == IF i < x THEN i ELSE i - 1
<1>1. Len(s) \in Nat /\ DOMAIN s = 1 .. Len(s)
  BY LenProperties
<1>2. /\ r \in Seq(Tasks) /\ Len(r) = Len(s) - 1
      /\ \A j \in 1 .. Len(s) - 1 : r[j] = IF j < x THEN s[j] ELSE s[j + 1]
  BY RemoveAtProperties
<1>3. IsInjective(r)
  BY RemoveAtDistinct
<1>4. PICK i \in 1 .. Len(s), j \in 1 .. Len(s) :
        t = s[i] /\ u = s[j] /\ i # x /\ j # x
  BY <1>1 DEF ToSet
<1>5. ASSUME NEW p \in 1 .. Len(s), p # x
      PROVE  At(p) \in 1 .. Len(r) /\ r[At(p)] = s[p]
  <2>1. At(p) \in 1 .. Len(s) - 1
    BY <1>1, <1>5
  <2>2. IF At(p) < x THEN At(p) = p ELSE At(p) + 1 = p
    BY <1>1, <1>5
  <2> HIDE DEF At
  <2> QED
    BY <1>2, <2>1, <2>2
<1>6. i < j => At(i) < At(j)
  BY <1>1, <1>4
<1> HIDE DEF At
<1> QED
  BY <1>2, <1>3, <1>4, <1>5, <1>6, EmbeddingKeepsOrder

(* So does serving the head.                                               *)
LEMMA TailKeepsPlaces ==
  ASSUME NEW s \in Seq(Tasks), s # <<>>, IsInjective(s),
         NEW t \in ToSet(s) \ {Head(s)}, NEW u \in ToSet(s) \ {Head(s)}
  PROVE  Position(s, t) < Position(s, u)
           => Position(Tail(s), t) < Position(Tail(s), u)
<1> DEFINE r == Tail(s)
<1>1. /\ Len(s) \in Nat /\ DOMAIN s = 1 .. Len(s) /\ Head(s) = s[1]
      /\ r \in Seq(Tasks) /\ Len(r) = Len(s) - 1
      /\ \A j \in 1 .. Len(s) - 1 : r[j] = s[j + 1]
  BY HeadTailProperties, LenProperties
<1>2. IsInjective(r)
  BY TailDistinct
<1> HIDE DEF r
<1>3. PICK i \in 1 .. Len(s), j \in 1 .. Len(s) :
        t = s[i] /\ u = s[j] /\ i # 1 /\ j # 1
  BY <1>1 DEF ToSet
<1>4. ASSUME NEW p \in 1 .. Len(s), p # 1
      PROVE  p - 1 \in 1 .. Len(r) /\ r[p - 1] = s[p]
  <2>1. p - 1 \in 1 .. Len(s) - 1 /\ (p - 1) + 1 = p
    BY <1>1, <1>4
  <2> QED
    BY <1>1, <2>1
<1>5. i < j => i - 1 < j - 1
  BY <1>1
<1>6. Position(s, s[i]) < Position(s, s[j])
        => Position(r, s[i]) < Position(r, s[j])
  BY <1>1, <1>2, <1>3, <1>4, <1>5, EmbeddingKeepsOrder
<1> QED
  BY <1>3, <1>6 DEF r

(* What one step may not do to the order of the waiters.                   *)
StepOvertakesNobody ==
  /\ \A t, u \in Waiting \cap Waiting' :
       Position(queue, t) < Position(queue, u)
         => Position(queue', t) < Position(queue', u)
  /\ \A t \in Waiting, u \in Waiting' \ Waiting :
       t \in Waiting' /\ Priority(t) <= Priority(u)
         => Position(queue', t) < Position(queue', u)

(* A request that queues overtakes nobody.                                 *)
LEMMA QueuedOvertakesNobody ==
  ASSUME NEW t \in Tasks, IInv, QueueOrdered, ArriveQueued(t)
  PROVE  StepOvertakesNobody
<1>1. /\ queue \in Seq(Tasks) /\ Ordered(queue)
      /\ IsInjective(queue) /\ ToSet(queue) = Waiting
  BY DEF IInv, TypeOK, QueueHoldsWaiters, QueueOrdered, Ordered
<1>2. Waiting' = Waiting \cup {t} /\ t \notin Waiting
  BY DEF ArriveQueued, IInv, TypeOK, Waiting
<1>3. queue' = InsertAt(queue, InsertIndex(queue, t), t)
  BY DEF ArriveQueued
<1>4. t \in Tasks \ ToSet(queue)
  BY <1>1, <1>2
<1>5. /\ \A v, u \in ToSet(queue) :
           Position(queue, v) < Position(queue, u)
             => Position(queue', v) < Position(queue', u)
      /\ \A v \in ToSet(queue) :
           Priority(v) <= Priority(t)
             => Position(queue', v) < Position(queue', t)
  BY <1>1, <1>3, <1>4, InsertKeepsPlaces
<1> QED
  BY <1>1, <1>2, <1>5 DEF StepOvertakesNobody

(* A waiter that leaves overtakes nobody.                                  *)
LEMMA LeaveOvertakesNobody ==
  ASSUME NEW t \in Tasks, IInv, LeaveQueue(t)
  PROVE  StepOvertakesNobody
<1>1. /\ queue \in Seq(Tasks)
      /\ IsInjective(queue) /\ ToSet(queue) = Waiting
  BY DEF IInv, TypeOK, QueueHoldsWaiters
<1>2. PICK x \in DOMAIN queue : queue[x] = t /\ queue' = RemoveAt(queue, x)
  BY DEF LeaveQueue
<1>3. x \in 1 .. Len(queue)
  BY <1>1, LenProperties
<1>4. Waiting' = Waiting \ {t}
  BY DEF LeaveQueue, Leave, IInv, TypeOK, Waiting
<1>5. \A v, u \in ToSet(queue) \ {t} :
        Position(queue, v) < Position(queue, u)
          => Position(queue', v) < Position(queue', u)
  BY <1>1, <1>2, <1>3, RemoveKeepsPlaces
<1> QED
  BY <1>1, <1>4, <1>5 DEF StepOvertakesNobody

(* A release serves nobody before its turn.                                *)
LEMMA ReleaseOvertakesNobody ==
  ASSUME NEW t \in Tasks, IInv, t \in Holders, ReleaseSlot(t)
  PROVE  StepOvertakesNobody
<1>1. /\ queue \in Seq(Tasks)
      /\ IsInjective(queue) /\ ToSet(queue) = Waiting
  BY DEF IInv, TypeOK, QueueHoldsWaiters
<1>2. CASE queue # <<>>
  <2>1. /\ queue' = Tail(queue)
        /\ pc' = [pc EXCEPT ![t] = "idle", ![Head(queue)] = "granted"]
    BY <1>2 DEF ReleaseSlot
  <2>2. Head(queue) \in Waiting
    BY <1>1, <1>2, TailDistinct
  <2>3. Waiting' = Waiting \ {Head(queue)}
    BY <2>1, <2>2 DEF IInv, TypeOK, Waiting, Holders
  <2>4. \A v, u \in ToSet(queue) \ {Head(queue)} :
          Position(queue, v) < Position(queue, u)
            => Position(queue', v) < Position(queue', u)
    BY <1>1, <1>2, <2>1, TailKeepsPlaces
  <2> QED
    BY <1>1, <2>3, <2>4 DEF StepOvertakesNobody
<1>3. CASE queue = <<>>
  <2>1. queue' = queue /\ Waiting' = Waiting
    BY <1>3 DEF ReleaseSlot, IInv, TypeOK, Waiting, Holders
  <2> QED
    BY <2>1 DEF StepOvertakesNobody
<1> QED
  BY <1>2, <1>3

(* No step overtakes anybody.                                              *)
LEMMA NextOvertakesNobody ==
  IInv /\ QueueOrdered /\ [Next]_vars => StepOvertakesNobody
<1> SUFFICES ASSUME IInv, QueueOrdered, [Next]_vars PROVE StepOvertakesNobody
  OBVIOUS
<1>1. ASSUME queue' = queue, Waiting' = Waiting PROVE StepOvertakesNobody
  BY <1>1 DEF StepOvertakesNobody
<1>2. ASSUME NEW t \in Tasks, Resume(t) PROVE StepOvertakesNobody
  <2>1. CASE ReleaseSlot(t)
    BY <1>2, <2>1, ReleaseOvertakesNobody DEF Resume, Holders
  <2>2. CASE pc' = [pc EXCEPT ![t] = "running"] /\ queue' = queue
    <3>1. Waiting' = Waiting
      BY <1>2, <2>2 DEF Resume, IInv, TypeOK, Waiting
    <3> QED
      BY <1>1, <2>2, <3>1
  <2> QED
    BY <1>2, <2>1, <2>2 DEF Resume
<1>3. ASSUME NEW t \in Tasks, Finish(t) PROVE StepOvertakesNobody
  BY <1>3, ReleaseOvertakesNobody DEF Finish, Holders
<1>4. ASSUME NEW t \in Tasks, Abort(t) PROVE StepOvertakesNobody
  BY <1>1, <1>4, LeaveOvertakesNobody DEF Abort, Waiting
<1>5. ASSUME NEW t \in Tasks, ArriveFree(t) \/ ArriveAborted(t)
      PROVE  StepOvertakesNobody
  <2>1. queue' = queue /\ Waiting' = Waiting
    BY <1>5 DEF ArriveFree, ArriveAborted, Leave, IInv, TypeOK, Waiting
  <2> QED
    BY <1>1, <2>1
<1>6. ASSUME UNCHANGED vars PROVE StepOvertakesNobody
  BY <1>1, <1>6 DEF vars, Waiting
<1> QED
  BY <1>2, <1>3, <1>4, <1>5, <1>6, QueuedOvertakesNobody, LeaveOvertakesNobody
     DEF Next, Timeout, ArriveQueueFull

(* A waiter is never overtaken, by another waiter or by a newcomer of its  *)
(* own priority, through aborts, timeouts and hand-overs.                  *)
THEOREM OrderOfService == Spec => NoOvertaking
<1>1. IInv /\ QueueOrdered /\ [Next]_vars
        => [/\ \A t, u \in Waiting \cap Waiting' :
                 Position(queue, t) < Position(queue, u)
                   => Position(queue', t) < Position(queue', u)
            /\ \A t \in Waiting, u \in Waiting' \ Waiting :
                 t \in Waiting' /\ Priority(t) <= Priority(u)
                   => Position(queue', t) < Position(queue', u)]_vars
  BY NextOvertakesNobody DEF StepOvertakesNobody
<1> QED
  BY <1>1, Invariance, OrderKept, PTL DEF Spec, NoOvertaking
=============================================================================
