----------------------- MODULE WatchTimeWritesProofs ------------------------
(***************************************************************************)
(* The queue of playback positions, for every number of videos, any limits *)
(* and any number of requests and faults.                                  *)
(*                                                                         *)
(* The argument.  A queue is in order when what waits has a timer or a     *)
(* place in the ready array, places and turns are all different, no video  *)
(* is written twice at a time, no request is waited for twice, and nothing *)
(* ready could start: draining makes the last true again whatever happened *)
(* to one entry, since those with less than c startable before them are    *)
(* the c first.  With one process the versions of a video increase from    *)
(* what is stored over what is being written to what waits, and the last   *)
(* one taken is the last of these, unless it was given up.                 *)
(***************************************************************************)
EXTENDS WatchTimeWrites, DataFacts

-----------------------------------------------------------------------------
(* What holds of one queue s.                                              *)
WellFormed(s) ==
  /\ s \in Queue
  /\ IsFiniteSet(s.active)
  /\ Cardinality(s.active) <= Concurrency
  /\ Cardinality(Pending(s)) <= MaxPending

(* An entry waits for its timer or in the ready array; no two have the     *)
(* same place or turn, and no video is written twice at a time.            *)
InOrder(s) ==
  /\ \A k \in Pending(s) : s.entry[k].timer # s.entry[k].ready
  /\ \A j, k \in Pending(s) : j # k => s.entry[j].place # s.entry[k].place
  /\ \A j, k \in Ready(s) : j # k => s.entry[j].turn # s.entry[k].turn
  /\ \A v, w \in s.active : v.key = w.key => v = w

(* Every request waits in one place.                                       *)
WaitsOnce(s) ==
  /\ \A j, k \in Pending(s) :
       j # k => s.entry[j].waiters \cap s.entry[k].waiters = {}
  /\ \A k \in Pending(s), w \in s.active :
       s.entry[k].waiters \cap w.waiters = {}
  /\ \A v, w \in s.active : v # w => v.waiters \cap w.waiters = {}

(* Nothing ready waits while a write could start.                          *)
Busy(s) == Cardinality(s.active) < Concurrency => Startable(s) = {}

QueueInv(s) == WellFormed(s) /\ InOrder(s) /\ WaitsOnce(s)

(* s with the entry e for k.                                               *)
With(t, s, k, e) ==
  /\ t \in Queue
  /\ t.entry = [s.entry EXCEPT ![k] = e] /\ t.active = s.active

(* The entries of a queue are finitely many.                               *)
LEMMA KeysFinite ==
  ASSUME NEW s
  PROVE  /\ IsFiniteSet(Pending(s)) /\ IsFiniteSet(Ready(s))
         /\ IsFiniteSet(Startable(s))
         /\ Startable(s) \subseteq Ready(s) /\ Ready(s) \subseteq Pending(s)
         /\ Pending(s) \subseteq Keys
<1>1. IsFiniteSet(Keys)
  BY WatchTimeAssumption
<1>2. /\ Startable(s) \subseteq Ready(s) /\ Ready(s) \subseteq Pending(s)
      /\ Pending(s) \subseteq Keys
  BY DEF Startable, Ready, Pending
<1> QED
  BY <1>1, <1>2, FS_Subset

(* What the types say of one entry.                                        *)
LEMMA EntryTyped ==
  ASSUME NEW s \in Queue, NEW k \in Pending(s)
  PROVE  /\ k \in Keys /\ s.entry[k] \in Entry
         /\ s.entry[k].place \in Nat /\ s.entry[k].turn \in Nat
         /\ s.entry[k].priority \in {0, 1} /\ s.entry[k].ver \in Versions
         /\ s.entry[k].ready \in BOOLEAN /\ s.entry[k].timer \in BOOLEAN
         /\ s.entry[k].waiters \in SUBSET Versions
BY DEF Queue, Entry, Pending

(* The next turn is after that of every ready entry, the next place after  *)
(* that of every entry.                                                    *)
LEMMA NextNumbers ==
  ASSUME NEW s \in Queue
  PROVE  /\ NextTurn(s) \in Nat /\ NextPlace(s) \in Nat
         /\ \A k \in Ready(s) : s.entry[k].turn < NextTurn(s)
         /\ \A k \in Pending(s) : s.entry[k].place < NextPlace(s)
<1>1. ASSUME NEW D, IsFiniteSet(D), NEW f \in [D -> Nat]
      PROVE  /\ Max({0} \cup {f[k] : k \in D}) \in Nat
             /\ \A k \in D : f[k] <= Max({0} \cup {f[j] : j \in D})
  <2> DEFINE image == {f[k] : k \in D}
             all == {0} \cup image
  <2>1. IsFiniteSet(image)
    <3>1. f \in Surjection(D, image)
      BY DEF Surjection
    <3> QED
      BY <1>1, <3>1, FS_Surjection
  <2>2. IsFiniteSet(all)
    BY <2>1, FS_AddElement
  <2>3. all \in SUBSET Nat /\ all # {}
    OBVIOUS
  <2>4. \A k \in D : f[k] \in all
    OBVIOUS
  <2> HIDE DEF all
  <2>5. \E x \in all : \A y \in all : x >= y
    BY <2>2, <2>3, GreatestNumber
  <2>6. Max(all) \in all /\ \A y \in all : Max(all) >= y
    BY <2>5 DEF Max
  <2>7. Max(all) \in Nat /\ \A k \in D : f[k] <= Max(all)
    BY <2>3, <2>4, <2>6
  <2> QED
    BY <2>7 DEF all
<1>2. NextTurn(s) \in Nat /\ \A k \in Ready(s) : s.entry[k].turn < NextTurn(s)
  <2> DEFINE f == [k \in Ready(s) |-> s.entry[k].turn]
             m == Max({0} \cup {f[k] : k \in Ready(s)})
  <2>1. f \in [Ready(s) -> Nat]
    BY EntryTyped, KeysFinite
  <2>2. m \in Nat /\ \A k \in Ready(s) : f[k] <= m
    BY <1>1, <2>1, KeysFinite
  <2>3. {f[k] : k \in Ready(s)} = {s.entry[k].turn : k \in Ready(s)}
    OBVIOUS
  <2>4. NextTurn(s) = 1 + m
    BY <2>3 DEF NextTurn
  <2>5. \A k \in Ready(s) : f[k] = s.entry[k].turn /\ f[k] \in Nat
    BY <2>1
  <2> HIDE DEF f, m
  <2> QED
    BY <2>2, <2>4, <2>5
<1>3. /\ NextPlace(s) \in Nat
      /\ \A k \in Pending(s) : s.entry[k].place < NextPlace(s)
  <2> DEFINE f == [k \in Pending(s) |-> s.entry[k].place]
             m == Max({0} \cup {f[k] : k \in Pending(s)})
  <2>1. f \in [Pending(s) -> Nat]
    BY EntryTyped
  <2>2. m \in Nat /\ \A k \in Pending(s) : f[k] <= m
    BY <1>1, <2>1, KeysFinite
  <2>3. {f[k] : k \in Pending(s)} = {s.entry[k].place : k \in Pending(s)}
    OBVIOUS
  <2>4. NextPlace(s) = 1 + m
    BY <2>3 DEF NextPlace
  <2>5. \A k \in Pending(s) : f[k] = s.entry[k].place /\ f[k] \in Nat
    BY <2>1
  <2> HIDE DEF f, m
  <2> QED
    BY <2>2, <2>4, <2>5
<1> QED
  BY <1>2, <1>3

-----------------------------------------------------------------------------
(* The invariant.                                                          *)
Histories ==
  /\ visible \in [Procs -> [Keys -> 0..MaxUpdates]]
  /\ phase \in [Procs -> {"up", "closing", "flushing", "down"}]
  /\ open \in [Procs -> SUBSET Versions]
  /\ stored \in [Keys -> 0..MaxUpdates]
  /\ version \in 0..MaxUpdates /\ faults \in 0..MaxFaults
  /\ latest \in [Keys -> 0..MaxUpdates]
  /\ done \in [Keys -> SUBSET Versions]
  /\ dropped \subseteq Versions

(* Of one process: who waits has asked already, and none waits in a        *)
(* process that is down.                                                   *)
ProcInv(p) ==
  /\ QueueInv(q[p]) /\ Busy(q[p])
  /\ open[p] = Waiters(q[p])
  /\ \A v \in open[p] : v <= version
  /\ phase[p] = "down" => Idle(q[p])

KeepInv ==
  /\ q \in [Procs -> Queue] /\ Histories
  /\ \A p \in Procs : ProcInv(p)

(* Of one video k of a process that is alone, with the queue s, where h is *)
(* what is known of the video elsewhere: what waits is newer than what is  *)
(* being written and that than what is stored; the last taken is one of    *)
(* these, or given up; who waits for a write has sent nothing newer; and   *)
(* what is shown lives as long as what is to be written.                   *)
Ascending(s, k, h) ==
  /\ h.stored <= h.latest /\ h.latest <= h.version
  /\ \A w \in s.active : w.key = k =>
       /\ h.stored < w.ver /\ w.ver <= h.latest
       /\ \A v \in w.waiters : v <= w.ver
  /\ k \in Pending(s) =>
       /\ s.entry[k].ver = h.latest /\ h.stored < h.latest
       /\ \A w \in s.active : w.key = k => w.ver < h.latest
       /\ \A v \in s.entry[k].waiters : v <= h.latest

Accounted(s, k, h) ==
  \/ h.lost \/ h.stored = h.latest \/ k \in Pending(s)
  \/ \E w \in s.active : w.key = k /\ w.ver = h.latest

Shown(s, k, h) ==
  IF h.shown = 0
  THEN k \notin Pending(s) /\ k \notin ActiveKeys(s)
  ELSE h.latest <= h.shown

KeySafe(s, k, h) ==
  /\ Ascending(s, k, h) /\ Accounted(s, k, h) /\ Shown(s, k, h)
  /\ \A v \in h.done : v <= h.stored

View(p, k) ==
  [stored |-> stored[k], latest |-> latest[k], version |-> version,
   lost |-> latest[k] \in dropped, shown |-> visible[p][k], done |-> done[k]]

AloneInv ==
  /\ KeepInv
  /\ \A p \in Procs, k \in Keys : KeySafe(q[p], k, View(p, k))

-----------------------------------------------------------------------------
(* Draining.                                                               *)
WriteOf(s, k) ==
  [key |-> k, ver |-> s.entry[k].ver, waiters |-> s.entry[k].waiters]

(* t is s after some of its entries have become writes.                    *)
Moved(t, s) ==
  /\ t \in Queue
  /\ Pending(t) \subseteq Pending(s)
  /\ \A k \in Pending(t) : t.entry[k] = s.entry[k]
  /\ t.active = s.active \cup {WriteOf(s, k) : k \in Pending(s) \ Pending(t)}
  /\ \A k \in Pending(s) \ Pending(t) : k \notin ActiveKeys(s)

(* Each startable entry has those before it, in a total order.             *)
Earlier(s) == [k \in Startable(s) |-> {j \in Startable(s) : Before(s, j, k)}]
(* The startable entries have a strict order: a first one exists.          *)
LEMMA StartableRanked ==
  ASSUME NEW s, WellFormed(s), InOrder(s)
  PROVE  Ranking(Earlier(s), Startable(s))
<1> DEFINE S == Startable(s)
<1>1. \A k \in S : /\ k \in Ready(s) /\ s.entry[k].turn \in Nat
                   /\ s.entry[k].priority \in {0, 1}
  BY KeysFinite, EntryTyped DEF WellFormed
<1>2. \A j, k \in S : j # k => s.entry[j].turn # s.entry[k].turn
  BY <1>1 DEF InOrder
<1> HIDE DEF S
<1>3. Earlier(s) = [k \in S |-> {j \in S : Before(s, j, k)}]
  BY DEF Earlier, S
<1>4. \A j, k \in S : j \in Earlier(s)[k] <=> Before(s, j, k)
  BY <1>3
<1>5. Earlier(s) \in [S -> SUBSET S]
  BY <1>3
<1>6. \A k \in S : ~Before(s, k, k)
  BY <1>1 DEF Before
<1>7. \A i, j, k \in S : Before(s, i, j) /\ Before(s, j, k) => Before(s, i, k)
  <2> SUFFICES ASSUME NEW i \in S, NEW j \in S, NEW k \in S,
                      Before(s, i, j), Before(s, j, k)
               PROVE  Before(s, i, k)
    OBVIOUS
  <2>1. /\ s.entry[i].turn \in Nat /\ s.entry[j].turn \in Nat
        /\ s.entry[k].turn \in Nat /\ s.entry[i].priority \in {0, 1}
        /\ s.entry[j].priority \in {0, 1} /\ s.entry[k].priority \in {0, 1}
    BY <1>1
  <2> QED
    BY <2>1 DEF Before
<1>8. \A j, k \in S : j = k \/ Before(s, j, k) \/ Before(s, k, j)
  <2> SUFFICES ASSUME NEW j \in S, NEW k \in S, j # k
               PROVE  Before(s, j, k) \/ Before(s, k, j)
    OBVIOUS
  <2>1. /\ s.entry[j].turn \in Nat /\ s.entry[k].turn \in Nat
        /\ s.entry[j].priority \in {0, 1} /\ s.entry[k].priority \in {0, 1}
        /\ s.entry[j].turn # s.entry[k].turn
    BY <1>1, <1>2
  <2> QED
    BY <2>1 DEF Before
<1>9. \A x \in S : x \notin Earlier(s)[x]
  BY <1>4, <1>6
<1>10. \A x \in S :
         \A y \in Earlier(s)[x] : Earlier(s)[y] \subseteq Earlier(s)[x]
  BY <1>4, <1>5, <1>7
<1>11. \A x, y \in S : x = y \/ x \in Earlier(s)[y] \/ y \in Earlier(s)[x]
  BY <1>4, <1>8
<1> QED
  BY <1>5, <1>9, <1>10, <1>11 DEF Ranking, S

(* So no more start than there is room for, and if fewer, all of them do.  *)
LEMMA StartingFits ==
  ASSUME NEW s, WellFormed(s), InOrder(s)
  PROVE  /\ Starting(s) \subseteq Startable(s)
         /\ Cardinality(Starting(s)) + Cardinality(s.active) <= Concurrency
         /\ Cardinality(Starting(s)) + Cardinality(s.active) < Concurrency
              => Starting(s) = Startable(s)
<1> DEFINE S == Startable(s)
           down == Earlier(s)
           room == Concurrency - Cardinality(s.active)
           first == {x \in S : Cardinality(down[x]) < room}
<1>1. IsFiniteSet(S) /\ Ranking(down, S)
  BY KeysFinite, StartableRanked
<1>2. /\ Cardinality(s.active) \in Nat /\ Concurrency \in Nat
      /\ room \in Nat
  BY WatchTimeAssumption, FS_CardinalityType DEF WellFormed
<1>3. first = Starting(s)
  <2>1. \A k \in S : down[k] = {j \in Startable(s) : Before(s, j, k)}
    BY DEF Earlier
  <2>2. \A k \in S : Cardinality(down[k]) \in Nat
    BY <1>1, FS_Subset, FS_CardinalityType DEF Ranking
  <2>3. \A k \in S : Cardinality(down[k]) < room
                     <=> Cardinality(down[k]) + Cardinality(s.active)
                           < Concurrency
    BY <1>2, <2>2
  <2> QED
    BY <2>1, <2>3 DEF Starting
<1>4. Cardinality(first) \in Nat /\ first \subseteq S
  BY <1>1, FS_Subset, FS_CardinalityType
<1> HIDE DEF S, down, room
<1>5. Cardinality(first) <= room /\ (Cardinality(first) < room => first = S)
  BY <1>1, <1>2, FirstOnes
<1> HIDE DEF first
<1> QED
  BY <1>2, <1>3, <1>4, <1>5 DEF S, room

(* Draining moves the entries it starts to the active writes.              *)
LEMMA DrainMoves ==
  ASSUME NEW s, WellFormed(s), InOrder(s)
  PROVE  /\ Moved(Drained(s), s)
         /\ Pending(Drained(s)) = Pending(s) \ Starting(s)
<1> DEFINE go == Starting(s)
           t == Drained(s)
<1>1. go \subseteq Startable(s) /\ go \subseteq Pending(s)
  BY StartingFits, KeysFinite
<1>2. s \in Queue /\ s.entry \in [Keys -> Entry \cup {None}]
  BY DEF WellFormed, Queue
<1>3. /\ t.entry = [k \in Keys |-> IF k \in go THEN None ELSE s.entry[k]]
      /\ t.active = s.active \cup {WriteOf(s, k) : k \in go}
      /\ t = [entry |-> t.entry, active |-> t.active]
  BY DEF Drained, WriteOf
<1> HIDE DEF t, go
<1>4. Pending(t) = Pending(s) \ go /\ Pending(s) \ Pending(t) = go
  BY <1>1, <1>3 DEF Pending
<1>5. \A k \in go : WriteOf(s, k) \in [key : Keys, ver : Versions,
                                       waiters : SUBSET Versions]
  BY <1>1, <1>2, EntryTyped DEF WriteOf, Pending
<1>6. t \in Queue
  <2>1. t.entry \in [Keys -> Entry \cup {None}]
    BY <1>2, <1>3
  <2>2. s.active \in SUBSET [key : Keys, ver : Versions,
                            waiters : SUBSET Versions]
    BY <1>2 DEF Queue
  <2>3. t.active \in SUBSET [key : Keys, ver : Versions,
                            waiters : SUBSET Versions]
    BY <1>3, <1>5, <2>2
  <2> QED
    BY <1>3, <2>1, <2>3 DEF Queue
<1>7. \A k \in Pending(t) : t.entry[k] = s.entry[k]
  BY <1>3, <1>4 DEF Pending
<1>8. \A k \in go : k \notin ActiveKeys(s)
  BY <1>1 DEF Startable
<1> QED
  BY <1>3, <1>4, <1>6, <1>7, <1>8 DEF Moved, t, go

(* What is moved stays in order, and nobody stops waiting.                 *)
LEMMA MovedKeeps ==
  ASSUME NEW s, NEW t, s \in Queue, InOrder(s), WaitsOnce(s), Moved(t, s)
  PROVE  InOrder(t) /\ WaitsOnce(t) /\ Waiters(t) = Waiters(s)
<1> DEFINE go == Pending(s) \ Pending(t)
<1>1. /\ Pending(t) \subseteq Pending(s) /\ go \subseteq Pending(s)
      /\ \A k \in Pending(t) : t.entry[k] = s.entry[k] /\ k \notin go
      /\ t.active = s.active \cup {WriteOf(s, k) : k \in go}
      /\ \A k \in go : \A w \in s.active : w.key # k
  BY DEF Moved, ActiveKeys
<1>2. Pending(s) = Pending(t) \cup go
  BY <1>1
<1>3. \A k : WriteOf(s, k).key = k
             /\ WriteOf(s, k).waiters = s.entry[k].waiters
  BY DEF WriteOf
<1>4. \A w \in t.active : w \in s.active \/ \E k \in go : w = WriteOf(s, k)
  BY <1>1
<1> HIDE DEF go
<1>5. InOrder(t)
  <2>1. Ready(t) \subseteq Ready(s)
    BY <1>1 DEF Ready
  <2>2. \A j, k \in Ready(t) : j # k => t.entry[j].turn # t.entry[k].turn
    <3>1. \A k \in Ready(t) : t.entry[k] = s.entry[k]
      BY <1>1 DEF Ready
    <3> QED
      BY <2>1, <3>1 DEF InOrder
  <2>3. \A v, w \in t.active : v.key = w.key => v = w
    BY <1>1, <1>3, <1>4 DEF InOrder
  <2> QED
    BY <1>1, <2>2, <2>3 DEF InOrder
<1>6. WaitsOnce(t)
  <2>1. \A j, k \in Pending(t) :
          j # k => t.entry[j].waiters \cap t.entry[k].waiters = {}
    BY <1>1 DEF WaitsOnce
  <2>2. \A k \in Pending(t), w \in t.active :
          t.entry[k].waiters \cap w.waiters = {}
    BY <1>1, <1>3, <1>4 DEF WaitsOnce
  <2>3. \A v, w \in t.active : v # w => v.waiters \cap w.waiters = {}
    BY <1>1, <1>3, <1>4 DEF WaitsOnce
  <2> QED
    BY <2>1, <2>2, <2>3 DEF WaitsOnce
<1>7. Waiters(t) = Waiters(s)
  <2>1. \A v : v \in Waiters(t) <=>
          \/ \E k \in Pending(t) : v \in t.entry[k].waiters
          \/ \E w \in t.active : v \in w.waiters
    BY DEF Waiters
  <2>2. \A v : v \in Waiters(s) <=>
          \/ \E k \in Pending(s) : v \in s.entry[k].waiters
          \/ \E w \in s.active : v \in w.waiters
    BY DEF Waiters
  <2>3. \A v : (\E w \in t.active : v \in w.waiters) <=>
          \/ \E w \in s.active : v \in w.waiters
          \/ \E k \in go : v \in s.entry[k].waiters
    BY <1>1, <1>3, <1>4
  <2>4. \A v : (\E k \in Pending(s) : v \in s.entry[k].waiters) <=>
          \/ \E k \in Pending(t) : v \in t.entry[k].waiters
          \/ \E k \in go : v \in s.entry[k].waiters
    BY <1>1, <1>2
  <2> QED
    BY <2>1, <2>2, <2>3, <2>4
<1> QED
  BY <1>5, <1>6, <1>7

(* Draining keeps the invariant, and ends with the writers busy.           *)
LEMMA DrainKeeps ==
  ASSUME NEW s, QueueInv(s)
  PROVE  /\ QueueInv(Drained(s)) /\ Busy(Drained(s))
         /\ Moved(Drained(s), s) /\ Waiters(Drained(s)) = Waiters(s)
<1> DEFINE t == Drained(s)
           go == Starting(s)
<1>1. Moved(t, s) /\ Pending(t) = Pending(s) \ go
  BY DrainMoves DEF QueueInv
<1>2. InOrder(t) /\ WaitsOnce(t) /\ Waiters(t) = Waiters(s)
  BY <1>1, MovedKeeps DEF QueueInv, WellFormed
<1>3. /\ go \subseteq Startable(s)
      /\ Cardinality(go) + Cardinality(s.active) <= Concurrency
      /\ Cardinality(go) + Cardinality(s.active) < Concurrency
           => go = Startable(s)
  BY StartingFits DEF QueueInv
<1>4. /\ IsFiniteSet(s.active) /\ Cardinality(Pending(s)) <= MaxPending
      /\ s \in Queue
  BY DEF QueueInv, WellFormed
<1> HIDE DEF t, go
<1>5. IsFiniteSet(go) /\ Pending(s) \ Pending(t) = go /\ go \subseteq Pending(s)
  <2>1. go \subseteq Pending(s) /\ IsFiniteSet(Startable(s))
    BY <1>3, KeysFinite
  <2> QED
    BY <1>1, <1>3, <2>1, FS_Subset
<1> DEFINE new == {WriteOf(s, k) : k \in go}
<1>6. /\ IsFiniteSet(new) /\ Cardinality(new) = Cardinality(go)
  <2> DEFINE f == [k \in go |-> WriteOf(s, k)]
  <2>1. f \in [go -> new] /\ \A w \in new : \E k \in go : f[k] = w
    OBVIOUS
  <2>2. \A j, k \in go : f[j] = f[k] => j = k
    <3>1. \A k \in go : f[k].key = k
      BY DEF WriteOf
    <3> QED
      BY <3>1
  <2>3. f \in Surjection(go, new)
    BY <2>1 DEF Surjection
  <2>4. f \in Injection(go, new)
    BY <2>1, <2>2 DEF Injection, IsInjective
  <2> HIDE DEF f, new
  <2> QED
    BY <1>5, <2>3, <2>4, FS_Surjection
<1>7. s.active \cap new = {}
  <2>1. \A k \in go : k \notin ActiveKeys(s) /\ WriteOf(s, k).key = k
    BY <1>1, <1>5 DEF Moved, WriteOf
  <2> QED
    BY <2>1 DEF ActiveKeys
<1>8. t.active = s.active \cup new
  BY <1>1, <1>5 DEF Moved
<1> HIDE DEF new
<1>9. /\ IsFiniteSet(t.active)
      /\ Cardinality(t.active) = Cardinality(s.active) + Cardinality(go)
  <2>1. Cardinality(s.active \cap new) = 0
    BY <1>7, FS_EmptySet
  <2>2. Cardinality(s.active) \in Nat /\ Cardinality(go) \in Nat
    BY <1>4, <1>5, FS_CardinalityType
  <2>3. /\ IsFiniteSet(s.active \cup new)
        /\ Cardinality(s.active \cup new) =
              Cardinality(s.active) + Cardinality(new)
                - Cardinality(s.active \cap new)
    BY <1>4, <1>6, FS_Union
  <2> QED
    BY <1>6, <1>8, <2>1, <2>2, <2>3
<1>10. Cardinality(s.active) \in Nat /\ Cardinality(go) \in Nat
       /\ Concurrency \in Nat
  BY <1>4, <1>5, FS_CardinalityType, WatchTimeAssumption
<1>11. Cardinality(Pending(t)) <= MaxPending
  <2>1. IsFiniteSet(Pending(s)) /\ Pending(t) \in SUBSET Pending(s)
    BY <1>1, KeysFinite
  <2>2. Cardinality(Pending(t)) <= Cardinality(Pending(s))
    BY <2>1, FS_Subset
  <2>3. /\ Cardinality(Pending(t)) \in Nat /\ Cardinality(Pending(s)) \in Nat
        /\ MaxPending \in Nat
    BY <2>1, FS_Subset, FS_CardinalityType, WatchTimeAssumption
  <2> QED
    BY <1>4, <2>2, <2>3
<1>12. WellFormed(t)
  BY <1>1, <1>3, <1>9, <1>10, <1>11 DEF WellFormed, Moved
<1>13. Busy(t)
  <2> SUFFICES ASSUME Cardinality(t.active) < Concurrency,
                      NEW k \in Startable(t)
               PROVE  FALSE
    BY DEF Busy
  <2>1. go = Startable(s)
    BY <1>3, <1>9, <1>10
  <2>2. k \in Ready(t) /\ k \in Pending(t) /\ k \notin ActiveKeys(t)
    BY KeysFinite DEF Startable
  <2>3. k \in Pending(s) /\ t.entry[k] = s.entry[k] /\ k \notin go
    BY <1>1, <2>2 DEF Moved
  <2>4. k \in Ready(s)
    BY <2>2, <2>3 DEF Ready
  <2>5. k \notin ActiveKeys(s)
    BY <1>8, <2>2 DEF ActiveKeys
  <2> QED
    BY <2>1, <2>3, <2>4, <2>5 DEF Startable
<1> QED
  BY <1>1, <1>2, <1>12, <1>13 DEF QueueInv, t

-----------------------------------------------------------------------------
(* One entry is replaced or made: it waits for its timer or in the ready   *)
(* array, in a place and with a turn of its own, and keeps its waiters.    *)
Admits(s, k, e) ==
  /\ k \in Keys /\ e \in Entry /\ e.timer # e.ready
  /\ \A j \in Pending(s) \ {k} : s.entry[j].place # e.place
  /\ e.ready => \A j \in Ready(s) \ {k} : s.entry[j].turn # e.turn
  /\ k \in Pending(s) => s.entry[k].waiters \subseteq e.waiters
  /\ \A v \in e.waiters :
       \/ k \in Pending(s) /\ v \in s.entry[k].waiters
       \/ v \notin Waiters(s)
  /\ k \notin Pending(s) => Cardinality(Pending(s)) < MaxPending

(* What a queue with one entry replaced holds.                             *)
LEMMA WithEntry ==
  ASSUME NEW s \in Queue, NEW k \in Keys, NEW e \in Entry,
         NEW t, With(t, s, k, e)
  PROVE  /\ t \in Queue /\ t.active = s.active /\ t.entry[k] = e
         /\ Pending(t) = Pending(s) \cup {k}
         /\ \A j \in Pending(s) \ {k} : t.entry[j] = s.entry[j]
         /\ Ready(t) = (Ready(s) \ {k}) \cup (IF e.ready THEN {k} ELSE {})
<1>1. /\ t \in Queue /\ t.active = s.active
      /\ t.entry = [s.entry EXCEPT ![k] = e]
      /\ s.entry \in [Keys -> Entry \cup {None}]
  BY DEF With, Queue
<1>2. e # None
  BY NoneAssumption
<1>3. t.entry[k] = e /\ \A j \in Keys \ {k} : t.entry[j] = s.entry[j]
  BY <1>1
<1>4. Pending(t) = Pending(s) \cup {k}
  BY <1>2, <1>3 DEF Pending
<1>5. \A j : j \in Ready(t) <=> IF j = k THEN e.ready ELSE j \in Ready(s)
  BY <1>3, <1>4 DEF Ready, Pending
<1>6. Ready(t) = (Ready(s) \ {k}) \cup (IF e.ready THEN {k} ELSE {})
  BY <1>5
<1> QED
  BY <1>1, <1>3, <1>4, <1>6 DEF Pending

(* An entry that is admitted keeps the invariant.                          *)
LEMMA AdmittedKeeps ==
  ASSUME NEW s, QueueInv(s), NEW k, NEW e, Admits(s, k, e),
         NEW t, With(t, s, k, e)
  PROVE  /\ QueueInv(t) /\ Pending(t) = Pending(s) \cup {k}
         /\ Waiters(t) = Waiters(s) \cup e.waiters
<1>1. s \in Queue /\ k \in Keys /\ e \in Entry
  BY DEF QueueInv, WellFormed, Admits
<1>2. /\ t \in Queue /\ t.active = s.active /\ t.entry[k] = e
      /\ Pending(t) = Pending(s) \cup {k}
      /\ \A j \in Pending(s) \ {k} : t.entry[j] = s.entry[j]
      /\ Ready(t) = (Ready(s) \ {k}) \cup (IF e.ready THEN {k} ELSE {})
  BY <1>1, WithEntry
<1>3. \A j \in Ready(s) : j \in Pending(s)
  BY KeysFinite
<1>4. Cardinality(Pending(t)) <= MaxPending
  <2>1. CASE k \in Pending(s)
    <3>1. Pending(t) = Pending(s)
      BY <1>2, <2>1
    <3> QED
      BY <3>1 DEF QueueInv, WellFormed
  <2>2. CASE k \notin Pending(s)
    <3>1. IsFiniteSet(Pending(s)) /\ Cardinality(Pending(s)) \in Nat
      BY KeysFinite, FS_CardinalityType
    <3>2. Cardinality(Pending(t)) = Cardinality(Pending(s)) + 1
      BY <1>2, <2>2, <3>1, FS_AddElement
    <3>3. Cardinality(Pending(s)) < MaxPending /\ MaxPending \in Nat
      BY <2>2, WatchTimeAssumption DEF Admits
    <3> QED
      BY <3>1, <3>2, <3>3
  <2> QED
    BY <2>1, <2>2
<1>5. WellFormed(t)
  BY <1>2, <1>4 DEF QueueInv, WellFormed
<1>6. InOrder(t)
  <2>1. \A j \in Pending(t) : t.entry[j].timer # t.entry[j].ready
    BY <1>2 DEF QueueInv, InOrder, Admits
  <2>2. \A i, j \in Pending(t) : i # j => t.entry[i].place # t.entry[j].place
    BY <1>2 DEF QueueInv, InOrder, Admits
  <2>3. \A i, j \in Ready(t) : i # j => t.entry[i].turn # t.entry[j].turn
    <3> SUFFICES ASSUME NEW i \in Ready(t), NEW j \in Ready(t), i # j
                 PROVE  t.entry[i].turn # t.entry[j].turn
      OBVIOUS
    <3>1. CASE i = k
      <4>1. e.ready /\ j \in Ready(s) \ {k}
        BY <1>2, <3>1
      <4> QED
        BY <1>2, <1>3, <3>1, <4>1 DEF Admits
    <3>2. CASE j = k
      <4>1. e.ready /\ i \in Ready(s) \ {k}
        BY <1>2, <3>2
      <4> QED
        BY <1>2, <1>3, <3>2, <4>1 DEF Admits
    <3>3. CASE i # k /\ j # k
      <4>1. i \in Ready(s) /\ j \in Ready(s)
        BY <1>2, <3>3
      <4> QED
        BY <1>2, <1>3, <3>3, <4>1 DEF QueueInv, InOrder
    <3> QED
      BY <3>1, <3>2, <3>3
  <2> QED
    BY <1>2, <2>1, <2>2, <2>3 DEF QueueInv, InOrder
<1>7. \A v : v \in Waiters(s) <=>
        \/ \E j \in Pending(s) : v \in s.entry[j].waiters
        \/ \E w \in s.active : v \in w.waiters
  BY DEF Waiters
<1>8. /\ \A j \in Pending(s) \ {k} : s.entry[j].waiters \cap e.waiters = {}
      /\ \A w \in s.active : w.waiters \cap e.waiters = {}
  <2>1. \A j \in Pending(s) \ {k} : k \in Pending(s) =>
           s.entry[j].waiters \cap s.entry[k].waiters = {}
    BY DEF QueueInv, WaitsOnce
  <2>2. \A w \in s.active : k \in Pending(s) =>
           s.entry[k].waiters \cap w.waiters = {}
    BY DEF QueueInv, WaitsOnce
  <2> QED
    BY <1>7, <2>1, <2>2 DEF Admits
<1>9. WaitsOnce(t)
  <2>1. \A i, j \in Pending(t) :
          i # j => t.entry[i].waiters \cap t.entry[j].waiters = {}
    BY <1>2, <1>8 DEF QueueInv, WaitsOnce
  <2>2. \A j \in Pending(t), w \in t.active :
          t.entry[j].waiters \cap w.waiters = {}
    BY <1>2, <1>8 DEF QueueInv, WaitsOnce
  <2> QED
    BY <1>2, <2>1, <2>2 DEF QueueInv, WaitsOnce
<1>10. Waiters(t) = Waiters(s) \cup e.waiters
  <2>1. \A v : v \in Waiters(t) <=>
          \/ \E j \in Pending(t) : v \in t.entry[j].waiters
          \/ \E w \in t.active : v \in w.waiters
    BY DEF Waiters
  <2>2. k \in Pending(s) => s.entry[k].waiters \subseteq e.waiters
    BY DEF Admits
  <2> QED
    BY <1>2, <1>7, <2>1, <2>2
<1> QED
  BY <1>2, <1>5, <1>6, <1>9, <1>10 DEF QueueInv

(* An entry that becomes ready is replaced by itself, ready, and all       *)
(* starts that can.                                                        *)
LEMMA EnqueuedIs ==
  ASSUME NEW s \in Queue, NEW k \in Pending(s), NEW fresh \in BOOLEAN
  PROVE  \E u, e :
           /\ Enqueued(s, k, fresh) = Drained(u) /\ With(u, s, k, e)
           /\ e \in Entry /\ ~e.timer /\ e.ready
           /\ e.ver = s.entry[k].ver /\ e.place = s.entry[k].place
           /\ e.waiters = s.entry[k].waiters
           /\ \/ e.turn = NextTurn(s)
              \/ s.entry[k].ready /\ e.turn = s.entry[k].turn
<1> DEFINE o == s.entry[k]
           turn == IF fresh \/ ~o.ready THEN NextTurn(s) ELSE o.turn
           e == [o EXCEPT !.timer = FALSE, !.ready = TRUE, !.turn = turn]
           u == [s EXCEPT !.entry[k] = e]
<1>1. o \in Entry /\ o # None /\ k \in Keys
  BY EntryTyped DEF Pending
<1>2. turn \in Nat
  BY NextNumbers, EntryTyped
<1>3. Enqueued(s, k, fresh) = Drained(u)
  BY <1>1 DEF Enqueued
<1> HIDE DEF turn, o
<1>5. /\ e \in Entry /\ ~e.timer /\ e.ready /\ e.ver = o.ver
      /\ e.place = o.place /\ e.waiters = o.waiters /\ e.turn = turn
  BY <1>1, <1>2 DEF Entry
<1> HIDE DEF e
<1>6. With(u, s, k, e)
  <2>1. /\ s.entry \in [Keys -> Entry \cup {None}]
        /\ s.active \in SUBSET [key : Keys, ver : Versions,
                                waiters : SUBSET Versions]
        /\ s = [entry |-> s.entry, active |-> s.active]
    BY DEF Queue
  <2>2. u = [entry |-> [s.entry EXCEPT ![k] = e], active |-> s.active]
    BY <2>1
  <2>3. [s.entry EXCEPT ![k] = e] \in [Keys -> Entry \cup {None}]
    BY <1>5, <2>1
  <2> HIDE DEF u
  <2> QED
    BY <2>1, <2>2, <2>3 DEF With, Queue
<1>7. turn = NextTurn(s) \/ (o.ready /\ turn = o.turn)
  BY DEF turn
<1> HIDE DEF u
<1> QED
  BY <1>3, <1>5, <1>6, <1>7 DEF o

(* r with the entry o for k, which need not wait for anything yet.         *)
Draft(s, r, k, o) ==
  /\ With(s, r, k, o) /\ k \in Keys /\ o \in Entry
  /\ \A j \in Pending(r) \ {k} : r.entry[j].place # o.place
  /\ o.ready => k \in Pending(r) /\ r.entry[k].ready
                /\ o.turn = r.entry[k].turn
  /\ k \in Pending(r) => r.entry[k].waiters \subseteq o.waiters
  /\ \A v \in o.waiters :
       \/ k \in Pending(r) /\ v \in r.entry[k].waiters
       \/ v \notin Waiters(r)
  /\ k \notin Pending(r) => Cardinality(Pending(r)) < MaxPending

(* t is r after o has become the entry of k and what can start has.        *)
Entered(t, r, k, o) ==
  /\ QueueInv(t) /\ Busy(t)
  /\ Waiters(t) = Waiters(r) \cup o.waiters
  /\ \E u : Moved(t, u) /\ \E e :
       /\ With(u, r, k, e) /\ e \in Entry
       /\ e.ver = o.ver /\ e.waiters = o.waiters

(* So does one that enters the ready array.                                *)
LEMMA EnqueuedKeeps ==
  ASSUME NEW r, QueueInv(r), NEW k, NEW o, NEW s, Draft(s, r, k, o),
         NEW fresh \in BOOLEAN
  PROVE  Entered(Enqueued(s, k, fresh), r, k, o)
<1>1. r \in Queue /\ k \in Keys /\ o \in Entry /\ With(s, r, k, o)
  BY DEF QueueInv, WellFormed, Draft
<1>2. /\ s \in Queue /\ s.active = r.active /\ s.entry[k] = o
      /\ Pending(s) = Pending(r) \cup {k}
      /\ Ready(s) = (Ready(r) \ {k}) \cup (IF o.ready THEN {k} ELSE {})
      /\ \A j \in Pending(r) \ {k} : s.entry[j] = r.entry[j]
  BY <1>1, WithEntry
<1>3. PICK u, e :
           /\ Enqueued(s, k, fresh) = Drained(u) /\ With(u, s, k, e)
           /\ e \in Entry /\ ~e.timer /\ e.ready
           /\ e.ver = o.ver /\ e.place = o.place /\ e.waiters = o.waiters
           /\ e.turn = NextTurn(s) \/ (o.ready /\ e.turn = o.turn)
  BY <1>2, EnqueuedIs
<1>4. With(u, r, k, e)
  <2>1. /\ u \in Queue /\ u.active = s.active
        /\ u.entry = [s.entry EXCEPT ![k] = e]
        /\ s.entry = [r.entry EXCEPT ![k] = o]
        /\ r.entry \in [Keys -> Entry \cup {None}]
    BY <1>1, <1>3 DEF With, Queue
  <2>2. u.entry = [r.entry EXCEPT ![k] = e]
    BY <1>1, <2>1
  <2> QED
    BY <1>2, <2>1, <2>2 DEF With
<1>5. ASSUME NEW j \in Ready(r) \ {k}
      PROVE  r.entry[j].turn # e.turn
  <2>1. j \in Ready(s) /\ j \in Pending(r) /\ s.entry[j] = r.entry[j]
    BY <1>2, KeysFinite
  <2>2. CASE e.turn = NextTurn(s)
    <3>1. s.entry[j].turn < NextTurn(s) /\ NextTurn(s) \in Nat
          /\ r.entry[j].turn \in Nat
      BY <1>1, <1>2, <2>1, NextNumbers, EntryTyped
    <3> QED
      BY <2>1, <2>2, <3>1
  <2>3. CASE o.ready /\ e.turn = o.turn
    <3>1. k \in Ready(r) /\ e.turn = r.entry[k].turn
      BY <2>3 DEF Draft, Ready
    <3> QED
      BY <3>1 DEF QueueInv, InOrder
  <2> QED
    BY <1>3, <2>2, <2>3
<1>6. Admits(r, k, e)
  BY <1>1, <1>3, <1>5 DEF Admits, Draft
<1>7. QueueInv(u) /\ Waiters(u) = Waiters(r) \cup o.waiters
  BY <1>3, <1>4, <1>6, AdmittedKeeps
<1> QED
  BY <1>3, <1>4, <1>7, DrainKeeps DEF Entered

(* An entry is taken out that nobody waits for.                            *)
LEMMA RemovedKeeps ==
  ASSUME NEW s, QueueInv(s), Busy(s), NEW k \in Evictable(s)
  PROVE  LET t == Removed(s, k)
         IN  /\ QueueInv(t) /\ Busy(t) /\ Waiters(t) = Waiters(s)
             /\ t.active = s.active /\ Pending(t) = Pending(s) \ {k}
             /\ \A j \in Pending(t) : t.entry[j] = s.entry[j]
<1> DEFINE t == Removed(s, k)
<1>1. /\ s.entry \in [Keys -> Entry \cup {None}]
      /\ s.active \in SUBSET [key : Keys, ver : Versions,
                              waiters : SUBSET Versions]
      /\ s = [entry |-> s.entry, active |-> s.active]
  BY DEF Queue, QueueInv, WellFormed
<1>2. t = [entry |-> [s.entry EXCEPT ![k] = None], active |-> s.active]
  BY <1>1 DEF Removed
<1>3. /\ k \in Pending(s) /\ k \in Keys /\ s.entry[k].waiters = {}
  BY DEF Evictable, Pending
<1>4. t \in Queue /\ t.active = s.active
  <2>1. [s.entry EXCEPT ![k] = None] \in [Keys -> Entry \cup {None}]
    BY <1>1
  <2> HIDE DEF t
  <2> QED
    BY <1>1, <1>2, <2>1 DEF Queue
<1>5. \A j \in Keys : t.entry[j] = IF j = k THEN None ELSE s.entry[j]
  BY <1>1, <1>2
<1> HIDE DEF t
<1>6. Pending(t) = Pending(s) \ {k}
      /\ \A j \in Pending(t) : t.entry[j] = s.entry[j]
  BY <1>5 DEF Pending
<1>7. Ready(t) \subseteq Ready(s) /\ Startable(t) \subseteq Startable(s)
  BY <1>4, <1>6 DEF Ready, Startable, ActiveKeys
<1>8. Cardinality(Pending(t)) <= MaxPending
  <2>1. IsFiniteSet(Pending(s)) /\ Pending(t) \in SUBSET Pending(s)
    BY <1>6, KeysFinite
  <2>2. Cardinality(Pending(t)) <= Cardinality(Pending(s))
    BY <2>1, FS_Subset
  <2>3. /\ Cardinality(Pending(t)) \in Nat /\ Cardinality(Pending(s)) \in Nat
        /\ MaxPending \in Nat
    BY <2>1, FS_Subset, FS_CardinalityType, WatchTimeAssumption
  <2> QED
    BY <2>2, <2>3 DEF QueueInv, WellFormed
<1>9. WellFormed(t) /\ Busy(t)
  BY <1>4, <1>7, <1>8 DEF QueueInv, WellFormed, Busy
<1>10. InOrder(t)
  <2>1. \A j \in Ready(t) : j \in Pending(t)
    BY DEF Ready
  <2> QED
    BY <1>4, <1>6, <1>7, <2>1 DEF QueueInv, InOrder
<1>11. WaitsOnce(t)
  BY <1>4, <1>6 DEF QueueInv, WaitsOnce
<1>12. Waiters(t) = Waiters(s)
  <2>1. \A v : v \in Waiters(t) <=>
          \/ \E j \in Pending(t) : v \in t.entry[j].waiters
          \/ \E w \in t.active : v \in w.waiters
    BY DEF Waiters
  <2>2. \A v : v \in Waiters(s) <=>
          \/ \E j \in Pending(s) : v \in s.entry[j].waiters
          \/ \E w \in s.active : v \in w.waiters
    BY DEF Waiters
  <2> QED
    BY <1>3, <1>4, <1>6, <2>1, <2>2
<1> QED
  BY <1>4, <1>6, <1>9, <1>10, <1>11, <1>12 DEF QueueInv, t

(* The entry chosen for eviction may be evicted.                           *)
LEMMA VictimEvictable ==
  ASSUME NEW s \in Queue, Evictable(s) # {}
  PROVE  Victim(s) \in Evictable(s)
<1> DEFINE S == Evictable(s)
           places == {s.entry[j].place : j \in S}
<1>1. \A j \in S : s.entry[j].place \in Nat
  BY EntryTyped DEF Evictable
<1>2. places \in SUBSET Nat /\ places # {}
  BY <1>1
<1>3. PICK m \in places : \A y \in places : m <= y
  BY <1>2, LeastNumber
<1>4. PICK j \in S : m = s.entry[j].place
  BY <1>3
<1>5. \A i \in S : s.entry[j].place <= s.entry[i].place
  BY <1>3, <1>4
<1> QED
  BY <1>4, <1>5 DEF Victim

(* The queue with room for k.                                              *)
LEMMA RoomKeeps ==
  ASSUME NEW p \in Procs, NEW k \in Keys, QueueInv(q[p]), Busy(q[p]),
         ~Full(q[p], k) \/ Evictable(q[p]) # {}
  PROVE  LET r == Room(p, k)
         IN  /\ QueueInv(r) /\ Busy(r) /\ Waiters(r) = Waiters(q[p])
             /\ r.active = q[p].active /\ Pending(r) \subseteq Pending(q[p])
             /\ \A j \in Pending(r) : r.entry[j] = q[p].entry[j]
             /\ \A j \in Pending(q[p]) \ Pending(r) :
                  j # k /\ Evicted(p, k) = {q[p].entry[j].ver}
             /\ k \notin Pending(r) => Cardinality(Pending(r)) < MaxPending
<1> DEFINE s == q[p]
           r == Room(p, k)
<1>1. CASE ~Full(s, k)
  <2>1. r = s
    BY <1>1 DEF Room
  <2>2. k \notin Pending(s) => Cardinality(Pending(s)) < MaxPending
    <3>1. Cardinality(Pending(s)) \in Nat /\ MaxPending \in Nat
      BY KeysFinite, FS_CardinalityType, WatchTimeAssumption
    <3> QED
      BY <1>1, <3>1 DEF Full, Pending
  <2> QED
    BY <2>1, <2>2
<1>2. CASE Full(s, k)
  <2> DEFINE x == Victim(s)
  <2>1. x \in Evictable(s)
    BY <1>2, VictimEvictable DEF QueueInv, WellFormed
  <2>2. r = Removed(s, x) /\ Evicted(p, k) = {s.entry[x].ver}
    BY <1>2 DEF Room, Evicted
  <2>3. k \notin Pending(s) /\ x \in Pending(s)
    BY <1>2, <2>1 DEF Full, Pending, Evictable
  <2> HIDE DEF x
  <2>4. /\ QueueInv(r) /\ Busy(r) /\ Waiters(r) = Waiters(s)
        /\ r.active = s.active /\ Pending(r) = Pending(s) \ {x}
        /\ \A j \in Pending(r) : r.entry[j] = s.entry[j]
    BY <2>1, <2>2, RemovedKeeps
  <2>5. Cardinality(Pending(r)) < MaxPending
    <3>1. IsFiniteSet(Pending(s)) /\ Cardinality(Pending(s)) \in Nat
      BY KeysFinite, FS_CardinalityType
    <3>2. Cardinality(Pending(r)) = Cardinality(Pending(s)) - 1
      BY <2>3, <2>4, <3>1, FS_RemoveElement
    <3>3. Cardinality(Pending(s)) <= MaxPending /\ MaxPending \in Nat
      BY WatchTimeAssumption DEF QueueInv, WellFormed
    <3> QED
      BY <3>1, <3>2, <3>3
  <2> QED
    BY <2>2, <2>3, <2>4, <2>5
<1> QED
  BY <1>1, <1>2

(* A new entry, or the one there is with the new position.                 *)
LEMMA CoalescedIs ==
  ASSUME NEW r \in Queue, NEW k \in Keys, NEW v \in Versions,
         NEW now \in BOOLEAN
  PROVE  LET s == Coalesced(r, k, v, now)
             e == s.entry[k]
         IN  /\ With(s, r, k, e) /\ e \in Entry /\ e.ver = v
             /\ \A j \in Pending(r) \ {k} : r.entry[j].place < e.place
             /\ k \in Pending(r) =>
                  /\ e.waiters = r.entry[k].waiters
                  /\ e.ready = r.entry[k].ready /\ e.timer = r.entry[k].timer
                  /\ e.turn = r.entry[k].turn
             /\ k \notin Pending(r) =>
                  e.waiters = {} /\ ~e.ready /\ ~e.timer
<1> DEFINE s == Coalesced(r, k, v, now)
           at == NextPlace(Removed(r, k))
           base == IF r.entry[k] # None THEN [r.entry[k] EXCEPT !.ver = v]
                   ELSE [ver |-> v, priority |-> IF now THEN 0 ELSE 1,
                         place |-> 0, turn |-> 0, ready |-> FALSE,
                         timer |-> FALSE, waiters |-> {}]
           e == [base EXCEPT !.place = at]
<1>1. /\ r.entry \in [Keys -> Entry \cup {None}]
      /\ r.active \in SUBSET [key : Keys, ver : Versions,
                              waiters : SUBSET Versions]
      /\ r = [entry |-> r.entry, active |-> r.active]
  BY DEF Queue
<1>2. s = [entry |-> [r.entry EXCEPT ![k] = e], active |-> r.active]
  <2>1. s = [r EXCEPT !.entry[k] = e]
    BY DEF Coalesced
  <2> HIDE DEF e, s
  <2> QED
    BY <1>1, <2>1
<1>3. at \in Nat /\ \A j \in Pending(r) \ {k} : r.entry[j].place < at
  <2> DEFINE t == Removed(r, k)
  <2>1. t = [entry |-> [r.entry EXCEPT ![k] = None], active |-> r.active]
    BY <1>1 DEF Removed
  <2>2. [r.entry EXCEPT ![k] = None] \in [Keys -> Entry \cup {None}]
    BY <1>1
  <2>3. \A j \in Pending(r) \ {k} : t.entry[j] = r.entry[j]
                                   /\ t.entry[j] # None /\ j \in Keys
    BY <1>1, <2>1 DEF Pending
  <2> HIDE DEF t
  <2>4. t \in Queue
    BY <1>1, <2>1, <2>2 DEF Queue
  <2>5. \A j \in Pending(r) \ {k} : j \in Pending(t)
    BY <2>3 DEF Pending
  <2>6. /\ NextPlace(t) \in Nat
        /\ \A j \in Pending(t) : t.entry[j].place < NextPlace(t)
    BY <2>4, NextNumbers
  <2> QED
    BY <2>3, <2>5, <2>6 DEF t
<1> HIDE DEF at, s
<1>4. CASE r.entry[k] # None
  <2> DEFINE o == r.entry[k]
  <2>1. o \in Entry /\ k \in Pending(r)
    BY <1>1, <1>4 DEF Pending
  <2>2. base = [o EXCEPT !.ver = v]
    BY <1>4
  <2> HIDE DEF o, base
  <2>3. /\ base \in Entry /\ base.ver = v /\ base.waiters = o.waiters
        /\ base.ready = o.ready /\ base.timer = o.timer /\ base.turn = o.turn
    BY <2>1, <2>2 DEF Entry
  <2>4. /\ e \in Entry /\ e.ver = base.ver /\ e.waiters = base.waiters
        /\ e.ready = base.ready /\ e.timer = base.timer /\ e.turn = base.turn
        /\ e.place = at
    BY <1>3, <2>3 DEF Entry
  <2> HIDE DEF e
  <2>5. s.entry[k] = e /\ With(s, r, k, e)
    <3>1. [r.entry EXCEPT ![k] = e] \in [Keys -> Entry \cup {None}]
      BY <1>1, <2>4
    <3> QED
      BY <1>1, <1>2, <3>1 DEF With, Queue
  <2> QED
    BY <1>3, <2>1, <2>3, <2>4, <2>5 DEF s, o
<1>5. CASE r.entry[k] = None
  <2>1. k \notin Pending(r)
    BY <1>5 DEF Pending
  <2>2. base = [ver |-> v, priority |-> IF now THEN 0 ELSE 1, place |-> 0,
                turn |-> 0, ready |-> FALSE, timer |-> FALSE, waiters |-> {}]
    BY <1>5
  <2> HIDE DEF base
  <2>3. /\ base \in Entry /\ base.ver = v /\ base.waiters = {}
        /\ ~base.ready /\ ~base.timer
    BY <2>2 DEF Entry
  <2>4. /\ e \in Entry /\ e.ver = base.ver /\ e.waiters = base.waiters
        /\ e.ready = base.ready /\ e.timer = base.timer /\ e.place = at
    BY <1>3, <2>3 DEF Entry
  <2> HIDE DEF e
  <2>5. s.entry[k] = e /\ With(s, r, k, e)
    <3>1. [r.entry EXCEPT ![k] = e] \in [Keys -> Entry \cup {None}]
      BY <1>1, <2>4
    <3> QED
      BY <1>1, <1>2, <3>1 DEF With, Queue
  <2> QED
    BY <1>3, <2>1, <2>3, <2>4, <2>5 DEF s
<1> QED
  BY <1>4, <1>5

-----------------------------------------------------------------------------
(* The handlers.  u is s with the update v of k, without what had to go.   *)
Updated(u, s, k, v, gone, more) ==
  /\ u \in Queue /\ u.active = s.active
  /\ k \in Pending(u) /\ k \notin gone
  /\ Pending(u) = (Pending(s) \ gone) \cup {k}
  /\ \A j \in Pending(u) \ {k} : u.entry[j] = s.entry[j]
  /\ u.entry[k].ver = v
  /\ \A x \in u.entry[k].waiters :
       x \in more \/ (k \in Pending(s) /\ x \in s.entry[k].waiters)

Took(p, k, more) ==
  /\ QueueInv(q'[p]) /\ Busy(q'[p])
  /\ Waiters(q'[p]) = Waiters(q[p]) \cup more
  /\ \E u, gone :
       /\ Updated(u, q[p], k, version + 1, gone, more) /\ Moved(q'[p], u)
       /\ \A j \in gone : j \in Pending(q[p])
                         /\ q[p].entry[j].ver \in Evicted(p, k)

(* An update that is entered and drained was taken by the queue.           *)
LEMMA TookBy ==
  ASSUME NEW p \in Procs, NEW k \in Keys, QueueInv(q[p]), Busy(q[p]),
         ~Full(q[p], k) \/ Evictable(q[p]) # {},
         NEW u, NEW e, With(u, Room(p, k), k, e), e \in Entry,
         e.ver = version + 1, NEW more,
         \A x \in e.waiters : \/ x \in more
                             \/ /\ k \in Pending(Room(p, k))
                                /\ x \in Room(p, k).entry[k].waiters,
         Moved(q'[p], u), QueueInv(q'[p]), Busy(q'[p]),
         Waiters(q'[p]) = Waiters(q[p]) \cup more
  PROVE  Took(p, k, more)
<1> DEFINE r == Room(p, k)
           s == q[p]
           gone == Pending(s) \ Pending(r)
<1>1. /\ QueueInv(r) /\ r.active = s.active /\ Pending(r) \subseteq Pending(s)
      /\ \A j \in Pending(r) : r.entry[j] = s.entry[j]
      /\ \A j \in gone : j # k /\ Evicted(p, k) = {s.entry[j].ver}
  BY RoomKeeps
<1>2. r \in Queue /\ With(u, r, k, e)
  BY <1>1 DEF QueueInv, WellFormed
<1> HIDE DEF r
<1>3. /\ u \in Queue /\ u.active = r.active /\ u.entry[k] = e
      /\ Pending(u) = Pending(r) \cup {k}
      /\ \A j \in Pending(r) \ {k} : u.entry[j] = r.entry[j]
  BY <1>2, WithEntry
<1>4. Updated(u, s, k, version + 1, gone, more)
  <2>1. Pending(u) = (Pending(s) \ gone) \cup {k} /\ k \notin gone
    BY <1>1, <1>3
  <2>2. \A j \in Pending(u) \ {k} : u.entry[j] = s.entry[j]
    BY <1>1, <1>3
  <2>3. \A x \in u.entry[k].waiters :
          x \in more \/ (k \in Pending(s) /\ x \in s.entry[k].waiters)
    BY <1>1, <1>3 DEF r
  <2> QED
    BY <1>1, <1>3, <2>1, <2>2, <2>3 DEF Updated
<1>5. \A j \in gone : j \in Pending(s) /\ s.entry[j].ver \in Evicted(p, k)
  BY <1>1
<1> QED
  BY <1>4, <1>5 DEF Took

(* A progress update is taken.                                             *)
LEMMA ProgressTakes ==
  ASSUME NEW p \in Procs, NEW k \in Keys, QueueInv(q[p]), Busy(q[p]),
         q \in [Procs -> Queue], version + 1 \in Versions, Progress(p, k)
  PROVE  Took(p, k, {})
<1> DEFINE r == Room(p, k)
           s == Coalesced(r, k, version + 1, FALSE)
           o == s.entry[k]
<1>1. /\ QueueInv(r) /\ Busy(r) /\ Waiters(r) = Waiters(q[p])
      /\ k \notin Pending(r) => Cardinality(Pending(r)) < MaxPending
  BY RoomKeeps DEF Progress, Accept
<1>2. ~Full(q[p], k) \/ Evictable(q[p]) # {}
  BY DEF Progress, Accept
<1>3. r \in Queue
  BY <1>1 DEF QueueInv, WellFormed
<1>4. /\ With(s, r, k, o) /\ o \in Entry /\ o.ver = version + 1
      /\ \A j \in Pending(r) \ {k} : r.entry[j].place < o.place
      /\ k \in Pending(r) =>
           /\ o.waiters = r.entry[k].waiters
           /\ o.ready = r.entry[k].ready /\ o.timer = r.entry[k].timer
           /\ o.turn = r.entry[k].turn
      /\ k \notin Pending(r) => o.waiters = {} /\ ~o.ready /\ ~o.timer
  BY <1>3, CoalescedIs
<1>5. q'[p] = IF o.ready THEN Enqueued(s, k, TRUE)
              ELSE [s EXCEPT !.entry[k].timer = TRUE]
  BY DEF Progress
<1> HIDE DEF r, s, o
<1>6. \A j \in Pending(r) \ {k} : r.entry[j].place # o.place
  <2>1. \A j \in Pending(r) : r.entry[j].place \in Nat
    BY <1>3, EntryTyped
  <2>2. o.place \in Nat
    BY <1>4 DEF Entry
  <2> QED
    BY <1>4, <2>1, <2>2
<1>7. \A x \in o.waiters : k \in Pending(r) /\ x \in r.entry[k].waiters
  BY <1>4
<1>8. \A x \in o.waiters : x \in Waiters(r)
  BY <1>7 DEF Waiters
<1>9. CASE o.ready
  <2>1. Draft(s, r, k, o)
    BY <1>1, <1>4, <1>6, <1>7, <1>9 DEF Draft
  <2>2. q'[p] = Enqueued(s, k, TRUE)
    BY <1>5, <1>9
  <2>3. /\ QueueInv(q'[p]) /\ Busy(q'[p])
        /\ Waiters(q'[p]) = Waiters(r) \cup o.waiters
        /\ \E u : Moved(q'[p], u) /\ \E e :
             /\ With(u, r, k, e) /\ e \in Entry
             /\ e.ver = o.ver /\ e.waiters = o.waiters
    <3>1. Entered(Enqueued(s, k, TRUE), r, k, o)
      BY <1>1, <2>1, EnqueuedKeeps
    <3> QED
      BY <2>2, <3>1 DEF Entered
  <2>4. PICK u, e : /\ Moved(q'[p], u) /\ With(u, r, k, e) /\ e \in Entry
                    /\ e.ver = o.ver /\ e.waiters = o.waiters
    BY <2>3
  <2>5. Waiters(q'[p]) = Waiters(q[p]) \cup {}
    BY <1>1, <1>8, <2>3
  <2> QED
    BY <1>2, <1>4, <1>7, <2>3, <2>4, <2>5, TookBy DEF r
<1>10. CASE ~o.ready
  <2> DEFINE e == [o EXCEPT !.timer = TRUE]
             u == q'[p]
  <2>1. /\ e \in Entry /\ e.timer /\ ~e.ready /\ e.ver = o.ver
        /\ e.waiters = o.waiters /\ e.place = o.place
    BY <1>4, <1>10 DEF Entry
  <2>2. u = [s EXCEPT !.entry[k] = e]
    BY <1>5, <1>10 DEF o
  <2> HIDE DEF e, u
  <2>3. With(u, r, k, e)
    <3>1. /\ s \in Queue /\ s.active = r.active
          /\ s.entry = [r.entry EXCEPT ![k] = o]
      BY <1>4 DEF With
    <3>2. /\ s.entry \in [Keys -> Entry \cup {None}]
          /\ s = [entry |-> s.entry, active |-> s.active]
          /\ r.entry \in [Keys -> Entry \cup {None}]
      BY <1>3, <3>1 DEF Queue
    <3>3. u = [entry |-> [s.entry EXCEPT ![k] = e], active |-> s.active]
      BY <2>2, <3>2
    <3>4. u.entry = [r.entry EXCEPT ![k] = e]
      BY <3>1, <3>2, <3>3
    <3>5. u \in Queue
      <4>1. /\ [s.entry EXCEPT ![k] = e] \in [Keys -> Entry \cup {None}]
            /\ s.active \in SUBSET [key : Keys, ver : Versions,
                                    waiters : SUBSET Versions]
        BY <2>1, <3>1, <3>2 DEF Queue
      <4> QED
        BY <3>3, <4>1 DEF Queue
    <3> QED
      BY <3>1, <3>3, <3>4, <3>5 DEF With
  <2>4. Admits(r, k, e)
    BY <1>1, <1>4, <1>6, <1>7, <2>1 DEF Admits
  <2>5. QueueInv(u) /\ Waiters(u) = Waiters(r) \cup e.waiters
    BY <1>1, <2>3, <2>4, AdmittedKeeps
  <2>6. Ready(u) = Ready(r) \ {k} /\ u.active = r.active /\ u \in Queue
    BY <1>3, <2>1, <2>3, WithEntry
  <2>7. Busy(u)
    BY <1>1, <2>6 DEF Busy, Startable, ActiveKeys
  <2>8. Moved(u, u)
    <3>1. {WriteOf(u, j) : j \in Pending(u) \ Pending(u)} = {}
      OBVIOUS
    <3> QED
      BY <2>6, <3>1 DEF Moved
  <2>9. Waiters(u) = Waiters(q[p]) \cup {}
    BY <1>1, <1>8, <2>1, <2>5
  <2> QED
    BY <1>2, <1>4, <1>7, <2>1, <2>3, <2>5, <2>7, <2>8, <2>9, TookBy DEF r, u
<1> QED
  BY <1>9, <1>10

(* A completion is taken, and its request waits for it.                    *)
LEMMA CompletionTakes ==
  ASSUME NEW p \in Procs, NEW k \in Keys, QueueInv(q[p]), Busy(q[p]),
         q \in [Procs -> Queue], version + 1 \in Versions,
         version + 1 \notin Waiters(q[p]), Completion(p, k)
  PROVE  Took(p, k, {version + 1})
<1> DEFINE r == Room(p, k)
           s0 == Coalesced(r, k, version + 1, TRUE)
           o0 == s0.entry[k]
           o == [o0 EXCEPT !.priority = 0, !.waiters = @ \cup {version + 1}]
           s == [s0 EXCEPT !.entry[k] = o]
<1>1. /\ QueueInv(r) /\ Busy(r) /\ Waiters(r) = Waiters(q[p])
      /\ k \notin Pending(r) => Cardinality(Pending(r)) < MaxPending
  BY RoomKeeps DEF Completion, Accept
<1>2. ~Full(q[p], k) \/ Evictable(q[p]) # {}
  BY DEF Completion, Accept
<1>3. r \in Queue
  BY <1>1 DEF QueueInv, WellFormed
<1>4. /\ With(s0, r, k, o0) /\ o0 \in Entry /\ o0.ver = version + 1
      /\ \A j \in Pending(r) \ {k} : r.entry[j].place < o0.place
      /\ k \in Pending(r) =>
           /\ o0.waiters = r.entry[k].waiters
           /\ o0.ready = r.entry[k].ready /\ o0.timer = r.entry[k].timer
           /\ o0.turn = r.entry[k].turn
      /\ k \notin Pending(r) => o0.waiters = {} /\ ~o0.ready /\ ~o0.timer
  BY <1>3, CoalescedIs
<1>5. q'[p] = Enqueued(s, k, TRUE)
  BY DEF Completion
<1> HIDE DEF r, s0, o0
<1>6. /\ o \in Entry /\ o.ver = o0.ver /\ o.place = o0.place
      /\ o.ready = o0.ready /\ o.turn = o0.turn
      /\ o.waiters = o0.waiters \cup {version + 1}
  BY <1>4 DEF Entry
<1> HIDE DEF o
<1>7. With(s, r, k, o)
  <2>1. /\ s0 \in Queue /\ s0.active = r.active
        /\ s0.entry = [r.entry EXCEPT ![k] = o0]
    BY <1>4 DEF With
  <2>2. /\ s0.entry \in [Keys -> Entry \cup {None}]
        /\ s0 = [entry |-> s0.entry, active |-> s0.active]
        /\ s0.active \in SUBSET [key : Keys, ver : Versions,
                                 waiters : SUBSET Versions]
        /\ r.entry \in [Keys -> Entry \cup {None}]
    BY <1>3, <2>1 DEF Queue
  <2>3. s = [entry |-> [s0.entry EXCEPT ![k] = o], active |-> s0.active]
    BY <2>2
  <2>4. [s0.entry EXCEPT ![k] = o] = [r.entry EXCEPT ![k] = o]
    BY <2>1, <2>2
  <2>5. [s0.entry EXCEPT ![k] = o] \in [Keys -> Entry \cup {None}]
    BY <1>6, <2>2
  <2> HIDE DEF s
  <2>6. s \in Queue
    BY <2>2, <2>3, <2>5 DEF Queue
  <2> QED
    BY <2>1, <2>3, <2>4, <2>6 DEF With
<1> HIDE DEF s
<1>8. \A j \in Pending(r) \ {k} : r.entry[j].place # o.place
  <2>1. \A j \in Pending(r) : r.entry[j].place \in Nat
    BY <1>3, EntryTyped
  <2>2. o0.place \in Nat
    BY <1>4 DEF Entry
  <2> QED
    BY <1>4, <1>6, <2>1, <2>2
<1>9. \A x \in o.waiters :
        x = version + 1 \/ (k \in Pending(r) /\ x \in r.entry[k].waiters)
  BY <1>4, <1>6
<1>10. \A x \in o.waiters \ {version + 1} : x \in Waiters(r)
  BY <1>9 DEF Waiters
<1>11. Draft(s, r, k, o)
  <2>1. version + 1 \notin Waiters(r)
    BY <1>1
  <2>2. k \in Pending(r) => r.entry[k].waiters \subseteq o.waiters
    BY <1>4, <1>6
  <2>3. o.ready => k \in Pending(r) /\ r.entry[k].ready
                  /\ o.turn = r.entry[k].turn
    BY <1>4, <1>6
  <2> QED
    BY <1>1, <1>6, <1>7, <1>8, <1>9, <2>1, <2>2, <2>3 DEF Draft
<1>12. /\ QueueInv(q'[p]) /\ Busy(q'[p])
       /\ Waiters(q'[p]) = Waiters(r) \cup o.waiters
       /\ \E u : Moved(q'[p], u) /\ \E e :
            /\ With(u, r, k, e) /\ e \in Entry
            /\ e.ver = o.ver /\ e.waiters = o.waiters
  <2>1. Entered(Enqueued(s, k, TRUE), r, k, o)
    BY <1>1, <1>11, EnqueuedKeeps
  <2> QED
    BY <1>5, <2>1 DEF Entered
<1>13. PICK u, e : /\ Moved(q'[p], u) /\ With(u, r, k, e) /\ e \in Entry
                   /\ e.ver = o.ver /\ e.waiters = o.waiters
  BY <1>12
<1>14. Waiters(q'[p]) = Waiters(q[p]) \cup {version + 1}
  BY <1>1, <1>6, <1>10, <1>12
<1> QED
  BY <1>2, <1>4, <1>6, <1>9, <1>12, <1>13, <1>14, TookBy DEF r

(* The other handlers change no position and take nobody's place: t is s   *)
(* with other turns.                                                       *)
SameUpdates(t, s) ==
  /\ t \in Queue /\ t.active = s.active /\ Pending(t) = Pending(s)
  /\ \A k \in Pending(s) : /\ t.entry[k].ver = s.entry[k].ver
                           /\ t.entry[k].waiters = s.entry[k].waiters

Continues(t, s) ==
  /\ QueueInv(t) /\ Busy(t) /\ Waiters(t) = Waiters(s)
  /\ \E u : SameUpdates(u, s) /\ Moved(t, u)

(* An entry whose quiet time ends goes on to be written.                   *)
LEMMA FireContinues ==
  ASSUME NEW s, QueueInv(s), NEW k \in Pending(s)
  PROVE  Continues(Enqueued(s, k, FALSE), s)
<1> DEFINE o == s.entry[k]
           t == Enqueued(s, k, FALSE)
<1>1. s \in Queue
  BY DEF QueueInv, WellFormed
<1>2. o \in Entry /\ k \in Keys
  BY <1>1, EntryTyped
<1>3. With(s, s, k, o)
  <2>1. s.entry \in [Keys -> Entry \cup {None}]
    BY <1>1 DEF Queue
  <2>2. s.entry = [s.entry EXCEPT ![k] = o]
    BY <2>1
  <2> QED
    BY <1>1, <2>2 DEF With
<1>4. \A j \in Pending(s) \ {k} : s.entry[j].place # o.place
  BY DEF QueueInv, InOrder
<1>5. Draft(s, s, k, o)
  BY <1>2, <1>3, <1>4 DEF Draft
<1> HIDE DEF o, t
<1>6. Entered(t, s, k, o)
  BY <1>5, EnqueuedKeeps DEF t
<1>7. PICK u, e : /\ Moved(t, u) /\ With(u, s, k, e) /\ e \in Entry
                  /\ e.ver = o.ver /\ e.waiters = o.waiters
  BY <1>6 DEF Entered
<1>8. SameUpdates(u, s)
  <2>1. /\ u \in Queue /\ u.active = s.active /\ u.entry[k] = e
        /\ Pending(u) = Pending(s) \cup {k}
        /\ \A j \in Pending(s) \ {k} : u.entry[j] = s.entry[j]
    BY <1>1, <1>2, <1>7, WithEntry
  <2> QED
    BY <1>7, <2>1 DEF SameUpdates, o
<1>9. Waiters(t) = Waiters(s)
  <2>1. \A v \in o.waiters : v \in Waiters(s)
    BY DEF Waiters, o
  <2> QED
    BY <1>6, <2>1 DEF Entered
<1> QED
  BY <1>6, <1>7, <1>8, <1>9 DEF Continues, Entered, t

(* Without a write that has ended.                                         *)
Without(s, w) == [s EXCEPT !.active = @ \ {w}]

(* A settled write leaves the active ones, and nothing else.               *)
LEMMA WithoutKeeps ==
  ASSUME NEW s, QueueInv(s), NEW w \in s.active
  PROVE  /\ QueueInv(Without(s, w))
         /\ Without(s, w).entry = s.entry
         /\ Without(s, w).active = s.active \ {w}
         /\ Pending(Without(s, w)) = Pending(s)
         /\ Waiters(Without(s, w)) = Waiters(s) \ w.waiters
<1> DEFINE t == Without(s, w)
<1>1. /\ s.entry \in [Keys -> Entry \cup {None}]
      /\ s.active \in SUBSET [key : Keys, ver : Versions,
                              waiters : SUBSET Versions]
      /\ s = [entry |-> s.entry, active |-> s.active]
  BY DEF QueueInv, WellFormed, Queue
<1>2. t = [entry |-> s.entry, active |-> s.active \ {w}]
  <2> DEFINE rest == s.active \ {w}
  <2>1. t = [s EXCEPT !.active = rest]
    BY DEF Without
  <2> HIDE DEF t, rest
  <2>2. t = [entry |-> s.entry, active |-> rest]
    BY <1>1, <2>1
  <2> QED
    BY <2>2 DEF rest
<1> HIDE DEF t
<1>3. t \in Queue /\ t.entry = s.entry /\ t.active = s.active \ {w}
  BY <1>1, <1>2 DEF Queue
<1>4. Pending(t) = Pending(s) /\ Ready(t) = Ready(s)
  BY <1>3 DEF Pending, Ready
<1>5. WellFormed(t)
  <2>1. IsFiniteSet(s.active) /\ Cardinality(s.active) <= Concurrency
    BY DEF QueueInv, WellFormed
  <2>2. /\ IsFiniteSet(t.active)
        /\ Cardinality(t.active) = Cardinality(s.active) - 1
    BY <1>3, <2>1, FS_RemoveElement
  <2>3. Cardinality(s.active) \in Nat /\ Concurrency \in Nat
    BY <2>1, FS_CardinalityType, WatchTimeAssumption
  <2>4. Cardinality(t.active) <= Concurrency
    BY <2>1, <2>2, <2>3
  <2> QED
    BY <1>3, <1>4, <2>2, <2>4 DEF QueueInv, WellFormed
<1>6. InOrder(t)
  BY <1>3, <1>4 DEF QueueInv, InOrder
<1>7. WaitsOnce(t)
  BY <1>3, <1>4 DEF QueueInv, WaitsOnce
<1>8. Waiters(t) = Waiters(s) \ w.waiters
  <2>1. \A v : v \in Waiters(t) <=>
          \/ \E k \in Pending(t) : v \in t.entry[k].waiters
          \/ \E x \in t.active : v \in x.waiters
    BY DEF Waiters
  <2>2. \A v : v \in Waiters(s) <=>
          \/ \E k \in Pending(s) : v \in s.entry[k].waiters
          \/ \E x \in s.active : v \in x.waiters
    BY DEF Waiters
  <2>3. \A v \in w.waiters :
          /\ \A k \in Pending(s) : v \notin s.entry[k].waiters
          /\ \A x \in s.active \ {w} : v \notin x.waiters
    BY DEF QueueInv, WaitsOnce
  <2> QED
    BY <1>3, <1>4, <2>1, <2>2, <2>3
<1> QED
  BY <1>3, <1>4, <1>5, <1>6, <1>7, <1>8 DEF QueueInv, t

(* What follows from it after draining.                                    *)
LEMMA SettledKeeps ==
  ASSUME NEW s, QueueInv(s), NEW w \in s.active
  PROVE  /\ QueueInv(Settled(s, w)) /\ Busy(Settled(s, w))
         /\ Moved(Settled(s, w), Without(s, w))
         /\ Waiters(Settled(s, w)) = Waiters(s) \ w.waiters
<1>1. Settled(s, w) = Drained(Without(s, w))
  BY DEF Settled, Without
<1> QED
  BY <1>1, WithoutKeeps, DrainKeeps

(* Raising gives every entry a turn of its own.                            *)
LEMMA FlushContinues ==
  ASSUME NEW s, QueueInv(s)
  PROVE  Continues(Flushed(s), s)
<1> DEFINE u == [s EXCEPT !.entry = [k \in Keys |->
                   IF s.entry[k] = None THEN None ELSE Raised(s, s.entry[k])]]
<1>1. /\ s \in Queue /\ s.entry \in [Keys -> Entry \cup {None}]
      /\ s.active \in SUBSET [key : Keys, ver : Versions,
                              waiters : SUBSET Versions]
      /\ s = [entry |-> s.entry, active |-> s.active]
  BY DEF QueueInv, WellFormed, Queue
<1>2. NextTurn(s) \in Nat /\ \A k \in Ready(s) : s.entry[k].turn < NextTurn(s)
  BY <1>1, NextNumbers
<1>3. ASSUME NEW e \in Entry
      PROVE  LET f == Raised(s, e)
             IN  /\ f \in Entry /\ ~f.timer /\ f.ready /\ f # None
                 /\ f.ver = e.ver /\ f.waiters = e.waiters
                 /\ f.place = e.place
                 /\ f.turn = IF e.ready THEN e.turn ELSE NextTurn(s) + e.place
  <2> DEFINE turn == IF e.ready THEN e.turn ELSE NextTurn(s) + e.place
             f == [e EXCEPT !.priority = 0, !.timer = FALSE, !.ready = TRUE,
                            !.turn = turn]
  <2>1. turn \in Nat
    BY <1>2, <1>3 DEF Entry
  <2>2. Raised(s, e) = f
    BY DEF Raised
  <2> HIDE DEF turn
  <2>3. /\ f \in Entry /\ ~f.timer /\ f.ready /\ f.ver = e.ver
        /\ f.waiters = e.waiters /\ f.place = e.place /\ f.turn = turn
    BY <2>1 DEF Entry
  <2> HIDE DEF f
  <2> QED
    BY <2>2, <2>3, NoneAssumption DEF turn
<1>4. u = [entry |-> [k \in Keys |-> IF s.entry[k] = None THEN None
                                     ELSE Raised(s, s.entry[k])],
           active |-> s.active]
  BY <1>1
<1> HIDE DEF u
<1>5. /\ u.active = s.active
      /\ \A k \in Keys : u.entry[k] = IF s.entry[k] = None THEN None
                                       ELSE Raised(s, s.entry[k])
  BY <1>4
<1>6. ASSUME NEW k \in Pending(s)
      PROVE  /\ u.entry[k] \in Entry /\ u.entry[k] # None
             /\ ~u.entry[k].timer /\ u.entry[k].ready
             /\ u.entry[k].ver = s.entry[k].ver
             /\ u.entry[k].waiters = s.entry[k].waiters
             /\ u.entry[k].place = s.entry[k].place
             /\ u.entry[k].turn = IF s.entry[k].ready THEN s.entry[k].turn
                                  ELSE NextTurn(s) + s.entry[k].place
  <2>1. /\ s.entry[k] \in Entry /\ k \in Keys
        /\ u.entry[k] = Raised(s, s.entry[k])
    BY <1>1, <1>5, EntryTyped DEF Pending
  <2> QED
    BY <1>3, <2>1
<1>7. Pending(u) = Pending(s) /\ Ready(u) = Pending(s)
  BY <1>5, <1>6 DEF Pending, Ready
<1>8. u \in Queue
  <2>1. \A k \in Keys : u.entry[k] \in Entry \cup {None}
    BY <1>5, <1>6 DEF Pending
  <2>2. u.entry \in [Keys -> Entry \cup {None}]
    BY <1>4, <2>1
  <2> QED
    BY <1>1, <1>4, <2>2 DEF Queue
<1>9. SameUpdates(u, s)
  BY <1>5, <1>6, <1>7, <1>8 DEF SameUpdates
<1>10. QueueInv(u)
  <2>1. WellFormed(u)
    BY <1>5, <1>7, <1>8 DEF QueueInv, WellFormed
  <2>2. \A j, k \in Pending(u) : j # k => u.entry[j].place # u.entry[k].place
    BY <1>6, <1>7 DEF QueueInv, InOrder
  <2>3. ASSUME NEW j \in Pending(s), NEW k \in Pending(s), j # k
        PROVE  u.entry[j].turn # u.entry[k].turn
    <3>1. /\ s.entry[j].place \in Nat /\ s.entry[k].place \in Nat
          /\ s.entry[j].turn \in Nat /\ s.entry[k].turn \in Nat
          /\ s.entry[j].place # s.entry[k].place
      BY <1>1, <2>3, EntryTyped DEF QueueInv, InOrder
    <3>2. /\ s.entry[j].ready => s.entry[j].turn < NextTurn(s)
          /\ s.entry[k].ready => s.entry[k].turn < NextTurn(s)
          /\ s.entry[j].ready /\ s.entry[k].ready =>
                s.entry[j].turn # s.entry[k].turn
      BY <1>2, <2>3 DEF Ready, QueueInv, InOrder
    <3>3. /\ u.entry[j].turn = IF s.entry[j].ready THEN s.entry[j].turn
                               ELSE NextTurn(s) + s.entry[j].place
          /\ u.entry[k].turn = IF s.entry[k].ready THEN s.entry[k].turn
                               ELSE NextTurn(s) + s.entry[k].place
      BY <1>6
    <3> QED
      BY <1>2, <3>1, <3>2, <3>3
  <2>4. InOrder(u)
    BY <1>5, <1>6, <1>7, <2>2, <2>3 DEF QueueInv, InOrder
  <2>5. WaitsOnce(u)
    BY <1>5, <1>6, <1>7 DEF QueueInv, WaitsOnce
  <2> QED
    BY <2>1, <2>4, <2>5 DEF QueueInv
<1>11. Waiters(u) = Waiters(s)
  <2>1. \A v : v \in Waiters(u) <=>
          \/ \E k \in Pending(u) : v \in u.entry[k].waiters
          \/ \E w \in u.active : v \in w.waiters
    BY DEF Waiters
  <2>2. \A v : v \in Waiters(s) <=>
          \/ \E k \in Pending(s) : v \in s.entry[k].waiters
          \/ \E w \in s.active : v \in w.waiters
    BY DEF Waiters
  <2> QED
    <3>1. \A k \in Pending(s) : u.entry[k].waiters = s.entry[k].waiters
      BY <1>6
    <3> QED
      BY <1>5, <1>7, <2>1, <2>2, <3>1
<1>12. Flushed(s) = Drained(u)
  BY DEF Flushed, u
<1> QED
  BY <1>9, <1>10, <1>11, <1>12, DrainKeeps DEF Continues

(* A process that starts or has ended has nothing.                         *)
LEMMA EmptyKeeps ==
  /\ QueueInv(Empty) /\ Busy(Empty) /\ Waiters(Empty) = {} /\ Idle(Empty)
<1>1. /\ Empty.active = {} /\ Pending(Empty) = {}
      /\ Empty.entry \in [Keys -> Entry \cup {None}]
  BY DEF Empty, Pending
<1>2. Empty \in Queue
  BY <1>1 DEF Empty, Queue
<1>3. Ready(Empty) = {} /\ Startable(Empty) = {}
  BY <1>1 DEF Ready, Startable
<1>4. /\ IsFiniteSet(Empty.active) /\ Cardinality(Empty.active) = 0
      /\ Cardinality(Pending(Empty)) = 0
  BY <1>1, FS_EmptySet
<1>5. QueueInv(Empty)
  BY <1>1, <1>2, <1>3, <1>4, WatchTimeAssumption
     DEF QueueInv, WellFormed, InOrder, WaitsOnce
<1>6. Waiters(Empty) = {}
  BY <1>1 DEF Waiters
<1> QED
  BY <1>1, <1>3, <1>5, <1>6 DEF Busy, Idle

-----------------------------------------------------------------------------
(* Every step keeps the queues in order, whatever other processes do.      *)
LEMMA OthersKeep ==
  ASSUME NEW p \in Procs, KeepInv, Histories', version <= version',
         q' = [q EXCEPT ![p] = q'[p]],
         \A x \in Procs \ {p} : open'[x] = open[x] /\ phase'[x] = phase[x],
         ProcInv(p)'
  PROVE  KeepInv'
<1>1. q'[p] \in Queue
  BY DEF ProcInv, QueueInv, WellFormed
<1>2. q' \in [Procs -> Queue]
  BY <1>1 DEF KeepInv
<1>3. ASSUME NEW x \in Procs \ {p}
      PROVE  ProcInv(x)'
  <2>1. q'[x] = q[x] /\ open'[x] = open[x] /\ phase'[x] = phase[x]
    BY <1>3 DEF KeepInv
  <2>2. ProcInv(x) /\ open[x] \in SUBSET Versions
    BY DEF KeepInv, Histories
  <2>3. \A v \in open[x] : v <= version'
    <3>1. version \in Nat /\ version' \in Nat /\ open[x] \subseteq Nat
      BY <2>2, WatchTimeAssumption DEF KeepInv, Histories, Versions
    <3> QED
      BY <2>2, <3>1 DEF ProcInv
  <2> QED
    BY <2>1, <2>2, <2>3 DEF ProcInv
<1> QED
  BY <1>2, <1>3 DEF KeepInv

(* A step of a process changes the queue of that process only.             *)
LEMMA QueueOf ==
  ASSUME NEW p \in Procs, KeepInv, NEW t, q' = [q EXCEPT ![p] = t]
  PROVE  q'[p] = t /\ q' = [q EXCEPT ![p] = q'[p]]
BY DEF KeepInv

(* The bounds and versions are natural numbers.                            *)
LEMMA Numbers ==
  ASSUME Histories
  PROVE  /\ version \in Nat /\ MaxUpdates \in Nat /\ MaxFaults \in Nat
         /\ version < MaxUpdates =>
              version + 1 \in Versions /\ version + 1 \in 0..MaxUpdates
         /\ faults < MaxFaults => faults + 1 \in 0..MaxFaults
         /\ Versions \subseteq Nat
BY WatchTimeAssumption DEF Histories, Versions

(* An update that is refused changes nothing that is kept.                 *)
LEMMA RefuseKeeps ==
  ASSUME KeepInv, NEW p \in Procs, NEW k \in Keys, Refuse(p, k)
  PROVE  KeepInv'
<1>1. /\ version + 1 \in Versions /\ version' \in 0..MaxUpdates
      /\ version <= version'
  BY Numbers DEF KeepInv, Refuse
<1>2. visible' \in [Procs -> [Keys -> 0..MaxUpdates]]
  BY <1>1 DEF KeepInv, Histories, Refuse, Show
<1>3. Histories'
  BY <1>1, <1>2 DEF KeepInv, Histories, Refuse
<1>4. \A x \in Procs : q'[x] = q[x] /\ open'[x] = open[x]
                       /\ phase'[x] = phase[x]
  BY DEF Refuse
<1>5. q' = [q EXCEPT ![p] = q'[p]]
  BY DEF Refuse, KeepInv
<1>6. ProcInv(p)'
  <2>1. \A v \in open[p] : v <= version'
    <3>1. version \in Nat /\ version' \in Nat /\ open[p] \subseteq Nat
      BY Numbers, <1>1 DEF KeepInv, Histories
    <3> QED
      BY <1>1, <3>1 DEF KeepInv, ProcInv
  <2> QED
    BY <1>4, <2>1 DEF KeepInv, ProcInv
<1> QED
  BY <1>1, <1>3, <1>4, <1>5, <1>6, OthersKeep

(* What an eviction drops are updates.                                     *)
LEMMA EvictedTyped ==
  ASSUME KeepInv, NEW p \in Procs, NEW k \in Keys,
         ~Full(q[p], k) \/ Evictable(q[p]) # {}
  PROVE  Evicted(p, k) \subseteq Versions
<1>1. CASE Full(q[p], k)
  <2>1. q[p] \in Queue
    BY DEF KeepInv
  <2>2. Victim(q[p]) \in Pending(q[p])
    BY <1>1, <2>1, VictimEvictable DEF Evictable
  <2>3. q[p].entry[Victim(q[p])].ver \in Versions
    BY <2>1, <2>2, EntryTyped
  <2> QED
    BY <2>3 DEF Evicted
<1>2. CASE ~Full(q[p], k)
  BY <1>2 DEF Evicted
<1> QED
  BY <1>1, <1>2

(* A request that is taken.                                                *)
LEMMA AcceptKeeps ==
  ASSUME KeepInv, NEW p \in Procs, NEW k \in Keys, Accept(p, k),
         NEW more \in SUBSET {version + 1}, Took(p, k, more),
         q' = [q EXCEPT ![p] = q'[p]],
         open' = [open EXCEPT ![p] = @ \cup more]
  PROVE  KeepInv'
<1>1. /\ version + 1 \in Versions /\ version' \in 0..MaxUpdates
      /\ version <= version' /\ version' = version + 1
  BY Numbers DEF KeepInv, Accept
<1>2. visible' \in [Procs -> [Keys -> 0..MaxUpdates]]
  BY <1>1 DEF KeepInv, Histories, Accept, Show
<1>3. Evicted(p, k) \subseteq Versions
  BY EvictedTyped DEF Accept
<1>4. open' \in [Procs -> SUBSET Versions]
  BY <1>1 DEF KeepInv, Histories
<1>5. Histories'
  BY <1>1, <1>2, <1>3, <1>4 DEF KeepInv, Histories, Accept
<1>6. /\ open'[p] = open[p] \cup more
      /\ \A x \in Procs \ {p} : open'[x] = open[x] /\ phase'[x] = phase[x]
  BY DEF KeepInv, Histories, Accept
<1>7. ProcInv(p)'
  <2>1. \A v \in open'[p] : v <= version'
    <3>1. version \in Nat /\ open[p] \subseteq Nat
      BY Numbers DEF KeepInv, Histories
    <3>2. \A v \in open[p] : v <= version
      BY DEF KeepInv, ProcInv
    <3>3. \A v \in open'[p] : v \in open[p] \/ v = version + 1
      BY <1>6
    <3>4. \A v \in open[p] : v \in Nat
      BY <3>1
    <3> QED
      BY <1>1, <3>1, <3>2, <3>3, <3>4
  <2>2. phase'[p] # "down"
    BY DEF Accept
  <2>3. open'[p] = Waiters(q'[p])
    BY <1>6 DEF KeepInv, ProcInv, Took
  <2>4. QueueInv(q'[p]) /\ Busy(q'[p])
    BY DEF Took
  <2> QED
    BY <2>1, <2>2, <2>3, <2>4 DEF ProcInv
<1> QED
  BY <1>1, <1>5, <1>6, <1>7, OthersKeep

(* A progress update keeps the invariant.                                  *)
LEMMA ProgressKeeps ==
  ASSUME KeepInv, NEW p \in Procs, NEW k \in Keys, Progress(p, k)
  PROVE  KeepInv' /\ Took(p, k, {})
<1>1. Accept(p, k) /\ version + 1 \in Versions
  BY Numbers DEF KeepInv, Progress, Accept
<1>2. Took(p, k, {})
  BY <1>1, ProgressTakes DEF KeepInv, ProcInv
<1>3. q' = [q EXCEPT ![p] = q'[p]]
  BY QueueOf DEF Progress
<1>4. open' = [open EXCEPT ![p] = @ \cup {}]
  BY DEF Progress, KeepInv, Histories
<1> QED
  BY <1>1, <1>2, <1>3, <1>4, AcceptKeeps

(* So does a completion.                                                   *)
LEMMA CompletionKeeps ==
  ASSUME KeepInv, NEW p \in Procs, NEW k \in Keys, Completion(p, k)
  PROVE  KeepInv' /\ Took(p, k, {version + 1})
<1>1. Accept(p, k) /\ version + 1 \in Versions
  BY Numbers DEF KeepInv, Completion, Accept
<1>2. version + 1 \notin Waiters(q[p])
  <2>1. version \in Nat /\ \A v \in Waiters(q[p]) : v <= version
    BY Numbers DEF KeepInv, ProcInv
  <2> QED
    BY <2>1
<1>3. Took(p, k, {version + 1})
  BY <1>1, <1>2, CompletionTakes DEF KeepInv, ProcInv
<1>4. q' = [q EXCEPT ![p] = q'[p]]
  BY QueueOf DEF Completion
<1>5. open' = [open EXCEPT ![p] = @ \cup {version + 1}]
  BY DEF Completion
<1> QED
  BY <1>1, <1>3, <1>4, <1>5, AcceptKeeps

(* What changes nothing but the queue of p, its order and its phase.       *)
LEMMA ContinueKeeps ==
  ASSUME KeepInv, NEW p \in Procs, q' = [q EXCEPT ![p] = q'[p]],
         Continues(q'[p], q[p]), phase' \in [Procs -> {"up", "closing",
                                                       "flushing", "down"}],
         \A x \in Procs \ {p} : phase'[x] = phase[x], phase'[p] # "down",
         UNCHANGED <<visible, open, stored, version, faults, history>>
  PROVE  KeepInv'
<1>1. Histories'
  BY DEF KeepInv, Histories, history
<1>2. version <= version'
  BY Numbers DEF KeepInv
<1>3. ProcInv(p)'
  BY DEF KeepInv, ProcInv, Continues
<1> QED
  BY <1>1, <1>2, <1>3, OthersKeep

(* So does a quiet timer.                                                  *)
LEMMA FireKeeps ==
  ASSUME KeepInv, NEW p \in Procs, NEW k \in Keys, Fire(p, k)
  PROVE  KeepInv' /\ Continues(q'[p], q[p])
<1>1. k \in Pending(q[p]) /\ phase[p] # "down"
  <2>1. k \in Pending(q[p])
    BY DEF Fire, Pending
  <2> QED
    BY <2>1 DEF KeepInv, ProcInv, Idle
<1>2. q' = [q EXCEPT ![p] = Enqueued(q[p], k, FALSE)]
  BY DEF Fire
<1>3. q' = [q EXCEPT ![p] = q'[p]] /\ q'[p] = Enqueued(q[p], k, FALSE)
  BY <1>2, QueueOf
<1>4. Continues(q'[p], q[p])
  BY <1>1, <1>3, FireContinues DEF KeepInv, ProcInv
<1>5. /\ phase' = phase
      /\ UNCHANGED <<visible, open, stored, version, faults, history>>
  BY DEF Fire
<1> QED
  BY <1>1, <1>3, <1>4, <1>5, ContinueKeeps DEF KeepInv, Histories

(* So does the flush at shutdown.                                          *)
LEMMA FlushKeeps ==
  ASSUME KeepInv, NEW p \in Procs, Flush(p)
  PROVE  KeepInv' /\ Continues(q'[p], q[p])
<1>1. q' = [q EXCEPT ![p] = Flushed(q[p])]
  BY DEF Flush
<1>2. q' = [q EXCEPT ![p] = q'[p]] /\ q'[p] = Flushed(q[p])
  BY <1>1, QueueOf
<1>3. Continues(q'[p], q[p])
  BY <1>2, FlushContinues DEF KeepInv, ProcInv
<1>4. /\ phase' = [phase EXCEPT ![p] = "flushing"]
      /\ UNCHANGED <<visible, open, stored, version, faults, history>>
  BY DEF Flush
<1>5. /\ phase' \in [Procs -> {"up", "closing", "flushing", "down"}]
      /\ \A x \in Procs \ {p} : phase'[x] = phase[x]
      /\ phase'[p] # "down"
  BY <1>4 DEF KeepInv, Histories
<1> QED
  BY <1>2, <1>3, <1>4, <1>5, ContinueKeeps

(* What leaves the queues alone.                                           *)
LEMMA RestKeeps ==
  ASSUME KeepInv, NEW p \in Procs,
         \/ \E k \in Keys : VisibleExpires(p, k)
         \/ Close(p) \/ Exit(p) \/ Restart(p)
  PROVE  KeepInv' /\ q' = q
<1>1. q' = q /\ UNCHANGED <<open, stored, version, faults, history>>
  BY DEF VisibleExpires, Close, Exit, Restart
<1>2. /\ visible' \in [Procs -> [Keys -> 0..MaxUpdates]]
      /\ phase' \in [Procs -> {"up", "closing", "flushing", "down"}]
      /\ \A x \in Procs \ {p} : phase'[x] = phase[x]
      /\ phase'[p] = "down" => phase[p] = "down" \/ Idle(q[p])
  <2>0. 0 \in 0..MaxUpdates
    BY WatchTimeAssumption
  <2>1. /\ visible \in [Procs -> [Keys -> 0..MaxUpdates]]
        /\ phase \in [Procs -> {"up", "closing", "flushing", "down"}]
    BY DEF KeepInv, Histories
  <2>2. CASE \E k \in Keys : VisibleExpires(p, k)
    BY <2>0, <2>1, <2>2 DEF VisibleExpires
  <2>3. CASE Close(p)
    BY <2>1, <2>3 DEF Close
  <2>4. CASE Exit(p)
    BY <2>0, <2>1, <2>4 DEF Exit
  <2>5. CASE Restart(p)
    BY <2>1, <2>5 DEF Restart
  <2> QED
    BY <2>2, <2>3, <2>4, <2>5
<1>3. Histories'
  BY <1>1, <1>2 DEF KeepInv, Histories, history
<1>4. version <= version' /\ q' = [q EXCEPT ![p] = q'[p]]
  BY <1>1, Numbers DEF KeepInv
<1>5. ProcInv(p)'
  BY <1>1, <1>2 DEF KeepInv, ProcInv
<1> QED
  BY <1>1, <1>2, <1>3, <1>4, <1>5, OthersKeep

(* A write that has ended, well or not.                                    *)
LEMMA EndKeeps ==
  ASSUME KeepInv, NEW p \in Procs, NEW w \in q[p].active,
         Write(p, w) \/ WriteFails(p, w)
  PROVE  KeepInv' /\ q'[p] = Settled(q[p], w)
<1>1. /\ q' = [q EXCEPT ![p] = Settled(q[p], w)]
      /\ open' = [open EXCEPT ![p] = @ \ w.waiters]
      /\ UNCHANGED <<visible, phase, version, latest>>
  BY DEF Write, WriteFails
<1>2. q'[p] = Settled(q[p], w) /\ q' = [q EXCEPT ![p] = q'[p]]
  BY <1>1, QueueOf
<1>3. /\ w.key \in Keys /\ w.ver \in Versions /\ w.ver \in 0..MaxUpdates
      /\ w.waiters \in SUBSET Versions
  <2>1. w \in [key : Keys, ver : Versions, waiters : SUBSET Versions]
    BY DEF KeepInv, Queue
  <2> QED
    BY <2>1, WatchTimeAssumption DEF Versions
<1>4. /\ stored' \in [Keys -> 0..MaxUpdates] /\ faults' \in 0..MaxFaults
      /\ done' \in [Keys -> SUBSET Versions] /\ dropped' \subseteq Versions
  <2>1. CASE Write(p, w)
    BY <1>3, <2>1 DEF Write, KeepInv, Histories
  <2>2. CASE WriteFails(p, w)
    BY <1>3, <2>2, Numbers DEF WriteFails, KeepInv, Histories
  <2> QED
    BY <2>1, <2>2
<1>5. /\ open' \in [Procs -> SUBSET Versions] /\ open'[p] = open[p] \ w.waiters
      /\ \A x \in Procs \ {p} : open'[x] = open[x]
  BY <1>1 DEF KeepInv, Histories
<1>6. Histories'
  BY <1>1, <1>4, <1>5 DEF KeepInv, Histories
<1>7. ProcInv(p)'
  <2>1. /\ QueueInv(q'[p]) /\ Busy(q'[p])
        /\ Waiters(q'[p]) = Waiters(q[p]) \ w.waiters
    BY <1>2, SettledKeeps DEF KeepInv, ProcInv
  <2>2. phase'[p] # "down"
    BY <1>1 DEF KeepInv, ProcInv, Idle
  <2>3. open'[p] = Waiters(q'[p]) /\ \A v \in open'[p] : v <= version'
    BY <1>1, <1>5, <2>1 DEF KeepInv, ProcInv
  <2> QED
    BY <2>1, <2>2, <2>3 DEF ProcInv
<1>8. version <= version'
  BY <1>1, Numbers DEF KeepInv
<1> QED
  BY <1>1, <1>2, <1>5, <1>6, <1>7, <1>8, OthersKeep

(* Of the writes under way some have landed; no video has two of them.     *)
Landed(p, landed) ==
  /\ landed \subseteq q[p].active
  /\ stored' = [k \in Keys |->
       IF \E w \in landed : w.key = k
       THEN (CHOOSE w \in landed : w.key = k).ver ELSE stored[k]]
  /\ dropped' = dropped \cup {q[p].entry[k].ver : k \in Pending(q[p])}
                        \cup {w.ver : w \in q[p].active \ landed}

(* Of the writes that land at a crash one at most is a video's.            *)
LEMMA LandedOne ==
  ASSUME NEW p, QueueInv(q[p]), NEW landed, Landed(p, landed), NEW k \in Keys
  PROVE  \/ \E w \in landed : w.key = k /\ stored'[k] = w.ver
         \/ /\ \A w \in landed : w.key # k
            /\ stored'[k] = stored[k]
BY DEF Landed

(* A crash keeps the invariant with an empty queue.                        *)
LEMMA CrashKeeps ==
  ASSUME KeepInv, NEW p \in Procs, Crash(p)
  PROVE  /\ KeepInv' /\ q'[p] = Empty
         /\ \E landed : Landed(p, landed)
<1>1. /\ q' = [q EXCEPT ![p] = Empty] /\ open' = [open EXCEPT ![p] = {}]
      /\ phase' = [phase EXCEPT ![p] = "down"]
      /\ visible' = [visible EXCEPT ![p] = [k \in Keys |-> 0]]
      /\ UNCHANGED <<version, latest, done>>
      /\ faults' = faults + 1 /\ faults < MaxFaults
  BY DEF Crash
<1>2. PICK landed : Landed(p, landed)
  BY DEF Crash, Landed
<1>3. q'[p] = Empty /\ q' = [q EXCEPT ![p] = q'[p]]
  BY <1>1, QueueOf
<1>4. QueueInv(q[p]) /\ q[p] \in Queue
  BY DEF KeepInv, ProcInv
<1>5. \A w \in q[p].active : w.ver \in Versions /\ w.ver \in 0..MaxUpdates
  <2>1. \A w \in q[p].active :
          w \in [key : Keys, ver : Versions, waiters : SUBSET Versions]
    BY <1>4 DEF Queue
  <2> QED
    BY <2>1, WatchTimeAssumption DEF Versions
<1>6. stored' \in [Keys -> 0..MaxUpdates]
  <2>1. \A k \in Keys : stored'[k] \in 0..MaxUpdates
    <3> SUFFICES ASSUME NEW k \in Keys
                 PROVE  stored'[k] \in 0..MaxUpdates
      OBVIOUS
    <3>1. stored[k] \in 0..MaxUpdates /\ landed \subseteq q[p].active
      BY <1>2 DEF KeepInv, Histories, Landed
    <3> QED
      BY <1>2, <1>4, <1>5, <3>1, LandedOne
  <2> QED
    BY <1>2, <2>1 DEF Landed
<1>7. dropped' \subseteq Versions
  <2>1. \A k \in Pending(q[p]) : q[p].entry[k].ver \in Versions
    BY <1>4, EntryTyped
  <2> QED
    BY <1>2, <1>5, <2>1 DEF Landed, KeepInv, Histories
<1>8. /\ open' \in [Procs -> SUBSET Versions] /\ open'[p] = {}
      /\ phase' \in [Procs -> {"up", "closing", "flushing", "down"}]
      /\ \A x \in Procs \ {p} : open'[x] = open[x] /\ phase'[x] = phase[x]
  BY <1>1 DEF KeepInv, Histories
<1>9. visible' \in [Procs -> [Keys -> 0..MaxUpdates]]
  <2>1. [k \in Keys |-> 0] \in [Keys -> 0..MaxUpdates]
    BY WatchTimeAssumption
  <2> QED
    BY <1>1, <2>1 DEF KeepInv, Histories
<1>10. Histories'
  BY <1>1, <1>6, <1>7, <1>8, <1>9, Numbers DEF KeepInv, Histories
<1>11. ProcInv(p)'
  BY <1>3, <1>8, EmptyKeeps DEF ProcInv
<1>12. version <= version'
  BY <1>1, Numbers DEF KeepInv
<1> QED
  BY <1>2, <1>3, <1>8, <1>10, <1>11, <1>12, OthersKeep

(* The invariant holds at the start.                                       *)
LEMMA InitKeeps == Init => KeepInv
<1> SUFFICES ASSUME Init
             PROVE  KeepInv
  OBVIOUS
<1>1. \A p \in Procs : q[p] = Empty /\ open[p] = {} /\ phase[p] = "up"
  BY DEF Init
<1>2. Empty \in Queue /\ 0 \in 0..MaxUpdates /\ 0 \in 0..MaxFaults
  BY EmptyKeeps, WatchTimeAssumption DEF QueueInv, WellFormed
<1>3. q \in [Procs -> Queue]
  BY <1>2 DEF Init
<1>4. Histories
  BY <1>2 DEF Init, Histories
<1>5. \A p \in Procs : ProcInv(p)
  BY <1>1, EmptyKeeps DEF ProcInv
<1> QED
  BY <1>3, <1>4, <1>5 DEF KeepInv

(* It is inductive.                                                        *)
LEMMA NextKeeps == KeepInv /\ [Next]_vars => KeepInv'
<1> SUFFICES ASSUME KeepInv, [Next]_vars
             PROVE  KeepInv'
  OBVIOUS
<1>1. CASE UNCHANGED vars
  <2>1. UNCHANGED <<q, visible, phase, open, stored, version, faults,
                    latest, done, dropped>>
    BY <1>1 DEF vars, history
  <2>2. Histories'
    BY <2>1 DEF KeepInv, Histories
  <2>3. \A p \in Procs : ProcInv(p)'
    BY <2>1 DEF KeepInv, ProcInv
  <2> QED
    BY <2>1, <2>2, <2>3 DEF KeepInv
<1>2. ASSUME NEW p \in Procs, NEW k \in Keys,
             \/ Refuse(p, k) \/ Progress(p, k) \/ Completion(p, k)
             \/ Fire(p, k) \/ VisibleExpires(p, k)
      PROVE  KeepInv'
  BY <1>2, RefuseKeeps, ProgressKeeps, CompletionKeeps, FireKeeps, RestKeeps
<1>3. ASSUME NEW p \in Procs, NEW w \in q[p].active,
             Write(p, w) \/ WriteFails(p, w)
      PROVE  KeepInv'
  BY <1>3, EndKeeps
<1>4. ASSUME NEW p \in Procs,
             Close(p) \/ Flush(p) \/ Exit(p) \/ Crash(p) \/ Restart(p)
      PROVE  KeepInv'
  BY <1>4, RestKeeps, FlushKeeps, CrashKeeps
<1> QED
  BY <1>1, <1>2, <1>3, <1>4 DEF Next

(* It implies the type invariant and UpdatesKept.                          *)
LEMMA KeepTypes == KeepInv => TypeOK /\ UpdatesKept
<1> SUFFICES ASSUME KeepInv
             PROVE  TypeOK /\ UpdatesKept
  OBVIOUS
<1>1. TypeOK
  BY DEF KeepInv, Histories, ProcInv, QueueInv, WellFormed, TypeOK
<1>2. NoForgottenUpdate
  BY DEF KeepInv, ProcInv, QueueInv, InOrder, Busy, NoForgottenUpdate
<1>3. EveryWaiterKept
  BY DEF KeepInv, ProcInv, EveryWaiterKept
<1> QED
  BY <1>1, <1>2, <1>3 DEF UpdatesKept

(* Every state has the right types: no process has more entries than       *)
(* WATCH_TIME_MAX_PENDING nor more writes than its concurrency (server.ts  *)
(* 520-606).                                                               *)
THEOREM QueuesTyped == Spec => []TypeOK
<1>1. Spec => []KeepInv
  BY InitKeeps, NextKeeps, PTL DEF Spec
<1> QED
  BY <1>1, KeepTypes, PTL

(* No update is forgotten in the map and no request is left without an     *)
(* entry or a write that will answer it, however many processes write the  *)
(* videos and whichever writes fail (server.ts 455-606).                   *)
THEOREM UpdatesAreKept == Spec => []UpdatesKept
<1>1. Spec => []KeepInv
  BY InitKeeps, NextKeeps, PTL DEF Spec
<1> QED
  BY <1>1, KeepTypes, PTL

-----------------------------------------------------------------------------
(* One process, which is the only writer of its videos.                    *)
Typed(s, h) ==
  /\ s \in Queue
  /\ h.stored \in Nat /\ h.latest \in Nat /\ h.version \in Nat
  /\ h.shown \in Nat /\ h.done \subseteq Nat

(* The versions in a queue are natural numbers.                            *)
LEMMA NumbersOf ==
  ASSUME NEW s \in Queue
  PROVE  /\ \A w \in s.active : w.key \in Keys /\ w.ver \in Nat
                              /\ w.waiters \subseteq Nat
         /\ \A k \in Pending(s) : s.entry[k].ver \in Nat
                                /\ s.entry[k].waiters \subseteq Nat
<1>1. Versions \subseteq Nat
  BY DEF Versions
<1>2. s.active \subseteq [key : Keys, ver : Versions, waiters : SUBSET Versions]
  BY DEF Queue
<1>3. \A w \in s.active : w.key \in Keys /\ w.ver \in Versions
                         /\ w.waiters \in SUBSET Versions
  BY <1>2
<1> QED
  BY <1>1, <1>3, EntryTyped

(* What a process shows of a video is typed.                               *)
LEMMA ViewTyped ==
  ASSUME KeepInv, NEW p \in Procs, NEW k \in Keys
  PROVE  Typed(q[p], View(p, k))
<1>1. 0..MaxUpdates \subseteq Nat /\ Versions \subseteq Nat
  BY DEF Versions
<1> QED
  BY <1>1 DEF KeepInv, Histories, Typed, View

(* Starting writes changes nothing of it.                                  *)
LEMMA SafeMoves ==
  ASSUME NEW s, NEW t, NEW k, NEW h, Typed(s, h), Moved(t, s), KeySafe(s, k, h)
  PROVE  KeySafe(t, k, h)
<1> DEFINE go == Pending(s) \ Pending(t)
<1>1. /\ Pending(t) \subseteq Pending(s)
      /\ \A j \in Pending(t) : t.entry[j] = s.entry[j]
      /\ t.active = s.active \cup {WriteOf(s, j) : j \in go}
  BY DEF Moved
<1>2. \A j : /\ WriteOf(s, j).key = j /\ WriteOf(s, j).ver = s.entry[j].ver
            /\ WriteOf(s, j).waiters = s.entry[j].waiters
  BY DEF WriteOf
<1>3. \A w \in t.active :
        w \in s.active \/ (w.key \in go /\ w = WriteOf(s, w.key))
  BY <1>1, <1>2
<1>4. h.latest \in Nat /\ h.latest <= h.latest
  BY DEF Typed
<1>5. Ascending(t, k, h)
  <2>1. ASSUME NEW w \in t.active, w.key = k
        PROVE  /\ h.stored < w.ver /\ w.ver <= h.latest
               /\ \A v \in w.waiters : v <= w.ver
               /\ k \in Pending(t) => w.ver < h.latest
    <3>1. CASE w \in s.active
      BY <1>1, <2>1, <3>1 DEF KeySafe, Ascending
    <3>2. CASE w.key \in go /\ w = WriteOf(s, w.key)
      BY <1>1, <1>2, <1>4, <2>1, <3>2 DEF KeySafe, Ascending
    <3> QED
      BY <1>3, <3>1, <3>2
  <2>2. k \in Pending(t) => /\ t.entry[k].ver = h.latest /\ h.stored < h.latest
                            /\ \A v \in t.entry[k].waiters : v <= h.latest
    BY <1>1 DEF KeySafe, Ascending
  <2> QED
    BY <2>1, <2>2 DEF KeySafe, Ascending
<1>6. Accounted(t, k, h)
  <2>1. CASE k \in go
    <3>1. WriteOf(s, k) \in t.active /\ WriteOf(s, k).ver = h.latest
      BY <1>1, <1>2, <2>1 DEF KeySafe, Ascending
    <3> QED
      BY <1>2, <3>1 DEF Accounted
  <2>2. CASE k \notin go
    BY <1>1, <2>2 DEF KeySafe, Accounted
  <2> QED
    BY <2>1, <2>2
<1>7. Shown(t, k, h)
  <2>1. k \notin Pending(s) /\ k \notin ActiveKeys(s)
          => k \notin Pending(t) /\ k \notin ActiveKeys(t)
    BY <1>1, <1>3 DEF ActiveKeys
  <2> QED
    BY <2>1 DEF KeySafe, Shown
<1> QED
  BY <1>5, <1>6, <1>7 DEF KeySafe

(* A video is as safe in a queue that holds the same updates of it.        *)
LEMMA SafeSame ==
  ASSUME NEW s, NEW u, NEW k, NEW h, SameUpdates(u, s), KeySafe(s, k, h)
  PROVE  KeySafe(u, k, h)
<1>1. Ascending(u, k, h)
  BY DEF SameUpdates, KeySafe, Ascending
<1>2. Accounted(u, k, h) /\ Shown(u, k, h)
  BY DEF SameUpdates, KeySafe, Accounted, Shown, ActiveKeys
<1> QED
  BY <1>1, <1>2 DEF KeySafe

(* Nor do requests and failures for other videos.                          *)
Later(g, h) ==
  /\ g.stored = h.stored /\ g.latest = h.latest /\ g.done = h.done
  /\ h.version <= g.version
  /\ h.lost => g.lost
  /\ g.shown = h.shown \/ (g.shown # 0 /\ g.latest <= g.shown)

(* A video stays safe when only its history goes on.                       *)
LEMMA SafeLater ==
  ASSUME NEW s, NEW k, NEW g, NEW h, KeySafe(s, k, h), Typed(s, h), Typed(s, g),
         Later(g, h)
  PROVE  KeySafe(s, k, g)
<1>1. g.latest <= g.version
  BY DEF Typed, KeySafe, Ascending, Later
<1>2. Ascending(s, k, g)
  BY <1>1 DEF KeySafe, Ascending, Later
<1>3. Accounted(s, k, g)
  BY DEF KeySafe, Accounted, Later
<1>4. Shown(s, k, g)
  BY DEF KeySafe, Shown, Later
<1>5. \A v \in g.done : v <= g.stored
  BY DEF KeySafe, Later
<1> QED
  BY <1>2, <1>3, <1>4, <1>5 DEF KeySafe

(* The video that is updated.                                              *)
LEMMA SafeTakes ==
  ASSUME NEW s, NEW u, NEW k, NEW g, NEW h, Typed(s, h), Typed(s, g),
         KeySafe(s, k, h), NEW v \in Nat, NEW gone, NEW more \in SUBSET {v},
         Updated(u, s, k, v, gone, more), h.version < v,
         g.latest = v, g.version = v, g.shown = v, g.stored = h.stored,
         g.done = h.done
  PROVE  KeySafe(u, k, g)
<1>1. /\ h.stored <= h.latest /\ h.latest < v /\ h.stored < v
      /\ h.stored \in Nat /\ h.latest \in Nat
  BY DEF Typed, KeySafe, Ascending
<1>2. /\ u.active = s.active /\ k \in Pending(u) /\ u.entry[k].ver = v
  BY DEF Updated
<1>3. ASSUME NEW w \in s.active, w.key = k
      PROVE  /\ h.stored < w.ver /\ w.ver <= h.latest /\ w.ver < v
             /\ w.ver <= v /\ \A x \in w.waiters : x <= w.ver
  <2>1. w.ver \in Nat
    BY NumbersOf DEF Typed
  <2>2. /\ h.stored < w.ver /\ w.ver <= h.latest
        /\ \A x \in w.waiters : x <= w.ver
    BY <1>3 DEF KeySafe, Ascending
  <2> QED
    BY <1>1, <2>1, <2>2
<1>4. ASSUME NEW x \in u.entry[k].waiters
      PROVE  x <= v
  <2>1. x \in more \/ (k \in Pending(s) /\ x \in s.entry[k].waiters)
    BY DEF Updated
  <2>2. CASE x \in more
    <3>1. x = v
      BY <2>2
    <3> QED
      BY <3>1
  <2>3. CASE k \in Pending(s) /\ x \in s.entry[k].waiters
    <3>1. x \in Nat
      BY <2>3, NumbersOf DEF Typed
    <3>2. x <= h.latest
      BY <2>3 DEF KeySafe, Ascending
    <3> QED
      BY <1>1, <3>1, <3>2
  <2> QED
    BY <2>1, <2>2, <2>3
<1>5. Ascending(u, k, g)
  BY <1>1, <1>2, <1>3, <1>4 DEF Ascending
<1>6. Accounted(u, k, g) /\ Shown(u, k, g)
  BY <1>1, <1>2 DEF Accounted, Shown, Typed
<1>7. \A x \in g.done : x <= g.stored
  BY DEF KeySafe
<1> QED
  BY <1>5, <1>6, <1>7 DEF KeySafe

(* The others, one of which may have been given up for room.               *)
LEMMA SafeBeside ==
  ASSUME NEW s, NEW u, NEW j, NEW k, j # k, NEW g, NEW h, Typed(s, h),
         Typed(s, g), KeySafe(s, j, h), NEW v, NEW gone, NEW more,
         Updated(u, s, k, v, gone, more), Later(g, h), g.shown = h.shown,
         j \in gone => j \in Pending(s) /\ g.lost
  PROVE  KeySafe(u, j, g)
<1>1. KeySafe(s, j, g)
  BY SafeLater
<1>2. /\ u.active = s.active
      /\ j \in Pending(u) <=> j \in Pending(s) \ gone
      /\ j \in Pending(u) => u.entry[j] = s.entry[j]
  BY DEF Updated
<1>3. Ascending(u, j, g)
  BY <1>1, <1>2 DEF KeySafe, Ascending
<1>4. Accounted(u, j, g)
  BY <1>1, <1>2 DEF KeySafe, Accounted
<1>5. Shown(u, j, g)
  BY <1>1, <1>2 DEF KeySafe, Shown, ActiveKeys
<1> QED
  BY <1>1, <1>3, <1>4, <1>5 DEF KeySafe

(* An update that is accepted leaves every video safe.                     *)
LEMMA AcceptSafe ==
  ASSUME AloneInv, KeepInv', NEW p \in Procs, NEW k \in Keys, Accept(p, k),
         NEW more \in SUBSET {version + 1}, Took(p, k, more), NEW j \in Keys
  PROVE  KeySafe(q'[p], j, View(p, j)')
<1> DEFINE s == q[p]
           h == View(p, j)
           g == View(p, j)'
           v == version + 1
<1>1. KeepInv /\ KeySafe(s, j, h)
  BY DEF AloneInv
<1>2. Typed(s, h)
  BY <1>1, ViewTyped
<1>3. PICK u, gone :
        /\ Updated(u, s, k, v, gone, more) /\ Moved(q'[p], u)
        /\ \A i \in gone : i \in Pending(s) /\ s.entry[i].ver \in Evicted(p, k)
  BY DEF Took
<1>4. /\ version \in Nat /\ v \in Nat /\ v # 0 /\ version < v
      /\ version' = v /\ version <= version'
  BY <1>1, Numbers DEF KeepInv, Accept
<1>5. /\ g.stored = h.stored /\ g.done = h.done /\ g.version = v
      /\ g.latest = IF j = k THEN v ELSE h.latest
      /\ g.shown = IF j = k THEN v ELSE h.shown
      /\ h.version = version
  BY <1>1, <1>4 DEF Accept, Show, View, KeepInv, Histories
<1>6. h.lost => (g.lost \/ j = k)
  <2>1. dropped \subseteq dropped' /\ (j # k => latest'[j] = latest[j])
    BY <1>1 DEF Accept, KeepInv, Histories
  <2>2. /\ h.lost <=> latest[j] \in dropped
        /\ g.lost <=> latest'[j] \in dropped'
    BY DEF View
  <2> QED
    BY <2>1, <2>2
<1>7. Typed(s, g) /\ u \in Queue
  <2>1. /\ g.stored \in Nat /\ g.latest \in Nat /\ g.version \in Nat
        /\ g.shown \in Nat /\ g.done \subseteq Nat
    BY <1>2, <1>4, <1>5 DEF Typed
  <2>2. u \in Queue
    BY <1>3 DEF Updated
  <2> QED
    BY <1>2, <2>1, <2>2 DEF Typed
<1> HIDE DEF s, g, h, v
<1>8. KeySafe(u, j, g)
  <2>1. CASE j = k
    <3>1. KeySafe(u, k, g)
      BY <1>1, <1>2, <1>3, <1>4, <1>5, <1>7, <2>1, SafeTakes DEF v
    <3> QED
      BY <2>1, <3>1
  <2>2. CASE j # k
    <3>1. Later(g, h)
      BY <1>4, <1>5, <1>6, <2>2 DEF Later
    <3>2. j \in gone => j \in Pending(s) /\ g.lost
      <4>1. j \in gone => s.entry[j].ver \in dropped' /\ j \in Pending(s)
        BY <1>3 DEF Accept
      <4>2. j \in Pending(s) => s.entry[j].ver = h.latest
        BY <1>1 DEF KeySafe, Ascending
      <4>3. h.latest \in dropped' => g.lost
        BY <1>5, <2>2 DEF g, h, View
      <4> QED
        BY <4>1, <4>2, <4>3
    <3> QED
      BY <1>1, <1>2, <1>3, <1>5, <1>7, <2>2, <3>1, <3>2, SafeBeside
  <2> QED
    BY <2>1, <2>2
<1>9. Typed(u, g)
  BY <1>7 DEF Typed
<1> QED
  BY <1>3, <1>8, <1>9, SafeMoves DEF g

(* So does a step that only moves entries on.                              *)
LEMMA ContinueSafe ==
  ASSUME AloneInv, NEW p \in Procs, NEW j \in Keys, Continues(q'[p], q[p]),
         UNCHANGED <<visible, open, stored, version, faults, history>>
  PROVE  KeySafe(q'[p], j, View(p, j)')
<1> DEFINE h == View(p, j)
<1>1. View(p, j)' = h
  BY DEF View, history
<1>2. KeySafe(q[p], j, h) /\ Typed(q[p], h)
  BY ViewTyped DEF AloneInv
<1>3. PICK u : SameUpdates(u, q[p]) /\ Moved(q'[p], u)
  BY DEF Continues
<1> HIDE DEF h
<1>4. KeySafe(u, j, h)
  BY <1>2, <1>3, SafeSame
<1>5. Typed(u, h)
  BY <1>2, <1>3 DEF Typed, SameUpdates
<1> QED
  BY <1>1, <1>3, <1>4, <1>5, SafeMoves

(* So does a refusal.                                                      *)
LEMMA RefuseSafe ==
  ASSUME AloneInv, KeepInv', NEW p \in Procs, NEW k \in Keys, Refuse(p, k),
         NEW j \in Keys
  PROVE  KeySafe(q'[p], j, View(p, j)')
<1> DEFINE h == View(p, j)
           g == View(p, j)'
<1>1. KeepInv /\ KeySafe(q[p], j, h) /\ Typed(q[p], h) /\ q' = q
  BY ViewTyped DEF AloneInv, Refuse
<1>2. version \in Nat /\ version' = version + 1
  BY <1>1, Numbers DEF KeepInv, Refuse
<1>3. /\ g.stored = h.stored /\ g.done = h.done /\ g.latest = h.latest
      /\ g.version = version + 1 /\ h.version = version
      /\ g.shown = IF j = k THEN version + 1 ELSE h.shown
  BY <1>1, <1>2 DEF Refuse, Show, View, KeepInv, Histories
<1>4. h.lost => g.lost
  BY DEF Refuse, View
<1> HIDE DEF g, h
<1>5. Typed(q[p], g)
  BY <1>1, <1>2, <1>3 DEF Typed
<1>6. Later(g, h)
  <2>1. h.latest \in Nat /\ h.latest <= version
    BY <1>1, <1>3 DEF Typed, KeySafe, Ascending
  <2> QED
    BY <1>2, <1>3, <1>4, <2>1 DEF Later
<1> QED
  BY <1>1, <1>5, <1>6, SafeLater DEF g

(* So do the steps that leave the queues alone.                            *)
LEMMA RestSafe ==
  ASSUME AloneInv, NEW p \in Procs, NEW j \in Keys, q' = q,
         \/ \E k \in Keys : VisibleExpires(p, k)
         \/ Close(p) \/ Exit(p) \/ Restart(p)
  PROVE  KeySafe(q'[p], j, View(p, j)')
<1> DEFINE h == View(p, j)
           g == View(p, j)'
<1>1. KeepInv /\ KeySafe(q[p], j, h)
  BY DEF AloneInv
<1>2. UNCHANGED <<open, stored, version, faults, history>>
  BY DEF VisibleExpires, Close, Exit, Restart
<1>3. /\ g.stored = h.stored /\ g.done = h.done /\ g.latest = h.latest
      /\ g.version = h.version /\ g.lost = h.lost
  BY <1>2 DEF View, history
<1>4. \/ g.shown = h.shown
      \/ g.shown = 0 /\ j \notin Pending(q[p]) /\ j \notin ActiveKeys(q[p])
  <2>1. visible \in [Procs -> [Keys -> 0..MaxUpdates]]
    BY <1>1 DEF KeepInv, Histories
  <2>2. CASE \E k \in Keys : VisibleExpires(p, k)
    <3>1. PICK k \in Keys : VisibleExpires(p, k)
      BY <2>2
    <3>2. k \notin Pending(q[p]) /\ k \notin ActiveKeys(q[p])
      BY <3>1 DEF VisibleExpires, Pending
    <3>3. visible'[p][j] = IF j = k THEN 0 ELSE visible[p][j]
      BY <2>1, <3>1 DEF VisibleExpires
    <3> QED
      BY <3>2, <3>3 DEF View
  <2>3. CASE Exit(p)
    <3>1. Pending(q[p]) = {} /\ ActiveKeys(q[p]) = {}
      BY <2>3 DEF Exit, Idle, ActiveKeys
    <3>2. visible'[p][j] = 0
      BY <2>1, <2>3 DEF Exit
    <3> QED
      BY <3>1, <3>2 DEF View
  <2>4. CASE Close(p) \/ Restart(p)
    BY <2>4 DEF Close, Restart, View
  <2> QED
    BY <2>2, <2>3, <2>4
<1> HIDE DEF g, h
<1>5. Ascending(q[p], j, g) /\ Accounted(q[p], j, g)
  BY <1>1, <1>3 DEF KeySafe, Ascending, Accounted
<1>6. Shown(q[p], j, g)
  BY <1>1, <1>3, <1>4 DEF KeySafe, Shown
<1> QED
  BY <1>1, <1>3, <1>5, <1>6 DEF KeySafe, g

(* A write that has ended: stored, or given up.                            *)
LEMMA EndSafe ==
  ASSUME AloneInv, KeepInv', NEW p \in Procs, NEW w \in q[p].active,
         Write(p, w) \/ WriteFails(p, w), q'[p] = Settled(q[p], w),
         NEW j \in Keys
  PROVE  /\ KeySafe(q'[p], j, View(p, j)')
         /\ stored[j] <= stored'[j]
<1> DEFINE s == q[p]
           t == Without(s, w)
           h == View(p, j)
           g == View(p, j)'
<1>1. KeepInv /\ KeySafe(s, j, h) /\ Typed(s, h) /\ QueueInv(s)
  BY ViewTyped DEF AloneInv, KeepInv, ProcInv
<1>2. /\ QueueInv(t) /\ t.entry = s.entry /\ t.active = s.active \ {w}
      /\ Pending(t) = Pending(s) /\ Moved(q'[p], t)
  BY <1>1, WithoutKeeps, SettledKeeps
<1>3. /\ w.key \in Keys /\ w.ver \in Nat /\ w.waiters \subseteq Nat
      /\ \A x \in t.active : x.key # w.key
  <2>1. \A x \in s.active : x.key = w.key => x = w
    BY <1>1 DEF QueueInv, InOrder
  <2> QED
    BY <1>1, <1>2, <2>1, NumbersOf DEF Typed
<1>4. /\ g.latest = h.latest /\ g.version = h.version /\ g.shown = h.shown
  BY DEF Write, WriteFails, View
<1>5. \/ /\ g.lost = h.lost
         /\ g.stored = IF j = w.key THEN w.ver ELSE h.stored
         /\ g.done = IF j = w.key THEN h.done \cup w.waiters ELSE h.done
      \/ /\ g.stored = h.stored /\ g.done = h.done
         /\ g.lost <=> (h.lost \/ w.ver = h.latest)
  <2>1. CASE Write(p, w)
    <3>1. /\ stored'[j] = IF j = w.key THEN w.ver ELSE stored[j]
          /\ done'[j] = IF j = w.key THEN done[j] \cup w.waiters ELSE done[j]
          /\ latest' = latest /\ dropped' = dropped
      BY <1>1, <2>1 DEF Write, KeepInv, Histories
    <3> QED
      BY <3>1 DEF View
  <2>2. CASE WriteFails(p, w)
    <3>1. /\ stored' = stored /\ done' = done /\ latest' = latest
          /\ dropped' = dropped \cup {w.ver}
      BY <2>2 DEF WriteFails
    <3> QED
      BY <3>1 DEF View
  <2> QED
    BY <2>1, <2>2
<1>6. h.stored = stored[j] /\ g.stored = stored'[j]
  BY DEF View
<1> HIDE DEF s, t, g, h
<1>7. Typed(t, g) /\ Typed(t, h)
  BY <1>1, <1>2, <1>3, <1>4, <1>5 DEF Typed, QueueInv, WellFormed
<1>8. CASE j # w.key
  <2>1. KeySafe(t, j, h)
    <3>1. \A x \in s.active : x.key = j => x \in t.active
      BY <1>2, <1>8
    <3>2. t.active \subseteq s.active
      BY <1>2
    <3>3. Ascending(t, j, h) /\ Accounted(t, j, h)
      BY <1>1, <1>2, <3>1, <3>2 DEF KeySafe, Ascending, Accounted
    <3>4. Shown(t, j, h)
      BY <1>1, <1>2, <3>2 DEF KeySafe, Shown, ActiveKeys
    <3> QED
      BY <1>1, <3>3, <3>4 DEF KeySafe
  <2>2. Later(g, h)
    <3>1. h.version <= h.version
      BY <1>7 DEF Typed
    <3> QED
      BY <1>4, <1>5, <1>8, <3>1 DEF Later
  <2>3. KeySafe(t, j, g)
    BY <1>7, <2>1, <2>2, SafeLater
  <2>4. h.stored <= g.stored
    BY <1>5, <1>7, <1>8 DEF Typed
  <2> QED
    BY <1>2, <1>6, <1>7, <2>3, <2>4, SafeMoves DEF g
<1>9. CASE j = w.key
  <2>1. w \in s.active
    BY DEF s
  <2>2. /\ h.stored < w.ver /\ w.ver <= h.latest /\ h.latest <= h.version
        /\ \A v \in w.waiters : v <= w.ver
        /\ \A v \in h.done : v <= h.stored
        /\ j \in Pending(s) =>
             /\ s.entry[j].ver = h.latest /\ h.stored < h.latest
             /\ w.ver < h.latest /\ \A v \in s.entry[j].waiters : v <= h.latest
    BY <1>1, <1>9, <2>1 DEF KeySafe, Ascending
  <2>3. /\ h.stored \in Nat /\ h.latest \in Nat /\ h.done \subseteq Nat
        /\ w.ver \in Nat
    BY <1>3, <1>7 DEF Typed
  <2>4. h.stored <= g.stored /\ (g.stored = w.ver \/ g.stored = h.stored)
    BY <1>5, <1>9, <2>2, <2>3
  <2>5. \A v \in g.done : v <= g.stored
    <3>1. CASE g.stored = h.stored /\ g.done = h.done
      BY <2>2, <3>1
    <3>2. CASE g.stored = w.ver /\ g.done = h.done \cup w.waiters
      <4>1. \A v \in h.done : v \in Nat /\ v <= w.ver
        BY <2>2, <2>3
      <4> QED
        BY <2>2, <3>2, <4>1
    <3> QED
      BY <1>5, <1>9, <3>1, <3>2
  <2>6. \A x \in t.active : x.key # j
    BY <1>3, <1>9
  <2>7. Ascending(t, j, g)
    BY <1>2, <1>4, <2>2, <2>3, <2>4, <2>6 DEF Ascending
  <2>8. Accounted(t, j, g)
    <3>1. h.lost \/ h.stored = h.latest \/ j \in Pending(s) \/ w.ver = h.latest
      <4>1. \A x \in s.active : x.key = j => x = w
        BY <1>2, <2>6
      <4> QED
        BY <1>1, <4>1 DEF KeySafe, Accounted
    <3>2. h.stored # h.latest
      BY <2>2, <2>3
    <3> QED
      BY <1>2, <1>4, <1>5, <1>9, <3>1, <3>2 DEF Accounted
  <2>9. Shown(t, j, g)
    <3>1. j \in ActiveKeys(s)
      BY <1>9, <2>1 DEF ActiveKeys
    <3> QED
      BY <1>1, <1>4, <3>1 DEF KeySafe, Shown
  <2>10. KeySafe(t, j, g)
    BY <2>5, <2>7, <2>8, <2>9 DEF KeySafe
  <2> QED
    BY <1>2, <1>6, <1>7, <2>4, <2>10, SafeMoves DEF g
<1> QED
  BY <1>8, <1>9

(* So does a crash, and no stored position goes back.                      *)
LEMMA CrashSafe ==
  ASSUME AloneInv, KeepInv', NEW p \in Procs, Crash(p), NEW j \in Keys
  PROVE  /\ KeySafe(q'[p], j, View(p, j)')
         /\ stored[j] <= stored'[j]
<1> DEFINE s == q[p]
           h == View(p, j)
           g == View(p, j)'
<1>1. KeepInv /\ KeySafe(s, j, h) /\ Typed(s, h) /\ QueueInv(s)
  BY ViewTyped DEF AloneInv, KeepInv, ProcInv
<1>2. q'[p] = Empty
  BY <1>1, CrashKeeps
<1>3. PICK landed : Landed(p, landed)
  BY <1>1, CrashKeeps
<1>4. \/ \E w \in landed : w.key = j /\ stored'[j] = w.ver
      \/ (\A w \in landed : w.key # j) /\ stored'[j] = stored[j]
  BY <1>1, <1>3, LandedOne
<1>5. /\ g.latest = h.latest /\ g.version = h.version /\ g.done = h.done
      /\ g.shown = 0
  <2>1. visible' = [visible EXCEPT ![p] = [k \in Keys |-> 0]]
        /\ UNCHANGED <<version, latest, done>>
    BY DEF Crash
  <2>2. visible \in [Procs -> [Keys -> 0..MaxUpdates]]
    BY <1>1 DEF KeepInv, Histories
  <2>3. visible'[p][j] = 0
    BY <2>1, <2>2
  <2> QED
    BY <2>1, <2>3 DEF View
<1>6. /\ h.lost => g.lost
      /\ \A k \in Pending(s) : s.entry[k].ver = h.latest => g.lost
      /\ \A w \in s.active \ landed : w.ver = h.latest => g.lost
      /\ h.stored = stored[j] /\ g.stored = stored'[j]
      /\ landed \subseteq s.active
  <2>1. latest' = latest
    BY DEF Crash
  <2> QED
    BY <1>3, <2>1 DEF Landed, View
<1> HIDE DEF s, g, h
<1>7. /\ h.stored \in Nat /\ h.latest \in Nat /\ h.version \in Nat
      /\ h.done \subseteq Nat /\ \A w \in s.active : w.ver \in Nat
  BY <1>1, NumbersOf DEF Typed
<1>8. ASSUME NEW w \in s.active, w.key = j
      PROVE  h.stored < w.ver /\ w.ver <= h.latest
  BY <1>1, <1>8 DEF KeySafe, Ascending
<1>9. /\ h.stored <= h.latest /\ h.latest <= h.version
      /\ \A v \in h.done : v <= h.stored
  BY <1>1 DEF KeySafe, Ascending
<1>10. h.stored <= g.stored /\ g.stored <= g.latest /\ g.stored \in Nat
  BY <1>4, <1>5, <1>6, <1>7, <1>8, <1>9
<1>11. Pending(Empty) = {} /\ Empty.active = {}
  BY EmptyKeeps DEF Idle
<1>12. Accounted(Empty, j, g)
  <2>1. CASE h.lost
    BY <1>6, <2>1 DEF Accounted
  <2>2. CASE h.stored = h.latest
    <3>1. g.stored = g.latest
      BY <1>5, <1>7, <1>10, <2>2
    <3> QED
      BY <3>1 DEF Accounted
  <2>3. CASE j \in Pending(s)
    <3>1. s.entry[j].ver = h.latest
      BY <1>1, <2>3 DEF KeySafe, Ascending
    <3> QED
      BY <1>6, <2>3, <3>1 DEF Accounted
  <2>4. CASE \E w \in s.active : w.key = j /\ w.ver = h.latest
    <3>1. PICK w \in s.active : w.key = j /\ w.ver = h.latest
      BY <2>4
    <3>2. CASE w \in landed
      <4>1. \A x \in s.active : x.key = j => x = w
        BY <1>1, <3>1 DEF QueueInv, InOrder
      <4>2. stored'[j] = w.ver
        BY <1>4, <1>6, <3>1, <3>2, <4>1
      <4> QED
        BY <1>5, <1>6, <3>1, <4>2 DEF Accounted
    <3>3. CASE w \notin landed
      BY <1>6, <3>1, <3>3 DEF Accounted
    <3> QED
      BY <3>2, <3>3
  <2> QED
    BY <1>1, <2>1, <2>2, <2>3, <2>4 DEF KeySafe, Accounted
<1>13. Ascending(Empty, j, g)
  BY <1>5, <1>9, <1>10, <1>11 DEF Ascending
<1>14. Shown(Empty, j, g)
  BY <1>5, <1>11 DEF Shown, ActiveKeys
<1>15. \A v \in g.done : v <= g.stored
  <2>1. \A v \in h.done : v \in Nat
    BY <1>7
  <2> QED
    BY <1>5, <1>7, <1>9, <1>10, <2>1
<1> QED
  BY <1>2, <1>6, <1>10, <1>12, <1>13, <1>14, <1>15 DEF KeySafe, g

(* One process writes, as where cluster.ts has one worker.                 *)
Alone == \E p : Procs = {p}

(* All videos are safe at the start.                                       *)
LEMMA InitAlone == Init => AloneInv
<1> SUFFICES ASSUME Init
             PROVE  AloneInv
  OBVIOUS
<1>1. KeepInv
  BY InitKeeps
<1>2. ASSUME NEW p \in Procs, NEW k \in Keys
      PROVE  KeySafe(q[p], k, View(p, k))
  <2>1. Pending(q[p]) = {} /\ q[p].active = {}
    BY EmptyKeeps DEF Init, Idle
  <2>2. /\ View(p, k).stored = 0 /\ View(p, k).latest = 0
        /\ View(p, k).version = 0 /\ View(p, k).shown = 0
        /\ View(p, k).done = {}
    BY DEF Init, View
  <2>3. Ascending(q[p], k, View(p, k)) /\ Accounted(q[p], k, View(p, k))
    BY <2>1, <2>2 DEF Ascending, Accounted
  <2>4. Shown(q[p], k, View(p, k))
    BY <2>1, <2>2 DEF Shown, ActiveKeys
  <2> QED
    BY <2>2, <2>3, <2>4 DEF KeySafe
<1> QED
  BY <1>1, <1>2 DEF AloneInv

(* With one process they stay so, and no stored position goes back.        *)
LEMMA NextAlone ==
  ASSUME Alone, AloneInv, [Next]_vars
  PROVE  AloneInv' /\ \A k \in Keys : stored'[k] >= stored[k]
<1> DEFINE Kept(p) == \A j \in Keys : /\ KeySafe(q'[p], j, View(p, j)')
                                    /\ stored[j] <= stored'[j]
<1>1. KeepInv /\ KeepInv'
  BY NextKeeps DEF AloneInv
<1>2. \A j \in Keys : stored[j] \in Nat /\ stored[j] <= stored[j]
  BY <1>1, Numbers DEF KeepInv, Histories
<1>3. CASE UNCHANGED vars
  <2>1. UNCHANGED <<q, visible, stored, version, latest, done, dropped>>
    BY <1>3 DEF vars, history
  <2>2. \A p \in Procs, j \in Keys : View(p, j)' = View(p, j)
    BY <2>1 DEF View
  <2> QED
    BY <1>1, <1>2, <2>1, <2>2 DEF AloneInv
<1>4. CASE Next
  <2>1. PICK p \in Procs :
          \/ \E k \in Keys :
               \/ Refuse(p, k) \/ Progress(p, k) \/ Completion(p, k)
               \/ Fire(p, k) \/ VisibleExpires(p, k)
          \/ \E w \in q[p].active : Write(p, w) \/ WriteFails(p, w)
          \/ Close(p) \/ Flush(p) \/ Exit(p) \/ Crash(p) \/ Restart(p)
    BY <1>4 DEF Next
  <2>2. ASSUME NEW k \in Keys, Refuse(p, k)
        PROVE  Kept(p)
    <3>1. stored' = stored
      BY <2>2 DEF Refuse
    <3> QED
      BY <1>1, <1>2, <2>2, <3>1, RefuseSafe
  <2>3. ASSUME NEW k \in Keys, Progress(p, k)
        PROVE  Kept(p)
    <3>1. Accept(p, k) /\ Took(p, k, {}) /\ {} \in SUBSET {version + 1}
      BY <1>1, <2>3, ProgressKeeps DEF Progress
    <3>2. stored' = stored
      BY <3>1 DEF Accept
    <3> QED
      BY <1>1, <1>2, <3>1, <3>2, AcceptSafe
  <2>4. ASSUME NEW k \in Keys, Completion(p, k)
        PROVE  Kept(p)
    <3>1. /\ Accept(p, k) /\ Took(p, k, {version + 1})
          /\ {version + 1} \in SUBSET {version + 1}
      BY <1>1, <2>4, CompletionKeeps DEF Completion
    <3>2. stored' = stored
      BY <3>1 DEF Accept
    <3> QED
      BY <1>1, <1>2, <3>1, <3>2, AcceptSafe
  <2>5. ASSUME NEW k \in Keys, Fire(p, k)
        PROVE  Kept(p)
    <3>1. /\ Continues(q'[p], q[p])
          /\ UNCHANGED <<visible, open, stored, version, faults, history>>
      BY <1>1, <2>5, FireKeeps DEF Fire
    <3> QED
      BY <1>2, <3>1, ContinueSafe
  <2>6. ASSUME \/ \E k \in Keys : VisibleExpires(p, k)
               \/ Close(p) \/ Exit(p) \/ Restart(p)
        PROVE  Kept(p)
    <3>1. q' = q /\ stored' = stored
      BY <2>6 DEF VisibleExpires, Close, Exit, Restart
    <3> QED
      BY <1>2, <2>6, <3>1, RestSafe
  <2>7. ASSUME NEW w \in q[p].active, Write(p, w) \/ WriteFails(p, w)
        PROVE  Kept(p)
    BY <1>1, <2>7, EndKeeps, EndSafe
  <2>8. ASSUME Flush(p)
        PROVE  Kept(p)
    <3>1. /\ Continues(q'[p], q[p])
          /\ UNCHANGED <<visible, open, stored, version, faults, history>>
      BY <1>1, <2>8, FlushKeeps DEF Flush
    <3> QED
      BY <1>2, <3>1, ContinueSafe
  <2>9. ASSUME Crash(p)
        PROVE  Kept(p)
    BY <1>1, <2>9, CrashSafe
  <2> HIDE DEF Kept
  <2>10. Kept(p)
    BY <2>1, <2>2, <2>3, <2>4, <2>5, <2>6, <2>7, <2>8, <2>9
  <2>11. \A x \in Procs : x = p
    BY DEF Alone
  <2>12. \A k \in Keys : stored[k] \in Nat /\ stored'[k] \in Nat
    BY <1>1 DEF KeepInv, Histories
  <2> QED
    BY <1>1, <2>10, <2>11, <2>12 DEF AloneInv, Kept
<1> QED
  BY <1>3, <1>4

(* Hence nothing accepted is lost.                                         *)
LEMMA NothingIsLost ==
  ASSUME Alone, AloneInv
  PROVE  NothingLost
<1>1. PICK p : Procs = {p}
  BY DEF Alone
<1>2. KeepInv /\ p \in Procs /\ \A x \in Procs : x = p
  BY <1>1 DEF AloneInv
<1>3. ASSUME NEW k \in Keys
      PROVE  /\ stored[k] \in Nat /\ latest[k] \in Nat /\ done[k] \subseteq Nat
             /\ \A v \in done[k] : v <= stored[k]
             /\ \/ latest[k] \in dropped \/ stored[k] = latest[k]
                \/ k \in Pending(q[p]) \/ k \in ActiveKeys(q[p])
             /\ visible[p][k] = 0 => k \notin Pending(q[p])
                                    /\ k \notin ActiveKeys(q[p])
             /\ visible[p][k] # 0 => latest[k] <= visible[p][k]
             /\ visible[p][k] \in Nat
  <2> DEFINE h == View(p, k)
  <2>1. KeySafe(q[p], k, h) /\ Typed(q[p], h)
    BY <1>2, ViewTyped DEF AloneInv
  <2>2. /\ h.stored = stored[k] /\ h.latest = latest[k] /\ h.done = done[k]
        /\ h.shown = visible[p][k] /\ (h.lost <=> latest[k] \in dropped)
    BY DEF View
  <2> HIDE DEF h
  <2>3. (\E w \in q[p].active : w.key = k /\ w.ver = h.latest)
          => k \in ActiveKeys(q[p])
    BY DEF ActiveKeys
  <2> QED
    BY <2>1, <2>2, <2>3 DEF KeySafe, Typed, Accounted, Shown
<1>4. CompletionDurable
  <2>1. ASSUME NEW k \in Keys, NEW v \in done[k]
        PROVE  stored[k] >= v
    <3>1. v \in Nat /\ stored[k] \in Nat /\ v <= stored[k]
      BY <1>3
    <3> QED
      BY <3>1
  <2> QED
    BY <2>1 DEF CompletionDurable
<1>5. RestsOnNewest
  <2>1. Idle(q[p]) => Pending(q[p]) = {} /\ ActiveKeys(q[p]) = {}
    BY DEF Idle, ActiveKeys
  <2> QED
    BY <1>2, <1>3, <2>1 DEF RestsOnNewest
<1>6. ReadAfterWrite
  <2>1. ASSUME NEW k \in Keys
        PROVE  latest[k] \in dropped \/ Read(p, k) >= latest[k]
    BY <1>3 DEF Read
  <2> QED
    BY <1>2, <2>1 DEF ReadAfterWrite
<1> QED
  BY <1>4, <1>5, <1>6 DEF NothingLost

(* With one process, completions that were answered stay, the database     *)
(* rests on the newest update that was not given up, and who reads sees    *)
(* what was written (server.ts 397-606, 768-818).                          *)
THEOREM NothingEverLost == ASSUME Alone
                           PROVE  Spec => []NothingLost
<1>1. AloneInv /\ [Next]_vars => AloneInv'
  BY NextAlone
<1>2. AloneInv => NothingLost
  BY NothingIsLost
<1> QED
  BY InitAlone, <1>1, <1>2, PTL DEF Spec

(* With one process no write replaces a newer position with an older one,  *)
(* whatever the order in which writes end, fail or are cut off by a crash  *)
(* (server.ts 419-453).                                                    *)
THEOREM NewestAlwaysWins == ASSUME Alone
                            PROVE  Spec => NewestWins
<1>1. AloneInv /\ [Next]_vars => AloneInv'
  BY NextAlone
<1>2. AloneInv /\ [Next]_vars =>
        [\A k \in Keys : stored'[k] >= stored[k]]_vars
  BY NextAlone
<1> QED
  BY InitAlone, <1>1, <1>2, PTL DEF Spec, NewestWins
=============================================================================
