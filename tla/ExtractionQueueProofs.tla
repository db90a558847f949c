------------------------ MODULE ExtractionQueueProofs ------------------------
(***************************************************************************)
(* What holds of the extraction queue for every number of videos, web      *)
(* processes, faults and every limit: of the leases with and without the   *)
(* extraction lock, of the jobs with it.                                   *)
(*                                                                         *)
(* Capped is inductive together with the types: the script compares and    *)
(* adds in one step, and nothing else adds.                                *)
(*                                                                         *)
(* NoLeakedLease is not inductive: a call that merely waits for a video    *)
(* need not give its lease back, so when it leaves, something else must    *)
(* answer for the lease.  Answered says what: a job that will run, a       *)
(* command already sent, a call that holds the lease, or a fault.          *)
(*                                                                         *)
(* That the jobs keep to their limits follows from each having its leases, *)
(* which in turn needs to know who may be giving one back (Senders), what  *)
(* a producer relies on between its lease and its job (Carried), and that  *)
(* a job is raised before its background lease goes (Raised).              *)
(***************************************************************************)
EXTENDS ExtractionQueue, FiniteSetTheorems, SequenceTheorems, TLAPS

-----------------------------------------------------------------------------
(* The admission leases of one queue, whoever takes and returns them.      *)
CapInv == StoreTypeOK /\ Capped

(* Taking members away keeps a set of jobs under its cap.                  *)
LEMMA SmallerUnderCap ==
  ASSUME NEW S \in SUBSET Jobs, NEW T \in SUBSET S, NEW cap \in Nat,
         Cardinality(S) <= cap
  PROVE  Cardinality(T) <= cap
<1>1. IsFiniteSet(S)
  BY QueueAssumption, FS_Subset
<1>2. IsFiniteSet(T) /\ Cardinality(T) <= Cardinality(S)
  BY <1>1, FS_Subset
<1>3. Cardinality(S) \in Nat /\ Cardinality(T) \in Nat
  BY <1>1, <1>2, FS_CardinalityType
<1> QED BY <1>2, <1>3

(* One job added to a set with room keeps it under its cap.                *)
LEMMA OneMoreUnderCap ==
  ASSUME NEW S \in SUBSET Jobs, NEW j \in Jobs, NEW cap \in Nat,
         Cardinality(S) < cap
  PROVE  Cardinality(S \cup {j}) <= cap
<1>1. IsFiniteSet(S)
  BY QueueAssumption, FS_Subset
<1>2. Cardinality(S \cup {j}) =
        IF j \in S THEN Cardinality(S) ELSE Cardinality(S) + 1
  BY <1>1, FS_AddElement
<1>3. Cardinality(S) \in Nat
  BY <1>1, FS_CardinalityType
<1> QED BY <1>2, <1>3

(* Empty sets are within their limits.                                     *)
LEMMA CapInit == StoreInit => CapInv
<1> SUFFICES ASSUME StoreInit PROVE CapInv
  OBVIOUS
<1>1. StoreTypeOK
  BY DEF StoreInit, StoreTypeOK, Keys
<1>2. Cardinality({}) = 0
  BY FS_EmptySet
<1>3. Capped
  BY <1>2, QueueAssumption DEF StoreInit, Capped
<1> QED BY <1>1, <1>3 DEF CapInv

(* The script that finds its job admitted changes no membership.           *)
LEMMA CapJoin ==
  ASSUME CapInv, NEW j \in Jobs, NEW o \in Owners \cup {NoOwner}, Join(j, o)
  PROVE  CapInv'
<1>1. StoreTypeOK'
  BY DEF CapInv, StoreTypeOK, Join
<1>2. Capped'
  BY DEF CapInv, Capped, Join
<1> QED BY <1>1, <1>2 DEF CapInv

(* The script that admits a job has compared every set it adds to.         *)
LEMMA CapTake ==
  ASSUME CapInv, NEW j \in Jobs, NEW bg \in BOOLEAN,
         NEW o \in Owners \cup {NoOwner}, Take(j, bg, o)
  PROVE  CapInv'
<1>1. StoreTypeOK'
  <2>1. global' \subseteq Jobs /\ background' \subseteq Jobs
    BY DEF CapInv, StoreTypeOK, Take
  <2>2. owned' \in [Owners -> SUBSET Jobs]
    BY DEF CapInv, StoreTypeOK, Take
  <2>3. unrenewed' \in [Owners -> SUBSET Jobs]
    BY DEF CapInv, StoreTypeOK, Take
  <2>4. by' \in [Jobs -> Owners \cup {NoOwner}]
    BY DEF CapInv, StoreTypeOK, Take
  <2>5. sent' \in [Clients -> Seq(Keys \X Jobs)]
    BY DEF CapInv, StoreTypeOK, Take
  <2> QED BY <2>1, <2>2, <2>3, <2>4, <2>5 DEF StoreTypeOK
<1>2. Cardinality(global') <= MaxJobs
  <2>1. global' = global \cup {j} /\ Cardinality(global) < MaxJobs
    BY DEF Take, HasRoom
  <2>2. global \in SUBSET Jobs /\ MaxJobs \in Nat
    BY QueueAssumption DEF CapInv, StoreTypeOK
  <2> QED BY <2>1, <2>2, OneMoreUnderCap
<1>3. Cardinality(background') <= MaxBackground
  <2>1. background \in SUBSET Jobs /\ MaxBackground \in Nat
    BY QueueAssumption DEF CapInv, StoreTypeOK
  <2>2. CASE bg
    <3>1. background' = background \cup {j}
          /\ Cardinality(background) < MaxBackground
      BY <2>2 DEF Take, HasRoom
    <3> QED BY <2>1, <3>1, OneMoreUnderCap
  <2>3. CASE ~bg
    BY <2>3 DEF Take, CapInv, Capped
  <2> QED BY <2>2, <2>3
<1>4. ASSUME NEW p \in Owners PROVE Cardinality(owned'[p]) <= MaxOwner
  <2>1. owned[p] \in SUBSET Jobs /\ MaxOwner \in Nat
    BY QueueAssumption DEF CapInv, StoreTypeOK
  <2>2. CASE p = o
    <3>1. owned'[p] = owned[p] \cup {j}
      BY <2>2 DEF Take
    <3>2. Cardinality(owned[p]) < MaxOwner
      BY <2>2, QueueAssumption DEF Take, HasRoom
    <3> QED BY <2>1, <3>1, <3>2, OneMoreUnderCap
  <2>3. CASE p # o
    BY <2>3 DEF Take, CapInv, Capped
  <2> QED BY <2>2, <2>3
<1> QED BY <1>1, <1>2, <1>3, <1>4 DEF CapInv, Capped

(* Steps that only take members away.                                      *)
LEMMA CapShrink ==
  ASSUME CapInv, StoreTypeOK',
         global' \subseteq global, background' \subseteq background,
         \A o \in Owners : owned'[o] \subseteq owned[o]
  PROVE  CapInv'
<1>1. Cardinality(global') <= MaxJobs
  <2>1. global \in SUBSET Jobs /\ global' \in SUBSET global
        /\ MaxJobs \in Nat /\ Cardinality(global) <= MaxJobs
    BY QueueAssumption DEF CapInv, StoreTypeOK, Capped
  <2> QED BY <2>1, SmallerUnderCap
<1>2. Cardinality(background') <= MaxBackground
  <2>1. background \in SUBSET Jobs /\ background' \in SUBSET background
        /\ MaxBackground \in Nat /\ Cardinality(background) <= MaxBackground
    BY QueueAssumption DEF CapInv, StoreTypeOK, Capped
  <2> QED BY <2>1, SmallerUnderCap
<1>3. ASSUME NEW p \in Owners PROVE Cardinality(owned'[p]) <= MaxOwner
  <2>1. owned[p] \in SUBSET Jobs /\ owned'[p] \in SUBSET owned[p]
        /\ MaxOwner \in Nat /\ Cardinality(owned[p]) <= MaxOwner
    BY QueueAssumption DEF CapInv, StoreTypeOK, Capped
  <2> QED BY <2>1, SmallerUnderCap
<1> QED BY <1>1, <1>2, <1>3 DEF CapInv, Capped

(* Putting the commands of a release on their way takes no slot.           *)
LEMMA CapRelease ==
  ASSUME CapInv, NEW c \in Clients, NEW j \in Jobs,
         NEW o \in Owners \cup {NoOwner}, ReleaseQueueJob(c, j, o)
  PROVE  CapInv'
<1>1. Commands(j, o) \in Seq(Keys \X Jobs)
  BY DEF Commands, Keys
<1>2. sent' \in [Clients -> Seq(Keys \X Jobs)]
  <2>1. sent[c] \in Seq(Keys \X Jobs)
    BY DEF CapInv, StoreTypeOK
  <2>2. sent[c] \o Commands(j, o) \in Seq(Keys \X Jobs)
    BY <1>1, <2>1
  <2>3. sent' = [sent EXCEPT ![c] = @ \o Commands(j, o)]
    BY DEF ReleaseQueueJob
  <2> QED BY <2>2, <2>3 DEF CapInv, StoreTypeOK
<1>3. UNCHANGED leases
  BY DEF ReleaseQueueJob
<1>4. StoreTypeOK'
  BY <1>2, <1>3 DEF leases, CapInv, StoreTypeOK
<1> QED BY <1>3, <1>4 DEF leases, CapInv, Capped

(* A removal that arrives takes no slot.                                   *)
LEMMA CapZrem ==
  ASSUME CapInv, NEW c \in Clients, Zrem(c)
  PROVE  CapInv'
<1> DEFINE k == Head(sent[c])[1]
           j == Head(sent[c])[2]
<1>1. sent[c] \in Seq(Keys \X Jobs) /\ sent[c] # <<>>
  BY DEF CapInv, StoreTypeOK, Zrem
<1>2. Head(sent[c]) \in Keys \X Jobs /\ Tail(sent[c]) \in Seq(Keys \X Jobs)
  BY <1>1
<1>3. j \in Jobs
  BY <1>2
<1>4. Without(k, j)
  BY DEF Zrem
<1> HIDE DEF k, j
<1>5. sent' \in [Clients -> Seq(Keys \X Jobs)]
  BY <1>2 DEF Zrem, CapInv, StoreTypeOK
<1>6. global' \subseteq global /\ background' \subseteq background
  BY <1>4 DEF Without
<1>7. /\ owned' \in [Owners -> SUBSET Jobs]
      /\ unrenewed' \in [Owners -> SUBSET Jobs]
      /\ \A o \in Owners : owned'[o] \subseteq owned[o]
  BY <1>4 DEF Without, CapInv, StoreTypeOK
<1>8. by' \in [Jobs -> Owners \cup {NoOwner}]
  BY <1>3, <1>4 DEF Without, CapInv, StoreTypeOK
<1>9. StoreTypeOK'
  BY <1>5, <1>6, <1>7, <1>8 DEF CapInv, StoreTypeOK
<1> QED BY <1>6, <1>7, <1>9, CapShrink

(* Nor does the removal of an expired member.                              *)
LEMMA CapLapse ==
  ASSUME CapInv, NEW j \in Jobs, Lapse(j)
  PROVE  CapInv'
<1>1. global' \subseteq global /\ background' \subseteq background
  BY DEF Lapse
<1>2. \A o \in Owners : owned'[o] \subseteq owned[o]
  BY DEF Lapse, CapInv, StoreTypeOK
<1>3. StoreTypeOK'
  BY DEF Lapse, CapInv, StoreTypeOK
<1> QED BY <1>1, <1>2, <1>3, CapShrink

(* Nor that of a member whose owner's set was not renewed.                 *)
LEMMA CapLapseUnrenewed ==
  ASSUME CapInv, NEW o \in Owners, NEW j \in Jobs, LapseUnrenewed(o, j)
  PROVE  CapInv'
<1>1. global' \subseteq global /\ background' \subseteq background
  BY DEF LapseUnrenewed
<1>2. \A p \in Owners : owned'[p] \subseteq owned[p]
  BY DEF LapseUnrenewed, CapInv, StoreTypeOK
<1>3. StoreTypeOK'
  BY DEF LapseUnrenewed, CapInv, StoreTypeOK
<1> QED BY <1>1, <1>2, <1>3, CapShrink

(* Every step on the store stays within the limits.                        *)
LEMMA CapStep == CapInv /\ [StoreNext]_store => CapInv'
<1> SUFFICES ASSUME CapInv, [StoreNext]_store PROVE CapInv'
  OBVIOUS
<1>1. ASSUME NEW j \in Jobs, NEW bg \in BOOLEAN, NEW o \in Requesters,
             Join(j, o) \/ Take(j, bg, o)
      PROVE  CapInv'
  <2>1. o \in Owners \cup {NoOwner}
    BY DEF Requesters
  <2> QED BY <1>1, <2>1, CapJoin, CapTake
<1>2. ASSUME NEW c \in Clients, NEW j \in Jobs, ReleaseQueueJob(c, j, by[j])
      PROVE  CapInv'
  <2>1. by[j] \in Owners \cup {NoOwner}
    BY DEF CapInv, StoreTypeOK
  <2> QED BY <1>2, <2>1, CapRelease
<1>3. ASSUME NEW c \in Clients, Zrem(c) PROVE CapInv'
  BY <1>3, CapZrem
<1>4. ASSUME NEW j \in Jobs, Lapse(j) PROVE CapInv'
  BY <1>4, CapLapse
<1>5. ASSUME NEW j \in Jobs, NEW o \in Owners, LapseUnrenewed(o, j)
      PROVE  CapInv'
  BY <1>5, CapLapseUnrenewed
<1>6. CASE UNCHANGED store
  BY <1>6 DEF store, leases, CapInv, StoreTypeOK, Capped
<1> QED BY <1>1, <1>2, <1>3, <1>4, <1>5, <1>6 DEF StoreNext

(* The variables keep their types: the commands in flight name keys and    *)
(* jobs of this queue only.                                                *)
THEOREM StoreTypeCorrect == StoreSpec => []StoreTypeOK
<1>1. StoreInit => CapInv
  BY CapInit
<1>2. CapInv /\ [StoreNext]_store => CapInv'
  BY CapStep
<1>3. CapInv => StoreTypeOK
  BY DEF CapInv
<1> QED BY <1>1, <1>2, <1>3, PTL DEF StoreSpec

(* However many jobs, owners and clients there are, and whatever lapses,   *)
(* joins and half-executed releases come between, reserveQueueJob never    *)
(* admits past the limit of the queue, of background work or of an owner.  *)
THEOREM AdmissionCapped == StoreSpec => []Capped
<1>1. StoreInit => CapInv
  BY CapInit
<1>2. CapInv /\ [StoreNext]_store => CapInv'
  BY CapStep
<1>3. CapInv => Capped
  BY DEF CapInv
<1> QED BY <1>1, <1>2, <1>3, PTL DEF StoreSpec

-----------------------------------------------------------------------------
(* The calls, the jobs and the extraction lock.                            *)
(* The call took the lease and has not added the job yet, or waits for a   *)
(* job that has given its lease back before this one was taken.            *)
Holds(p, j) ==
  /\ want[p] = j
  /\ \/ pc[p] \in {"lookup", "add", "failed"} /\ verdict[p] = "reserved"
     \/ /\ pc[p] \in {"promote", "unback", "wait"}
        /\ state[j] \in {"ending", "done"}

Covered(j) ==
  \/ Live(j) \/ InFlight("global", j) \/ j \in leaked
  \/ \E p \in Producers : Holds(p, j)

Answered == \A j \in global : Covered(j)

Wanted ==
  /\ \A p \in Producers : pc[p] # "idle" => want[p] \in Jobs
  /\ click.step # "no" => click.job \in Jobs

-----------------------------------------------------------------------------
(* Commands in flight                                                      *)
LEMMA AppendKeeps ==
  ASSUME CapInv, NEW c \in Clients, NEW t \in Seq(Keys \X Jobs),
         sent' = [sent EXCEPT ![c] = @ \o t],
         NEW k, NEW j, InFlight(k, j)
  PROVE  InFlight(k, j)'
<1>1. PICK d \in Clients : \E i \in DOMAIN sent[d] : sent[d][i] = <<k, j>>
  BY DEF InFlight
<1>2. PICK i \in DOMAIN sent[d] : sent[d][i] = <<k, j>>
  BY <1>1
<1>3. sent[d] \in Seq(Keys \X Jobs)
  BY DEF CapInv, StoreTypeOK
<1>4. i \in DOMAIN sent'[d] /\ sent'[d][i] = <<k, j>>
  <2>1. CASE d = c
    <3>1. sent'[d] = sent[d] \o t
      BY <2>1 DEF CapInv, StoreTypeOK
    <3> QED BY <1>2, <1>3, <3>1
  <2>2. CASE d # c
    <3>1. sent'[d] = sent[d]
      BY <2>2 DEF CapInv, StoreTypeOK
    <3> QED BY <1>2, <3>1
  <2> QED BY <2>1, <2>2
<1> QED BY <1>4 DEF InFlight

(* A release without an owner is two commands, the global one first.       *)
LEMMA CommandsType ==
  ASSUME NEW j \in Jobs
  PROVE  /\ Commands(j, NoOwner) \in Seq(Keys \X Jobs)
         /\ Len(Commands(j, NoOwner)) = 2
         /\ Commands(j, NoOwner)[1] = <<"global", j>>
<1> QED BY DEF Commands, Keys

(* The first of two commands appended is where the pipe ended.             *)
LEMMA FirstAppended ==
  ASSUME NEW S, NEW s \in Seq(S), NEW t \in Seq(S), Len(t) = 2
  PROVE  /\ Len(s) + 1 \in DOMAIN (s \o t)
         /\ (s \o t)[Len(s) + 1] = t[1]
<1>1. Len(s) \in Nat
  OBVIOUS
<1>2. /\ s \o t \in Seq(S)
      /\ Len(s \o t) = Len(s) + Len(t)
      /\ \A i \in 1 .. Len(s) + Len(t) :
           (s \o t)[i] = IF i <= Len(s) THEN s[i] ELSE t[i - Len(s)]
  BY ConcatProperties
<1>3. DOMAIN (s \o t) = 1 .. Len(s) + 2
  BY <1>1, <1>2
<1>4. Len(s) + 1 \in 1 .. Len(s) + 2 /\ ~(Len(s) + 1 <= Len(s))
  BY <1>1
<1>5. Len(s) + 1 - Len(s) = 1
  BY <1>1
<1> QED BY <1>2, <1>3, <1>4, <1>5

(* A release leaves its global command in flight and removes none.         *)
LEMMA ReleaseSends ==
  ASSUME CapInv, NEW c \in Clients, NEW j \in Jobs,
         ReleaseQueueJob(c, j, NoOwner)
  PROVE  /\ InFlight("global", j)'
         /\ \A i \in Jobs : InFlight("global", i) => InFlight("global", i)'
         /\ UNCHANGED leases
         /\ CapInv'
<1> DEFINE t == Commands(j, NoOwner)
<1>1. t \in Seq(Keys \X Jobs) /\ Len(t) = 2 /\ t[1] = <<"global", j>>
  BY CommandsType
<1>2. sent' = [sent EXCEPT ![c] = @ \o t]
  BY DEF ReleaseQueueJob
<1> HIDE DEF t
<1>3. sent[c] \in Seq(Keys \X Jobs) /\ sent'[c] = sent[c] \o t
  BY <1>2 DEF CapInv, StoreTypeOK
<1>4. Len(sent[c]) + 1 \in DOMAIN sent'[c]
      /\ sent'[c][Len(sent[c]) + 1] = t[1]
  BY <1>1, <1>3, FirstAppended
<1>5. InFlight("global", j)'
  BY <1>1, <1>4 DEF InFlight
<1>6. ASSUME NEW i \in Jobs, InFlight("global", i)
      PROVE  InFlight("global", i)'
  BY <1>1, <1>2, <1>6, AppendKeeps
<1>7. UNCHANGED leases
  BY DEF ReleaseQueueJob
<1>8. CapInv'
  BY CapRelease
<1> QED BY <1>5, <1>6, <1>7, <1>8

(* A command that is executed either was for another lease, or the lease   *)
(* is gone.                                                                *)
LEMMA ZremKeeps ==
  ASSUME CapInv, NEW c \in Clients, Zrem(c),
         NEW j \in global', InFlight("global", j)
  PROVE  InFlight("global", j)'
<1>1. PICK d \in Clients :
             \E i \in DOMAIN sent[d] : sent[d][i] = <<"global", j>>
  BY DEF InFlight
<1>2. PICK i \in DOMAIN sent[d] : sent[d][i] = <<"global", j>>
  BY <1>1
<1>3. sent[d] \in Seq(Keys \X Jobs)
  BY DEF CapInv, StoreTypeOK
<1>4. CASE d # c
  <2>1. sent'[d] = sent[d]
    BY <1>4 DEF Zrem, CapInv, StoreTypeOK
  <2> QED BY <1>2, <2>1 DEF InFlight
<1>5. CASE d = c
  <2>1. sent'[c] = Tail(sent[c]) /\ sent[c] # <<>>
    BY DEF Zrem, CapInv, StoreTypeOK
  <2>2. i # 1
    <3>1. SUFFICES ASSUME i = 1 PROVE FALSE
      OBVIOUS
    <3>2. Head(sent[c]) = <<"global", j>>
      BY <1>2, <1>3, <1>5, <2>1, <3>1
    <3>3. Head(sent[c])[1] = "global" /\ Head(sent[c])[2] = j
      BY <3>2
    <3>4. global' = global \ {j}
      BY <3>3 DEF Zrem, Without
    <3> QED BY <3>4
  <2>3. i - 1 \in DOMAIN sent'[c] /\ sent'[c][i - 1] = sent[c][i]
    BY <1>2, <1>3, <1>5, <2>1, <2>2
  <2> QED BY <1>2, <1>5, <2>3 DEF InFlight
<1> QED BY <1>4, <1>5

-----------------------------------------------------------------------------
(* The queue and its callers: types                                        *)
Types ==
  /\ JobsTypeOK /\ CallsTypeOK /\ ClickTypeOK /\ Wanted
  /\ leaked \subseteq Jobs

IInv == CapInv /\ Types /\ Answered

(* The types hold at the start.                                            *)
LEMMA TypesInit == Init => Types
<1> QED BY ProducerAssumption
    DEF Init, Types, JobsTypeOK, CallsTypeOK, ClickTypeOK, Wanted, NoClick

(* Every step keeps the types.                                             *)
LEMMA TypesStep == Types /\ [Next]_vars => Types'
<1> SUFFICES ASSUME Types, [Next]_vars PROVE Types'
  OBVIOUS
<1> USE ProducerAssumption DEF Types, JobsTypeOK, CallsTypeOK, ClickTypeOK,
                               Wanted, jobs, calls
<1>1. ASSUME NEW p \in Producers, Request(p) PROVE Types'
  BY <1>1 DEF Request, At, Go, Admit
<1>2. ASSUME NEW p \in Producers, Retry(p) PROVE Types'
  BY <1>2 DEF Retry, At, Go, Admit, Leave, Forget
<1>3. ASSUME NEW p \in Producers, ReserveTimesOut(p) PROVE Types'
  BY <1>3 DEF ReserveTimesOut, At, Go, Leave, Forget
<1>4. ASSUME NEW p \in Producers, PruneRemove(p) PROVE Types'
  BY <1>4 DEF PruneRemove, At, Go, Stay
<1>5. ASSUME NEW p \in Producers, PruneFindsNone(p) PROVE Types'
  BY <1>5 DEF PruneFindsNone, At, Go, Leave, Forget
<1>6. ASSUME NEW p \in Producers, PruneEnd(p) PROVE Types'
  BY <1>6 DEF PruneEnd, At, Go, Stay
<1>7. ASSUME NEW p \in Producers, Lookup(p) PROVE Types'
  BY <1>7 DEF Lookup, At, Go, Stay, Await, Forget
<1>8. ASSUME NEW p \in Producers, Add(p) PROVE Types'
  BY <1>8 DEF Add, At, Go, Await, Forget, AddJob
<1>9. ASSUME NEW p \in Producers, AddFails(p) PROVE Types'
  BY <1>9 DEF AddFails, At, Go, Stay
<1>10. ASSUME NEW p \in Producers, AfterFailedAdd(p) PROVE Types'
  BY <1>10 DEF AfterFailedAdd, At, Go, Await, Leave, Forget
<1>11. ASSUME NEW p \in Producers, Promote(p) PROVE Types'
  BY <1>11 DEF Promote, At, Go, Await, Forget, Raise
<1>12. ASSUME NEW p \in Producers, Unback(p) PROVE Types'
  BY <1>12 DEF Unback, At, Go, Await, Forget
<1>13. ASSUME NEW p \in Producers, Finished(p) PROVE Types'
  BY <1>13 DEF Finished, At, Go, Await, Forget
<1>14. ASSUME NEW p \in Producers, Released(p) PROVE Types'
  BY <1>14 DEF Released, At, Go, Leave, Forget
<1>15. ASSUME NEW p \in Producers, Deadline(p) PROVE Types'
  BY <1>15 DEF Deadline, At, Go, Leave, Forget
<1>16. ASSUME NEW j \in Jobs, Click(j) PROVE Types'
  BY <1>16 DEF Click, NoClick
<1>17. ASSUME NEW j \in Jobs, Claim(j) PROVE Types'
  BY <1>17 DEF Claim
<1>18. ASSUME NEW j \in Jobs, Evict(j) PROVE Types'
  BY <1>18 DEF Evict
<1>19. ASSUME NEW j \in Jobs, LeaseLapses(j) PROVE Types'
  BY <1>19 DEF LeaseLapses
<1>20. ASSUME NEW c \in Clients, Command(c) PROVE Types'
  BY <1>20 DEF Command
<1>21. CASE ClickPromote
  BY <1>21 DEF ClickPromote, Raise
<1>22. CASE ClickUnback
  BY <1>22 DEF ClickUnback
<1>23. CASE ViewerLeaves
  BY <1>23 DEF ViewerLeaves, NoClick
<1>24. CASE WorkerReleases
  BY <1>24 DEF WorkerReleases
<1>25. CASE WorkerCompletes
  BY <1>25 DEF WorkerCompletes
<1>26. CASE WorkerDies
  BY <1>26 DEF WorkerDies
<1>27. CASE UNCHANGED vars
  BY <1>27 DEF vars
<1> QED BY <1>1, <1>2, <1>3, <1>4, <1>5, <1>6, <1>7, <1>8, <1>9, <1>10,
           <1>11, <1>12, <1>13, <1>14, <1>15, <1>16, <1>17, <1>18, <1>19,
           <1>20, <1>21, <1>22, <1>23, <1>24, <1>25, <1>26, <1>27
        DEF Next, ProducerStep, JobStep, ViewerStep

-----------------------------------------------------------------------------
(* The admission leases: every step is a step of the store, or none        *)
LEMMA CapSame == CapInv /\ UNCHANGED store => CapInv'
<1> QED BY DEF CapInv, StoreTypeOK, Capped, store, leases

(* Taking a job out of the background takes no slot.                       *)
LEMMA CapUnback ==
  ASSUME CapInv, NEW j \in Jobs, background' = background \ {j},
         UNCHANGED <<global, owned, unrenewed, by, sent>>
  PROVE  CapInv'
<1>1. StoreTypeOK'
  BY DEF CapInv, StoreTypeOK
<1>2. /\ global' \subseteq global /\ background' \subseteq background
      /\ \A o \in Owners : owned'[o] \subseteq owned[o]
  OBVIOUS
<1> QED BY <1>1, <1>2, CapShrink

(* Every step of the queue stays within the limits.                        *)
LEMMA CapQueueStep == CapInv /\ Types /\ [Next]_vars => CapInv'
<1> SUFFICES ASSUME CapInv, Types, [Next]_vars PROVE CapInv'
  OBVIOUS
<1>a. Clients = Producers \cup {Worker}
  BY ProducerAssumption
<1>b. \A p \in Producers : pc[p] # "idle" => want[p] \in Jobs
  BY DEF Types, Wanted
<1>1. ASSUME NEW p \in Producers, Request(p) PROVE CapInv'
  BY <1>1, CapTake, CapJoin, CapSame DEF Request, Admit, Refuse
<1>2. ASSUME NEW p \in Producers, Retry(p) PROVE CapInv'
  <2>1. want[p] \in Jobs
    BY <1>b, <1>2 DEF Retry, At
  <2> QED BY <1>2, <2>1, CapTake, CapJoin, CapSame DEF Retry, Admit, Refuse
<1>3. ASSUME NEW p \in Producers, ReserveTimesOut(p) PROVE CapInv'
  BY <1>3, CapTake DEF ReserveTimesOut
<1>4. ASSUME NEW p \in Producers, PruneRemove(p) PROVE CapInv'
  <2>1. PICK j \in Jobs : ReleaseQueueJob(p, j, NoOwner)
    BY <1>4 DEF PruneRemove
  <2> QED BY <1>a, <2>1, ReleaseSends
<1>5. ASSUME NEW p \in Producers, PruneFindsNone(p) PROVE CapInv'
  BY <1>5, CapSame DEF PruneFindsNone
<1>6. ASSUME NEW p \in Producers, PruneEnd(p) PROVE CapInv'
  BY <1>6, CapSame DEF PruneEnd
<1>7. ASSUME NEW p \in Producers, Lookup(p) PROVE CapInv'
  BY <1>7, CapSame DEF Lookup
<1>8. ASSUME NEW p \in Producers, Add(p) PROVE CapInv'
  BY <1>8, CapSame DEF Add
<1>9. ASSUME NEW p \in Producers, AddFails(p) PROVE CapInv'
  BY <1>9, CapSame DEF AddFails
<1>10. ASSUME NEW p \in Producers, AfterFailedAdd(p) PROVE CapInv'
  <2>1. want[p] \in Jobs
    BY <1>b, <1>10 DEF AfterFailedAdd, At
  <2>2. ReleaseQueueJob(p, want[p], NoOwner) \/ UNCHANGED store
    BY <1>10 DEF AfterFailedAdd
  <2> QED BY <1>a, <2>1, <2>2, CapSame, ReleaseSends
<1>11. ASSUME NEW p \in Producers, Promote(p) PROVE CapInv'
  BY <1>11, CapSame DEF Promote
<1>12. ASSUME NEW p \in Producers, Unback(p) PROVE CapInv'
  <2>1. want[p] \in Jobs
    BY <1>b, <1>12 DEF Unback, At
  <2> QED BY <1>12, <2>1, CapUnback DEF Unback
<1>13. ASSUME NEW p \in Producers, Finished(p) PROVE CapInv'
  <2>1. want[p] \in Jobs
    BY <1>b, <1>13 DEF Finished, At
  <2>2. ReleaseQueueJob(p, want[p], NoOwner)
    BY <1>13 DEF Finished
  <2> QED BY <1>a, <2>1, <2>2, ReleaseSends
<1>14. ASSUME NEW p \in Producers, Released(p) PROVE CapInv'
  BY <1>14, CapSame DEF Released
<1>15. ASSUME NEW p \in Producers, Deadline(p) PROVE CapInv'
  BY <1>15, CapSame DEF Deadline
<1>16. ASSUME NEW j \in Jobs, Click(j) PROVE CapInv'
  BY <1>16, CapSame DEF Click
<1>17. ASSUME NEW j \in Jobs, Claim(j) PROVE CapInv'
  BY <1>17, CapSame DEF Claim
<1>18. ASSUME NEW j \in Jobs, Evict(j) PROVE CapInv'
  BY <1>18, CapSame DEF Evict
<1>19. ASSUME NEW j \in Jobs, LeaseLapses(j) PROVE CapInv'
  BY <1>19, CapLapse DEF LeaseLapses
<1>20. ASSUME NEW c \in Clients, Command(c) PROVE CapInv'
  BY <1>20, CapZrem DEF Command
<1>21. CASE ClickPromote
  BY <1>21, CapSame DEF ClickPromote
<1>22. CASE ClickUnback
  <2>1. click.job \in Jobs
    BY <1>22 DEF ClickUnback, Types, Wanted
  <2> QED BY <1>22, <2>1, CapUnback DEF ClickUnback
<1>23. CASE ViewerLeaves
  BY <1>23, CapSame DEF ViewerLeaves
<1>24. CASE WorkerReleases
  <2>1. busy \in Jobs /\ ReleaseQueueJob(Worker, busy, NoOwner)
    BY <1>24 DEF WorkerReleases, Types, JobsTypeOK
  <2> QED BY <1>a, <2>1, ReleaseSends
<1>25. CASE WorkerCompletes
  BY <1>25, CapSame DEF WorkerCompletes
<1>26. CASE WorkerDies
  BY <1>26, CapSame DEF WorkerDies
<1>27. CASE UNCHANGED vars
  BY <1>27, CapSame DEF vars
<1> QED BY <1>1, <1>2, <1>3, <1>4, <1>5, <1>6, <1>7, <1>8, <1>9, <1>10,
           <1>11, <1>12, <1>13, <1>14, <1>15, <1>16, <1>17, <1>18, <1>19,
           <1>20, <1>21, <1>22, <1>23, <1>24, <1>25, <1>26, <1>27
        DEF Next, ProducerStep, JobStep, ViewerStep

-----------------------------------------------------------------------------
(* Every lease has somebody to give it back                                *)
LEMMA InFlightSame ==
  ASSUME UNCHANGED sent, NEW j
  PROVE  InFlight("global", j) => InFlight("global", j)'
<1> QED BY DEF InFlight

(* Every lease is a job's, a producer's, leaked or about to be removed.    *)
LEMMA AnsweredStep ==
  CapInv /\ Types /\ Answered /\ [Next]_vars => Answered'
<1> SUFFICES ASSUME CapInv, Types, Answered, [Next]_vars,
                    NEW i \in global'
             PROVE  Covered(i)'
  BY DEF Answered
<1>a. Clients = Producers \cup {Worker}
  BY ProducerAssumption
<1>b. \A p \in Producers : pc[p] # "idle" => want[p] \in Jobs
  BY DEF Types, Wanted
<1>c. global \subseteq Jobs
  BY DEF CapInv, StoreTypeOK
<1>d. i \in global => Covered(i)
  BY DEF Answered
<1>e. i \in Jobs
  <2>1. CapInv'
    BY CapQueueStep
  <2> QED BY <2>1 DEF CapInv, StoreTypeOK
<1> USE DEF Covered, Holds, Live, Types, JobsTypeOK, CallsTypeOK, store,
            leases, jobs, calls
<1>1. ASSUME NEW p \in Producers, Request(p) PROVE Covered(i)'
  BY <1>1, <1>b, <1>d, InFlightSame
  DEF Request, At, Go, Admit, Take, Join, Refuse
<1>2. ASSUME NEW p \in Producers, Retry(p) PROVE Covered(i)'
  BY <1>2, <1>b, <1>d, InFlightSame
  DEF Retry, At, Go, Admit, Leave, Forget, Take, Join, Refuse
<1>3. ASSUME NEW p \in Producers, ReserveTimesOut(p) PROVE Covered(i)'
  BY <1>3, <1>b, <1>d, InFlightSame
  DEF ReserveTimesOut, At, Go, Leave, Forget, Take, Join, Refuse
<1>4. ASSUME NEW p \in Producers, PruneRemove(p) PROVE Covered(i)'
  BY <1>4, <1>a, <1>b, <1>c, <1>d, ReleaseSends DEF PruneRemove, At, Go, Stay
<1>5. ASSUME NEW p \in Producers, PruneFindsNone(p) PROVE Covered(i)'
  BY <1>5, <1>d, InFlightSame DEF PruneFindsNone, At, Go, Leave, Forget
<1>6. ASSUME NEW p \in Producers, PruneEnd(p) PROVE Covered(i)'
  BY <1>6, <1>d, InFlightSame DEF PruneEnd, At, Go, Stay
<1>7. ASSUME NEW p \in Producers, Lookup(p) PROVE Covered(i)'
  <2>1. CASE Live(i) \/ InFlight("global", i) \/ i \in leaked
    BY <1>7, <2>1, InFlightSame DEF Lookup
  <2>2. ASSUME NEW q \in Producers, q # p, Holds(q, i) PROVE Covered(i)'
    <3>1. Holds(q, i)'
      BY <1>7, <2>2 DEF Lookup, Go, Stay, Await, Forget
    <3> QED BY <3>1
  <2>3. CASE Holds(p, i)
    <3>1. want[p] = i /\ pc[p] = "lookup" /\ verdict[p] = "reserved"
      BY <1>7, <2>3 DEF Lookup, At
    <3>2. CASE state[i] = "none"
      BY <1>7, <3>1, <3>2 DEF Lookup, Go, Stay
    <3>3. CASE Live(i)
      BY <1>7, <3>3 DEF Lookup
    <3>4. CASE state[i] \in {"ending", "done"}
      BY <1>7, <3>1, <3>4 DEF Lookup, Go, Await, Forget
    <3>5. i \in Jobs
      BY <1>7, <1>b, <3>1 DEF Lookup, At
    <3> QED BY <3>2, <3>3, <3>4, <3>5
  <2> QED BY <1>7, <1>d, <2>1, <2>2, <2>3 DEF Lookup
<1>8. ASSUME NEW p \in Producers, Add(p) PROVE Covered(i)'
  <2>1. CASE InFlight("global", i) \/ i \in leaked
    BY <1>8, <2>1, InFlightSame DEF Add
  <2>2. CASE Live(i)
    BY <1>8, <1>e, <2>2 DEF Add, AddJob
  <2>3. ASSUME NEW q \in Producers, q # p, Holds(q, i) PROVE Covered(i)'
    <3>1. want'[q] = i /\ pc'[q] = pc[q] /\ verdict'[q] = verdict[q]
      BY <1>8, <2>3 DEF Add, Go, Await, Forget
    <3>2. state'[i] = state[i] \/ state[i] = "none"
      BY <1>8, <1>e DEF Add, AddJob
    <3>3. Holds(q, i)'
      BY <2>3, <3>1, <3>2
    <3> QED BY <3>3
  <2>4. CASE Holds(p, i)
    <3>1. want[p] = i /\ i \in Jobs
      BY <1>8, <1>b, <2>4 DEF Add, At
    <3>2. CASE state[i] = "none" \/ Live(i)
      BY <1>8, <3>1, <3>2 DEF Add, AddJob
    <3>3. CASE state[i] \in {"ending", "done"}
      BY <1>8, <3>1, <3>3 DEF Add, AddJob, Go, Await, Forget
    <3> QED BY <3>1, <3>2, <3>3
  <2> QED BY <1>8, <1>d, <2>1, <2>2, <2>3, <2>4 DEF Add
<1>9. ASSUME NEW p \in Producers, AddFails(p) PROVE Covered(i)'
  BY <1>9, <1>d, InFlightSame DEF AddFails, At, Go, Stay
<1>10. ASSUME NEW p \in Producers, AfterFailedAdd(p) PROVE Covered(i)'
  <2>1. want[p] \in Jobs /\ pc[p] = "failed"
    BY <1>10, <1>b DEF AfterFailedAdd, At
  <2>2. global' = global /\ (InFlight("global", i) => InFlight("global", i)')
    <3>1. ReleaseQueueJob(p, want[p], NoOwner) \/ UNCHANGED store
      BY <1>10 DEF AfterFailedAdd
    <3> QED BY <1>a, <1>c, <2>1, <3>1, InFlightSame, ReleaseSends
  <2>3. CASE Live(i) \/ InFlight("global", i) \/ i \in leaked
    BY <1>10, <2>2, <2>3 DEF AfterFailedAdd
  <2>4. ASSUME NEW q \in Producers, q # p, Holds(q, i) PROVE Covered(i)'
    <3>1. Holds(q, i)'
      BY <1>10, <2>4 DEF AfterFailedAdd, Go, Await, Leave, Forget
    <3> QED BY <3>1
  <2>5. CASE Holds(p, i)
    <3>1. want[p] = i /\ verdict[p] = "reserved"
      BY <2>1, <2>5
    <3>2. CASE state[i] = "none"
      BY <1>10, <1>a, <2>1, <3>1, <3>2, ReleaseSends DEF AfterFailedAdd
    <3>3. CASE Live(i)
      BY <1>10, <3>3 DEF AfterFailedAdd
    <3>4. CASE state[i] \in {"ending", "done"}
      BY <1>10, <3>1, <3>4 DEF AfterFailedAdd, Go, Await, Forget
    <3> QED BY <2>1, <3>1, <3>2, <3>3, <3>4
  <2> QED BY <1>d, <2>2, <2>3, <2>4, <2>5
<1>11. ASSUME NEW p \in Producers, Promote(p) PROVE Covered(i)'
  BY <1>11, <1>d, InFlightSame DEF Promote, At, Go, Await, Forget, Raise
<1>12. ASSUME NEW p \in Producers, Unback(p) PROVE Covered(i)'
  BY <1>12, <1>d, InFlightSame DEF Unback, At, Go, Await, Forget
<1>13. ASSUME NEW p \in Producers, Finished(p) PROVE Covered(i)'
  BY <1>13, <1>a, <1>b, <1>c, <1>d, ReleaseSends
  DEF Finished, At, Go, Await, Forget
<1>14. ASSUME NEW p \in Producers, Released(p) PROVE Covered(i)'
  BY <1>14, <1>d, InFlightSame DEF Released, At, Go, Leave, Forget
<1>15. ASSUME NEW p \in Producers, Deadline(p) PROVE Covered(i)'
  BY <1>15, <1>d, InFlightSame DEF Deadline, At, Go, Leave, Forget
<1>16. ASSUME NEW j \in Jobs, Click(j) PROVE Covered(i)'
  BY <1>16, <1>d, InFlightSame DEF Click, NoClick
<1>17. ASSUME NEW j \in Jobs, Claim(j) PROVE Covered(i)'
  BY <1>17, <1>d, InFlightSame DEF Claim
<1>18. ASSUME NEW j \in Jobs, Evict(j) PROVE Covered(i)'
  BY <1>18, <1>d, InFlightSame DEF Evict, Releasing, InFlight
<1>19. ASSUME NEW j \in Jobs, LeaseLapses(j) PROVE Covered(i)'
  BY <1>19, <1>d, InFlightSame DEF LeaseLapses, Lapse
<1>20. ASSUME NEW c \in Clients, Command(c) PROVE Covered(i)'
  BY <1>20, <1>d, ZremKeeps DEF Command, Zrem, Without
<1>21. CASE ClickPromote
  BY <1>21, <1>d, InFlightSame DEF ClickPromote, Raise
<1>22. CASE ClickUnback
  BY <1>22, <1>d, InFlightSame DEF ClickUnback
<1>23. CASE ViewerLeaves
  BY <1>23, <1>d, InFlightSame DEF ViewerLeaves, NoClick
<1>24. CASE WorkerReleases
  BY <1>24, <1>a, <1>c, <1>d, ReleaseSends DEF WorkerReleases
<1>25. CASE WorkerCompletes
  BY <1>25, <1>d, InFlightSame DEF WorkerCompletes
<1>26. CASE WorkerDies
  <2>1. CASE i = busy
    BY <1>26, <2>1 DEF WorkerDies
  <2>2. CASE i # busy
    <3>1. state'[i] = state[i] /\ leaked \subseteq leaked'
      BY <1>26, <1>e, <2>2 DEF WorkerDies
    <3>2. UNCHANGED <<global, sent, pc, want, verdict>>
      BY <1>26 DEF WorkerDies
    <3> QED BY <1>d, <3>1, <3>2, InFlightSame
  <2> QED BY <2>1, <2>2
<1>27. CASE UNCHANGED vars
  BY <1>27, <1>d, InFlightSame DEF vars
<1> QED BY <1>1, <1>2, <1>3, <1>4, <1>5, <1>6, <1>7, <1>8, <1>9, <1>10,
           <1>11, <1>12, <1>13, <1>14, <1>15, <1>16, <1>17, <1>18, <1>19,
           <1>20, <1>21, <1>22, <1>23, <1>24, <1>25, <1>26, <1>27
        DEF Next, ProducerStep, JobStep, ViewerStep

-----------------------------------------------------------------------------
(* The invariant holds in every behaviour.                                 *)
LEMMA QueueInvariant == Spec => []IInv
<1>1. Init => IInv
  <2> SUFFICES ASSUME Init PROVE IInv
    OBVIOUS
  <2>1. CapInv
    BY CapInit DEF Init
  <2>2. Types
    BY TypesInit
  <2>3. Answered
    BY DEF Init, StoreInit, Answered
  <2> QED BY <2>1, <2>2, <2>3 DEF IInv
<1>2. IInv /\ [Next]_vars => IInv'
  BY CapQueueStep, TypesStep, AnsweredStep DEF IInv
<1> QED BY <1>1, <1>2, PTL DEF Spec

(* Producers, worker and viewers keep the types of the queue, its calls    *)
(* and its leases.                                                         *)
THEOREM ExtractionTypeCorrect == Spec => []TypeOK
<1>1. IInv => TypeOK
  BY DEF IInv, CapInv, Types, TypeOK
<1> QED BY <1>1, QueueInvariant, PTL

(* Whatever calls, jobs, faults and prunes do, no more leases are out than *)
(* the queue's limit, and no more background ones than the playback        *)
(* reserve leaves.                                                         *)
THEOREM ExtractionCapped == Spec => []Capped
<1>1. IInv => Capped
  BY DEF IInv, CapInv
<1> QED BY <1>1, QueueInvariant, PTL

(* No lease is left behind but by a fault: it belongs to a job that will   *)
(* run, to a call on its way, or to a release that was sent.               *)
THEOREM NoLeaseLeaks == Spec => []NoLeakedLease
<1>1. IInv => NoLeakedLease
  <2> SUFFICES ASSUME IInv, NEW j \in global
               PROVE  \/ Live(j) \/ Releasing(j) \/ j \in leaked
                      \/ \E p \in Producers : want[p] = j
    BY DEF NoLeakedLease
  <2>1. Covered(j)
    BY DEF IInv, Answered
  <2>2. InFlight("global", j) => Releasing(j)
    <3>1. SUFFICES ASSUME NEW c \in Clients, NEW i \in DOMAIN sent[c],
                          sent[c][i] = <<"global", j>>
                   PROVE  Releasing(j)
      BY DEF InFlight
    <3>2. sent[c][i][2] = j
      BY <3>1
    <3> QED BY <3>2 DEF Releasing
  <2> QED BY <2>1, <2>2 DEF Covered, Holds
<1> QED BY <1>1, QueueInvariant, PTL

-----------------------------------------------------------------------------
(* The jobs keep to their limits, too, while the extraction lock works     *)
(* (without it, a producer whose add fails may give back a lease that      *)
(* another one has joined).  What is needed is that every job in the queue *)
(* has its leases, and so: who may still send a release of them, and what  *)
(* a producer knows between its lease and its job.                         *)

(* No two producers want one job.                                          *)
Unshared ==
  /\ \A p \in Producers : pc[p] = "idle" => want[p] = None
  /\ \A p, q \in Producers : want[p] = want[q] /\ want[p] # None => p = q

(* A command about the job is on its way from this client.                 *)
Sending(c, j) == \E i \in DOMAIN sent[c] : sent[c][i][2] = j

(* The worker sends them for the job it has run, a producer that prunes    *)
(* for one it has taken out, another for a job that is over or not added.  *)
MaySend(c, j) ==
  IF c = Worker THEN busy = j /\ state[j] = "ending"
  ELSE \/ pc[c] = "pruned" /\ (j \in displaced \/ state[j] = "done")
       \/ pc[c] = "release" /\ want[c] = j /\ state[j] \in {"none", "done"}

Senders == \A c \in Clients, j \in Jobs : Sending(c, j) => MaySend(c, j)

(* The worker runs what is active or ending.                               *)
Running == \A j \in Jobs : state[j] \in {"active", "ending"} <=> busy = j

(* The lease of background work may only be gone through a fault.          *)
Charged(j) == j \in background \cup leaked

(* A job in the queue has its leases.                                      *)
Backed(j) ==
  Live(j) /\ j \notin displaced =>
    /\ j \in global
    /\ state[j] = "waiting" /\ prio[j] = "background" => Charged(j)

(* So has one that a producer is about to add.                             *)
Carried(p) ==
  pc[p] \in {"lookup", "add", "failed"} /\ state[want[p]] = "none"
    /\ want[p] \notin displaced =>
      /\ want[p] \in global
      /\ class[p] = "background" => Charged(want[p])

(* A job that is raised is in the queue or was taken out of it, and its    *)
(* priority is raised before its background lease goes.                    *)
Raised(j, step) ==
  /\ step \in {"promote", "unback"} => state[j] # "none" \/ j \in displaced
  /\ step = "unback" /\ state[j] = "waiting" =>
       prio[j] = "playback" \/ j \in displaced \cup leaked

Backing ==
  /\ \A j \in Jobs : Backed(j)
  /\ \A p \in Producers : Carried(p)
  /\ \A p \in Producers : Raised(want[p], pc[p])
  /\ Raised(click.job, click.step)

(* A job's two commands are sent together.                                 *)
Paired ==
  \A c \in Clients : \A i \in DOMAIN sent[c] : \A j \in Jobs :
    sent[c][i] = <<"global", j>> =>
      i + 1 \in DOMAIN sent[c] /\ sent[c][i + 1] = <<"background", j>>

-----------------------------------------------------------------------------
(* What is on its way                                                      *)
LEMMA SendingSame ==
  ASSUME UNCHANGED sent, NEW c, NEW j
  PROVE  Sending(c, j)' <=> Sending(c, j)
<1> QED BY DEF Sending

(* What a client sends after a release is what it sent, and that job.      *)
LEMMA SendingAppend ==
  ASSUME CapInv, NEW d \in Clients, NEW j \in Jobs,
         ReleaseQueueJob(d, j, NoOwner),
         NEW c \in Clients, NEW i, Sending(c, i)'
  PROVE  Sending(c, i) \/ (c = d /\ i = j)
<1> DEFINE t == Commands(j, NoOwner)
<1>1. t = << <<"global", j>>, <<"background", j>> >>
  BY DEF Commands
<1>2. sent' = [sent EXCEPT ![d] = @ \o t]
  BY DEF ReleaseQueueJob
<1>3. CASE c # d
  <2>1. sent'[c] = sent[c]
    BY <1>2, <1>3 DEF CapInv, StoreTypeOK
  <2> QED BY <2>1 DEF Sending
<1>4. CASE c = d
  <2>1. t \in Seq(Keys \X Jobs) /\ Len(t) = 2
    BY CommandsType
  <2>2. sent[c] \in Seq(Keys \X Jobs) /\ sent'[c] = sent[c] \o t
    BY <1>2, <1>4 DEF CapInv, StoreTypeOK
  <2>3. PICK k \in DOMAIN sent'[c] : sent'[c][k][2] = i
    BY DEF Sending
  <2>4. t[1][2] = j /\ t[2][2] = j
    BY <1>1
  <2> HIDE DEF t
  <2>5. CASE k <= Len(sent[c])
    <3>1. k \in DOMAIN sent[c] /\ sent'[c][k] = sent[c][k]
      BY <2>1, <2>2, <2>3, <2>5
    <3> QED BY <2>3, <3>1 DEF Sending
  <2>6. CASE ~(k <= Len(sent[c]))
    <3>1. k \in 1 .. Len(sent[c]) + 2 /\ Len(sent[c]) \in Nat
          /\ sent'[c][k] = t[k - Len(sent[c])]
      BY <2>1, <2>2, <2>3, <2>6, ConcatProperties
    <3>2. k - Len(sent[c]) = 1 \/ k - Len(sent[c]) = 2
      BY <2>6, <3>1
    <3> QED BY <1>4, <2>3, <2>4, <3>1, <3>2
  <2> QED BY <2>5, <2>6
<1> QED BY <1>3, <1>4

(* A command that arrives adds nothing to what is sent.                    *)
LEMMA SendingZrem ==
  ASSUME CapInv, NEW d \in Clients, Zrem(d),
         NEW c \in Clients, NEW i, Sending(c, i)'
  PROVE  Sending(c, i)
<1>1. CASE c # d
  <2>1. sent'[c] = sent[c]
    BY <1>1 DEF Zrem, CapInv, StoreTypeOK
  <2> QED BY <2>1 DEF Sending
<1>2. CASE c = d
  <2>1. sent[c] \in Seq(Keys \X Jobs) /\ sent[c] # <<>>
        /\ sent'[c] = Tail(sent[c])
    BY <1>2 DEF Zrem, CapInv, StoreTypeOK
  <2>2. PICK k \in DOMAIN sent'[c] : sent'[c][k][2] = i
    BY DEF Sending
  <2>3. k + 1 \in DOMAIN sent[c] /\ sent[c][k + 1] = sent'[c][k]
    BY <2>1, <2>2
  <2> QED BY <2>2, <2>3 DEF Sending
<1> QED BY <1>1, <1>2

(* Only what is being sent loses a lease.                                  *)
LEMMA ZremTakes ==
  ASSUME CapInv, NEW d \in Clients, Zrem(d), NEW j \in Jobs, ~Sending(d, j)
  PROVE  /\ j \in global' <=> j \in global
         /\ j \in background' <=> j \in background
         /\ Head(sent[d])[2] # j
<1>1. sent[d] \in Seq(Keys \X Jobs) /\ sent[d] # <<>>
  BY DEF Zrem, CapInv, StoreTypeOK
<1>2. 1 \in DOMAIN sent[d] /\ Head(sent[d]) = sent[d][1]
  BY <1>1
<1>3. Head(sent[d])[2] # j
  BY <1>2 DEF Sending
<1> QED BY <1>3 DEF Zrem, Without

(* An empty pipe sends nothing.                                            *)
LEMMA NothingSent ==
  ASSUME NEW c, sent[c] = <<>>, NEW j
  PROVE  ~Sending(c, j)
<1> QED BY DEF Sending

(* What a client sends about a job is a release of it.                     *)
LEMMA SendingReleases ==
  ASSUME NEW c \in Clients, NEW j, Sending(c, j)
  PROVE  Releasing(j)
<1> QED BY DEF Sending, Releasing

-----------------------------------------------------------------------------
(* Producers that exclude each other never want one job.                   *)
LEMMA UnsharedStep ==
  ASSUME Exclusive, Types, Unshared, [Next]_vars
  PROVE  Unshared'
<1> USE ProducerAssumption DEF Unshared, Types, CallsTypeOK, Wanted, calls
<1>1. ASSUME NEW p \in Producers, Request(p) PROVE Unshared'
  BY <1>1 DEF Request, At, Go, Admit, Take, Join, Refuse, MayAsk
<1>2. ASSUME NEW p \in Producers, Retry(p) PROVE Unshared'
  BY <1>2 DEF Retry, At, Go, Admit, Leave, Forget, Take, Join, Refuse
<1>3. ASSUME NEW p \in Producers, ReserveTimesOut(p) PROVE Unshared'
  BY <1>3 DEF ReserveTimesOut, At, Go, Leave, Forget, Take
<1>4. ASSUME NEW p \in Producers, PruneRemove(p) PROVE Unshared'
  BY <1>4 DEF PruneRemove, At, Go, Stay
<1>5. ASSUME NEW p \in Producers, PruneFindsNone(p) PROVE Unshared'
  BY <1>5 DEF PruneFindsNone, At, Go, Leave, Forget
<1>6. ASSUME NEW p \in Producers, PruneEnd(p) PROVE Unshared'
  BY <1>6 DEF PruneEnd, At, Go, Stay
<1>7. ASSUME NEW p \in Producers, Lookup(p) PROVE Unshared'
  BY <1>7 DEF Lookup, At, Go, Stay, Await, Forget
<1>8. ASSUME NEW p \in Producers, Add(p) PROVE Unshared'
  BY <1>8 DEF Add, At, Go, Await, Forget, AddJob
<1>9. ASSUME NEW p \in Producers, AddFails(p) PROVE Unshared'
  BY <1>9 DEF AddFails, At, Go, Stay
<1>10. ASSUME NEW p \in Producers, AfterFailedAdd(p) PROVE Unshared'
  BY <1>10 DEF AfterFailedAdd, At, Go, Await, Leave, Forget
<1>11. ASSUME NEW p \in Producers, Promote(p) PROVE Unshared'
  BY <1>11 DEF Promote, At, Go, Await, Forget, Raise
<1>12. ASSUME NEW p \in Producers, Unback(p) PROVE Unshared'
  BY <1>12 DEF Unback, At, Go, Await, Forget
<1>13. ASSUME NEW p \in Producers, Finished(p) PROVE Unshared'
  BY <1>13 DEF Finished, At, Go, Await, Forget
<1>14. ASSUME NEW p \in Producers, Released(p) PROVE Unshared'
  BY <1>14 DEF Released, At, Go, Leave, Forget
<1>15. ASSUME NEW p \in Producers, Deadline(p) PROVE Unshared'
  BY <1>15 DEF Deadline, At, Go, Leave, Forget
<1>16. ASSUME NEW j \in Jobs, Click(j) PROVE Unshared'
  BY <1>16 DEF Click, NoClick
<1>17. ASSUME NEW j \in Jobs, Claim(j) PROVE Unshared'
  BY <1>17 DEF Claim
<1>18. ASSUME NEW j \in Jobs, Evict(j) PROVE Unshared'
  BY <1>18 DEF Evict
<1>19. ASSUME NEW j \in Jobs, LeaseLapses(j) PROVE Unshared'
  BY <1>19 DEF LeaseLapses, Lapse
<1>20. ASSUME NEW d \in Clients, Command(d) PROVE Unshared'
  BY <1>20 DEF Command, Zrem
<1>21. CASE ClickPromote
  BY <1>21 DEF ClickPromote, Raise
<1>22. CASE ClickUnback
  BY <1>22 DEF ClickUnback
<1>23. CASE ViewerLeaves
  BY <1>23 DEF ViewerLeaves, NoClick
<1>24. CASE WorkerReleases
  BY <1>24 DEF WorkerReleases
<1>25. CASE WorkerCompletes
  BY <1>25 DEF WorkerCompletes
<1>26. CASE WorkerDies
  BY <1>26 DEF WorkerDies
<1>27. CASE UNCHANGED vars
  BY <1>27 DEF vars
<1> QED BY <1>1, <1>2, <1>3, <1>4, <1>5, <1>6, <1>7, <1>8, <1>9, <1>10,
           <1>11, <1>12, <1>13, <1>14, <1>15, <1>16, <1>17, <1>18, <1>19,
           <1>20, <1>21, <1>22, <1>23, <1>24, <1>25, <1>26, <1>27
        DEF Next, ProducerStep, JobStep, ViewerStep

(* The worker is busy with the job that is active or ending.               *)
LEMMA RunningStep ==
  ASSUME Types, Running, [Next]_vars
  PROVE  Running'
<1> USE ProducerAssumption DEF Running, Types, JobsTypeOK, Wanted, jobs
<1>1. ASSUME NEW p \in Producers, Request(p) PROVE Running'
  BY <1>1 DEF Request, At, Go, Admit, Take, Join, Refuse
<1>2. ASSUME NEW p \in Producers, Retry(p) PROVE Running'
  BY <1>2 DEF Retry, At, Go, Admit, Leave, Forget, Take, Join, Refuse
<1>3. ASSUME NEW p \in Producers, ReserveTimesOut(p) PROVE Running'
  BY <1>3 DEF ReserveTimesOut, At, Go, Leave, Forget, Take
<1>4. ASSUME NEW p \in Producers, PruneRemove(p) PROVE Running'
  BY <1>4 DEF PruneRemove, At, Go, Stay
<1>5. ASSUME NEW p \in Producers, PruneFindsNone(p) PROVE Running'
  BY <1>5 DEF PruneFindsNone, At, Go, Leave, Forget
<1>6. ASSUME NEW p \in Producers, PruneEnd(p) PROVE Running'
  BY <1>6 DEF PruneEnd, At, Go, Stay
<1>7. ASSUME NEW p \in Producers, Lookup(p) PROVE Running'
  BY <1>7 DEF Lookup, At, Go, Stay, Await, Forget
<1>8. ASSUME NEW p \in Producers, Add(p) PROVE Running'
  BY <1>8 DEF Add, At, Go, Await, Forget, AddJob
<1>9. ASSUME NEW p \in Producers, AddFails(p) PROVE Running'
  BY <1>9 DEF AddFails, At, Go, Stay
<1>10. ASSUME NEW p \in Producers, AfterFailedAdd(p) PROVE Running'
  BY <1>10 DEF AfterFailedAdd, At, Go, Await, Leave, Forget
<1>11. ASSUME NEW p \in Producers, Promote(p) PROVE Running'
  BY <1>11 DEF Promote, At, Go, Await, Forget, Raise
<1>12. ASSUME NEW p \in Producers, Unback(p) PROVE Running'
  BY <1>12 DEF Unback, At, Go, Await, Forget
<1>13. ASSUME NEW p \in Producers, Finished(p) PROVE Running'
  BY <1>13 DEF Finished, At, Go, Await, Forget
<1>14. ASSUME NEW p \in Producers, Released(p) PROVE Running'
  BY <1>14 DEF Released, At, Go, Leave, Forget
<1>15. ASSUME NEW p \in Producers, Deadline(p) PROVE Running'
  BY <1>15 DEF Deadline, At, Go, Leave, Forget
<1>16. ASSUME NEW j \in Jobs, Click(j) PROVE Running'
  BY <1>16 DEF Click, NoClick
<1>17. ASSUME NEW j \in Jobs, Claim(j) PROVE Running'
  BY <1>17 DEF Claim
<1>18. ASSUME NEW j \in Jobs, Evict(j) PROVE Running'
  BY <1>18 DEF Evict
<1>19. ASSUME NEW j \in Jobs, LeaseLapses(j) PROVE Running'
  BY <1>19 DEF LeaseLapses, Lapse
<1>20. ASSUME NEW d \in Clients, Command(d) PROVE Running'
  BY <1>20 DEF Command, Zrem
<1>21. CASE ClickPromote
  BY <1>21 DEF ClickPromote, Raise
<1>22. CASE ClickUnback
  BY <1>22 DEF ClickUnback
<1>23. CASE ViewerLeaves
  BY <1>23 DEF ViewerLeaves, NoClick
<1>24. CASE WorkerReleases
  BY <1>24 DEF WorkerReleases
<1>25. CASE WorkerCompletes
  BY <1>25 DEF WorkerCompletes
<1>26. CASE WorkerDies
  BY <1>26 DEF WorkerDies
<1>27. CASE UNCHANGED vars
  BY <1>27 DEF vars
<1> QED BY <1>1, <1>2, <1>3, <1>4, <1>5, <1>6, <1>7, <1>8, <1>9, <1>10,
           <1>11, <1>12, <1>13, <1>14, <1>15, <1>16, <1>17, <1>18, <1>19,
           <1>20, <1>21, <1>22, <1>23, <1>24, <1>25, <1>26, <1>27
        DEF Next, ProducerStep, JobStep, ViewerStep

(* Only who may send the release of a job has one on its way.              *)
LEMMA SendersStep ==
  ASSUME CapInv, Types, Unshared, Running, Senders, [Next]_vars
  PROVE  Senders'
<1> SUFFICES ASSUME NEW c \in Clients, NEW i \in Jobs, Sending(c, i)'
             PROVE  MaySend(c, i)'
  BY DEF Senders
<1>a. c \in Producers \/ c = Worker
  BY ProducerAssumption
<1>b. Sending(c, i) => MaySend(c, i)
  BY DEF Senders
<1>c. UNCHANGED sent => Sending(c, i)
  BY SendingSame
<1>d. sent[c] = <<>> => ~Sending(c, i)
  BY NothingSent
<1>e. \A p \in Producers : pc[p] # "idle" => want[p] \in Jobs
  BY DEF Types, Wanted
<1> USE ProducerAssumption DEF MaySend, Types, JobsTypeOK, CallsTypeOK,
        Running, Unshared, store, leases, jobs, calls
<1>1. ASSUME NEW p \in Producers, Request(p) PROVE MaySend(c, i)'
  BY <1>1, <1>a, <1>b, <1>c, <1>d, <1>e
  DEF Request, At, Go, Admit, Take, Join, Refuse
<1>2. ASSUME NEW p \in Producers, Retry(p) PROVE MaySend(c, i)'
  BY <1>2, <1>a, <1>b, <1>c, <1>d, <1>e
  DEF Retry, At, Go, Admit, Leave, Forget, Take, Join, Refuse
<1>3. ASSUME NEW p \in Producers, ReserveTimesOut(p) PROVE MaySend(c, i)'
  BY <1>3, <1>a, <1>b, <1>c, <1>d, <1>e
  DEF ReserveTimesOut, At, Go, Leave, Forget, Take
<1>4. ASSUME NEW p \in Producers, PruneRemove(p) PROVE MaySend(c, i)'
  BY <1>4, <1>a, <1>b, <1>c, <1>d, <1>e, SendingAppend
  DEF PruneRemove, At, Go, Stay
<1>5. ASSUME NEW p \in Producers, PruneFindsNone(p) PROVE MaySend(c, i)'
  BY <1>5, <1>a, <1>b, <1>c, <1>d, <1>e
  DEF PruneFindsNone, At, Go, Leave, Forget
<1>6. ASSUME NEW p \in Producers, PruneEnd(p) PROVE MaySend(c, i)'
  BY <1>6, <1>a, <1>b, <1>c, <1>d, <1>e, SendingReleases
  DEF PruneEnd, At, Go, Stay
<1>7. ASSUME NEW p \in Producers, Lookup(p) PROVE MaySend(c, i)'
  BY <1>7, <1>a, <1>b, <1>c, <1>d, <1>e
  DEF Lookup, At, Go, Stay, Await, Forget
<1>8. ASSUME NEW p \in Producers, Add(p) PROVE MaySend(c, i)'
  BY <1>8, <1>a, <1>b, <1>c, <1>d, <1>e DEF Add, At, Go, Await, Forget, AddJob
<1>9. ASSUME NEW p \in Producers, AddFails(p) PROVE MaySend(c, i)'
  BY <1>9, <1>a, <1>b, <1>c, <1>d, <1>e DEF AddFails, At, Go, Stay
<1>10. ASSUME NEW p \in Producers, AfterFailedAdd(p) PROVE MaySend(c, i)'
  BY <1>10, <1>a, <1>b, <1>c, <1>d, <1>e, SendingAppend
  DEF AfterFailedAdd, At, Go, Await, Leave, Forget
<1>11. ASSUME NEW p \in Producers, Promote(p) PROVE MaySend(c, i)'
  BY <1>11, <1>a, <1>b, <1>c, <1>d, <1>e
  DEF Promote, At, Go, Await, Forget, Raise
<1>12. ASSUME NEW p \in Producers, Unback(p) PROVE MaySend(c, i)'
  BY <1>12, <1>a, <1>b, <1>c, <1>d, <1>e DEF Unback, At, Go, Await, Forget
<1>13. ASSUME NEW p \in Producers, Finished(p) PROVE MaySend(c, i)'
  BY <1>13, <1>a, <1>b, <1>c, <1>d, <1>e, SendingAppend
  DEF Finished, At, Go, Await, Forget
<1>14. ASSUME NEW p \in Producers, Released(p) PROVE MaySend(c, i)'
  BY <1>14, <1>a, <1>b, <1>c, <1>d, <1>e DEF Released, At, Go, Leave, Forget
<1>15. ASSUME NEW p \in Producers, Deadline(p) PROVE MaySend(c, i)'
  BY <1>15, <1>a, <1>b, <1>c, <1>d, <1>e DEF Deadline, At, Go, Leave, Forget
<1>16. ASSUME NEW j \in Jobs, Click(j) PROVE MaySend(c, i)'
  BY <1>16, <1>a, <1>b, <1>c, <1>d, <1>e DEF Click, NoClick
<1>17. ASSUME NEW j \in Jobs, Claim(j) PROVE MaySend(c, i)'
  BY <1>17, <1>a, <1>b, <1>c, <1>d, <1>e DEF Claim
<1>18. ASSUME NEW j \in Jobs, Evict(j) PROVE MaySend(c, i)'
  BY <1>18, <1>a, <1>b, <1>c, <1>d, <1>e, SendingReleases DEF Evict
<1>19. ASSUME NEW j \in Jobs, LeaseLapses(j) PROVE MaySend(c, i)'
  BY <1>19, <1>a, <1>b, <1>c, <1>d, <1>e DEF LeaseLapses, Lapse
<1>20. ASSUME NEW d \in Clients, Command(d) PROVE MaySend(c, i)'
  BY <1>20, <1>a, <1>b, <1>c, <1>d, <1>e, SendingZrem DEF Command, Zrem
<1>21. CASE ClickPromote
  BY <1>21, <1>a, <1>b, <1>c, <1>d, <1>e DEF ClickPromote, Raise
<1>22. CASE ClickUnback
  BY <1>22, <1>a, <1>b, <1>c, <1>d, <1>e DEF ClickUnback
<1>23. CASE ViewerLeaves
  BY <1>23, <1>a, <1>b, <1>c, <1>d, <1>e DEF ViewerLeaves, NoClick
<1>24. CASE WorkerReleases
  BY <1>24, <1>a, <1>b, <1>c, <1>d, <1>e, SendingAppend DEF WorkerReleases
<1>25. CASE WorkerCompletes
  BY <1>25, <1>a, <1>b, <1>c, <1>d, <1>e DEF WorkerCompletes
<1>26. CASE WorkerDies
  BY <1>26, <1>a, <1>b, <1>c, <1>d, <1>e DEF WorkerDies
<1>27. CASE UNCHANGED vars
  BY <1>27, <1>a, <1>b, <1>c, <1>d, <1>e DEF vars
<1> QED BY <1>1, <1>2, <1>3, <1>4, <1>5, <1>6, <1>7, <1>8, <1>9, <1>10,
           <1>11, <1>12, <1>13, <1>14, <1>15, <1>16, <1>17, <1>18, <1>19,
           <1>20, <1>21, <1>22, <1>23, <1>24, <1>25, <1>26, <1>27
        DEF Next, ProducerStep, JobStep, ViewerStep

(* A job in the queue, or about to be added, is nobody's to release.       *)
LEMMA NotReleased ==
  ASSUME Unshared, Senders, Types, NEW j \in Jobs, j \notin displaced,
         \/ Live(j)
         \/ /\ state[j] = "none"
            /\ \E p \in Producers : /\ want[p] = j
                                    /\ pc[p] \in {"retry", "lookup", "add",
                                                  "failed"},
         NEW c \in Clients
  PROVE  ~Sending(c, j)
<1> SUFFICES ASSUME MaySend(c, j) PROVE FALSE
  BY DEF Senders
<1> QED BY ProducerAssumption DEF MaySend, Live, Unshared, Types, CallsTypeOK

(* A lease without a job, a call or a fault is nobody's: there is none.    *)
LEMMA OnlyLeaked ==
  ASSUME IInv, Senders, NEW j \in Jobs, j \in global, state[j] = "none",
         j \notin displaced,
         \A p \in Producers : want[p] = j => pc[p] = "retry"
  PROVE  j \in leaked
<1>1. Covered(j)
  BY DEF IInv, Answered
<1>2. ~InFlight("global", j)
  <2> SUFFICES ASSUME NEW c \in Clients, NEW i \in DOMAIN sent[c],
                      sent[c][i] = <<"global", j>>
               PROVE  FALSE
    BY DEF InFlight
  <2>1. sent[c][i][2] = j
    OBVIOUS
  <2>2. MaySend(c, j)
    BY <2>1 DEF Sending, Senders
  <2> QED BY <2>2, ProducerAssumption DEF MaySend
<1> QED BY <1>1, <1>2 DEF Covered, Live, Holds

(* A producer about to add a job has the job's leases.                     *)
LEMMA CarriedStep ==
  ASSUME Exclusive, IInv, Unshared, Senders, Running, Backing, [Next]_vars
  PROVE  \A p \in Producers : Carried(p)'
<1> SUFFICES ASSUME NEW q \in Producers PROVE Carried(q)'
  OBVIOUS
<1>a. Carried(q) /\ Raised(click.job, click.step)
  BY DEF Backing
<1>b. \A p \in Producers : pc[p] # "idle" => want[p] \in Jobs
  BY DEF IInv, Types, Wanted
<1>c. Types /\ CapInv
  BY DEF IInv
<1>d. \A p \in Producers : want[p] = want[q] /\ pc[q] # "idle" => p = q
  BY <1>b, ProducerAssumption DEF Unshared
<1> USE ProducerAssumption DEF Carried, Charged, Types, JobsTypeOK,
        CallsTypeOK, Unshared, store, leases, jobs, calls
<1>1. ASSUME NEW p \in Producers, Request(p) PROVE Carried(q)'
  BY <1>1, <1>a, <1>b, <1>c, <1>d, OnlyLeaked
  DEF Request, At, Go, Admit, Take, Join, Refuse, MayAsk
<1>2. ASSUME NEW p \in Producers, Retry(p) PROVE Carried(q)'
  BY <1>2, <1>a, <1>b, <1>c, <1>d, OnlyLeaked
  DEF Retry, At, Go, Admit, Leave, Forget, Take, Join, Refuse
<1>3. ASSUME NEW p \in Producers, ReserveTimesOut(p) PROVE Carried(q)'
  BY <1>3, <1>a, <1>b, <1>c, <1>d
  DEF ReserveTimesOut, At, Go, Leave, Forget, Take
<1>4. ASSUME NEW p \in Producers, PruneRemove(p) PROVE Carried(q)'
  BY <1>4, <1>a, <1>b, <1>c, <1>d
  DEF PruneRemove, At, Go, Stay, ReleaseQueueJob
<1>5. ASSUME NEW p \in Producers, PruneFindsNone(p) PROVE Carried(q)'
  BY <1>5, <1>a, <1>b, <1>c, <1>d DEF PruneFindsNone, At, Go, Leave, Forget
<1>6. ASSUME NEW p \in Producers, PruneEnd(p) PROVE Carried(q)'
  BY <1>6, <1>a, <1>b, <1>c, <1>d DEF PruneEnd, At, Go, Stay
<1>7. ASSUME NEW p \in Producers, Lookup(p) PROVE Carried(q)'
  BY <1>7, <1>a, <1>b, <1>c, <1>d DEF Lookup, At, Go, Stay, Await, Forget
<1>8. ASSUME NEW p \in Producers, Add(p) PROVE Carried(q)'
  BY <1>8, <1>a, <1>b, <1>c, <1>d DEF Add, At, Go, Await, Forget, AddJob
<1>9. ASSUME NEW p \in Producers, AddFails(p) PROVE Carried(q)'
  BY <1>9, <1>a, <1>b, <1>c, <1>d DEF AddFails, At, Go, Stay
<1>10. ASSUME NEW p \in Producers, AfterFailedAdd(p) PROVE Carried(q)'
  BY <1>10, <1>a, <1>b, <1>c, <1>d
  DEF AfterFailedAdd, At, Go, Await, Leave, Forget, ReleaseQueueJob
<1>11. ASSUME NEW p \in Producers, Promote(p) PROVE Carried(q)'
  BY <1>11, <1>a, <1>b, <1>c, <1>d DEF Promote, At, Go, Await, Forget, Raise
<1>12. ASSUME NEW p \in Producers, Unback(p) PROVE Carried(q)'
  BY <1>12, <1>a, <1>b, <1>c, <1>d DEF Unback, At, Go, Await, Forget
<1>13. ASSUME NEW p \in Producers, Finished(p) PROVE Carried(q)'
  BY <1>13, <1>a, <1>b, <1>c, <1>d
  DEF Finished, At, Go, Await, Forget, ReleaseQueueJob
<1>14. ASSUME NEW p \in Producers, Released(p) PROVE Carried(q)'
  BY <1>14, <1>a, <1>b, <1>c, <1>d DEF Released, At, Go, Leave, Forget
<1>15. ASSUME NEW p \in Producers, Deadline(p) PROVE Carried(q)'
  BY <1>15, <1>a, <1>b, <1>c, <1>d DEF Deadline, At, Go, Leave, Forget
<1>16. ASSUME NEW j \in Jobs, Click(j) PROVE Carried(q)'
  BY <1>16, <1>a, <1>b, <1>c, <1>d DEF Click, NoClick
<1>17. ASSUME NEW j \in Jobs, Claim(j) PROVE Carried(q)'
  BY <1>17, <1>a, <1>b, <1>c, <1>d DEF Claim
<1>18. ASSUME NEW j \in Jobs, Evict(j) PROVE Carried(q)'
  BY <1>18, <1>a, <1>b, <1>c, <1>d DEF Evict
<1>19. ASSUME NEW j \in Jobs, LeaseLapses(j) PROVE Carried(q)'
  BY <1>19, <1>a, <1>b, <1>c, <1>d DEF LeaseLapses, Lapse
<1>20. ASSUME NEW d \in Clients, Command(d) PROVE Carried(q)'
  BY <1>20, <1>a, <1>b, <1>c, <1>d, ZremTakes, NotReleased DEF Command, Zrem
<1>21. CASE ClickPromote
  BY <1>21, <1>a, <1>b, <1>c, <1>d DEF ClickPromote, Raise
<1>22. CASE ClickUnback
  BY <1>22, <1>a, <1>b, <1>c, <1>d DEF ClickUnback, Raised
<1>23. CASE ViewerLeaves
  BY <1>23, <1>a, <1>b, <1>c, <1>d DEF ViewerLeaves, NoClick
<1>24. CASE WorkerReleases
  BY <1>24, <1>a, <1>b, <1>c, <1>d DEF WorkerReleases, ReleaseQueueJob
<1>25. CASE WorkerCompletes
  BY <1>25, <1>a, <1>b, <1>c, <1>d DEF WorkerCompletes
<1>26. CASE WorkerDies
  BY <1>26, <1>a, <1>b, <1>c, <1>d DEF WorkerDies
<1>27. CASE UNCHANGED vars
  BY <1>27, <1>a, <1>b, <1>c, <1>d DEF vars
<1> QED BY <1>1, <1>2, <1>3, <1>4, <1>5, <1>6, <1>7, <1>8, <1>9, <1>10,
           <1>11, <1>12, <1>13, <1>14, <1>15, <1>16, <1>17, <1>18, <1>19,
           <1>20, <1>21, <1>22, <1>23, <1>24, <1>25, <1>26, <1>27
        DEF Next, ProducerStep, JobStep, ViewerStep

(* A job in BullMQ is backed by a lease.                                   *)
LEMMA BackedStep ==
  ASSUME IInv, Unshared, Senders, Running, Backing, [Next]_vars
  PROVE  \A j \in Jobs : Backed(j)'
<1> SUFFICES ASSUME NEW i \in Jobs PROVE Backed(i)'
  OBVIOUS
<1>a. Backed(i)
  BY DEF Backing
<1>b. \A p \in Producers : pc[p] # "idle" => want[p] \in Jobs
  BY DEF IInv, Types, Wanted
<1>c. Types /\ CapInv
  BY DEF IInv
<1> USE ProducerAssumption DEF Backed, Charged, Live, Types, JobsTypeOK,
        CallsTypeOK, store, leases, jobs, calls
<1>1. ASSUME NEW p \in Producers, Request(p) PROVE Backed(i)'
  BY <1>1, <1>a, <1>b, <1>c DEF Request, At, Go, Admit, Take, Join, Refuse
<1>2. ASSUME NEW p \in Producers, Retry(p) PROVE Backed(i)'
  BY <1>2, <1>a, <1>b, <1>c
  DEF Retry, At, Go, Admit, Leave, Forget, Take, Join, Refuse
<1>3. ASSUME NEW p \in Producers, ReserveTimesOut(p) PROVE Backed(i)'
  BY <1>3, <1>a, <1>b, <1>c DEF ReserveTimesOut, At, Go, Leave, Forget, Take
<1>4. ASSUME NEW p \in Producers, PruneRemove(p) PROVE Backed(i)'
  BY <1>4, <1>a, <1>b, <1>c DEF PruneRemove, At, Go, Stay, ReleaseQueueJob
<1>5. ASSUME NEW p \in Producers, PruneFindsNone(p) PROVE Backed(i)'
  BY <1>5, <1>a, <1>b, <1>c DEF PruneFindsNone, At, Go, Leave, Forget
<1>6. ASSUME NEW p \in Producers, PruneEnd(p) PROVE Backed(i)'
  BY <1>6, <1>a, <1>b, <1>c DEF PruneEnd, At, Go, Stay
<1>7. ASSUME NEW p \in Producers, Lookup(p) PROVE Backed(i)'
  BY <1>7, <1>a, <1>b, <1>c DEF Lookup, At, Go, Stay, Await, Forget
<1>8. ASSUME NEW p \in Producers, Add(p) PROVE Backed(i)'
  BY <1>8, <1>a, <1>b, <1>c
  DEF Add, At, Go, Await, Forget, AddJob, Backing, Carried
<1>9. ASSUME NEW p \in Producers, AddFails(p) PROVE Backed(i)'
  BY <1>9, <1>a, <1>b, <1>c DEF AddFails, At, Go, Stay
<1>10. ASSUME NEW p \in Producers, AfterFailedAdd(p) PROVE Backed(i)'
  BY <1>10, <1>a, <1>b, <1>c
  DEF AfterFailedAdd, At, Go, Await, Leave, Forget, ReleaseQueueJob
<1>11. ASSUME NEW p \in Producers, Promote(p) PROVE Backed(i)'
  BY <1>11, <1>a, <1>b, <1>c DEF Promote, At, Go, Await, Forget, Raise
<1>12. ASSUME NEW p \in Producers, Unback(p) PROVE Backed(i)'
  BY <1>12, <1>a, <1>b, <1>c
  DEF Unback, At, Go, Await, Forget, Backing, Raised
<1>13. ASSUME NEW p \in Producers, Finished(p) PROVE Backed(i)'
  BY <1>13, <1>a, <1>b, <1>c
  DEF Finished, At, Go, Await, Forget, ReleaseQueueJob
<1>14. ASSUME NEW p \in Producers, Released(p) PROVE Backed(i)'
  BY <1>14, <1>a, <1>b, <1>c DEF Released, At, Go, Leave, Forget
<1>15. ASSUME NEW p \in Producers, Deadline(p) PROVE Backed(i)'
  BY <1>15, <1>a, <1>b, <1>c DEF Deadline, At, Go, Leave, Forget
<1>16. ASSUME NEW j \in Jobs, Click(j) PROVE Backed(i)'
  BY <1>16, <1>a, <1>b, <1>c DEF Click, NoClick
<1>17. ASSUME NEW j \in Jobs, Claim(j) PROVE Backed(i)'
  BY <1>17, <1>a, <1>b, <1>c DEF Claim
<1>18. ASSUME NEW j \in Jobs, Evict(j) PROVE Backed(i)'
  BY <1>18, <1>a, <1>b, <1>c DEF Evict
<1>19. ASSUME NEW j \in Jobs, LeaseLapses(j) PROVE Backed(i)'
  BY <1>19, <1>a, <1>b, <1>c DEF LeaseLapses, Lapse
<1>20. ASSUME NEW d \in Clients, Command(d) PROVE Backed(i)'
  BY <1>20, <1>a, <1>b, <1>c, ZremTakes, NotReleased DEF Command, Zrem
<1>21. CASE ClickPromote
  BY <1>21, <1>a, <1>b, <1>c DEF ClickPromote, Raise
<1>22. CASE ClickUnback
  BY <1>22, <1>a, <1>b, <1>c DEF ClickUnback, Backing, Raised
<1>23. CASE ViewerLeaves
  BY <1>23, <1>a, <1>b, <1>c DEF ViewerLeaves, NoClick
<1>24. CASE WorkerReleases
  BY <1>24, <1>a, <1>b, <1>c DEF WorkerReleases, ReleaseQueueJob
<1>25. CASE WorkerCompletes
  BY <1>25, <1>a, <1>b, <1>c DEF WorkerCompletes
<1>26. CASE WorkerDies
  BY <1>26, <1>a, <1>b, <1>c DEF WorkerDies, Running
<1>27. CASE UNCHANGED vars
  BY <1>27, <1>a, <1>b, <1>c DEF vars
<1> QED BY <1>1, <1>2, <1>3, <1>4, <1>5, <1>6, <1>7, <1>8, <1>9, <1>10,
           <1>11, <1>12, <1>13, <1>14, <1>15, <1>16, <1>17, <1>18, <1>19,
           <1>20, <1>21, <1>22, <1>23, <1>24, <1>25, <1>26, <1>27
        DEF Next, ProducerStep, JobStep, ViewerStep

(* A job that is raised loses its lease after its priority has changed.    *)
LEMMA RaisedStep ==
  ASSUME IInv, Unshared, Senders, Running, Backing, [Next]_vars
  PROVE  /\ \A p \in Producers : Raised(want[p], pc[p])'
         /\ Raised(click.job, click.step)'
<1>b. \A p \in Producers : pc[p] # "idle" => want[p] \in Jobs
  BY DEF IInv, Types, Wanted
<1>c. Types /\ CapInv
  BY DEF IInv
<1> DEFINE G == /\ \A p \in Producers : Raised(want[p], pc[p])
                /\ Raised(click.job, click.step)
<1>a. G
  BY DEF Backing
<1> USE ProducerAssumption DEF Raised, Types, JobsTypeOK, ClickTypeOK, Wanted,
        CallsTypeOK, store, leases, jobs, calls
<1>1. ASSUME NEW p \in Producers, Request(p) PROVE G'
  BY <1>1, <1>a, <1>b, <1>c DEF Request, At, Go, Admit, Take, Join, Refuse
<1>2. ASSUME NEW p \in Producers, Retry(p) PROVE G'
  BY <1>2, <1>a, <1>b, <1>c
  DEF Retry, At, Go, Admit, Leave, Forget, Take, Join, Refuse
<1>3. ASSUME NEW p \in Producers, ReserveTimesOut(p) PROVE G'
  BY <1>3, <1>a, <1>b, <1>c DEF ReserveTimesOut, At, Go, Leave, Forget, Take
<1>4. ASSUME NEW p \in Producers, PruneRemove(p) PROVE G'
  BY <1>4, <1>a, <1>b, <1>c DEF PruneRemove, At, Go, Stay
<1>5. ASSUME NEW p \in Producers, PruneFindsNone(p) PROVE G'
  BY <1>5, <1>a, <1>b, <1>c DEF PruneFindsNone, At, Go, Leave, Forget
<1>6. ASSUME NEW p \in Producers, PruneEnd(p) PROVE G'
  BY <1>6, <1>a, <1>b, <1>c DEF PruneEnd, At, Go, Stay
<1>7. ASSUME NEW p \in Producers, Lookup(p) PROVE G'
  BY <1>7, <1>a, <1>b, <1>c DEF Lookup, At, Go, Stay, Await, Forget
<1>8. ASSUME NEW p \in Producers, Add(p) PROVE G'
  BY <1>8, <1>a, <1>b, <1>c DEF Add, At, Go, Await, Forget, AddJob, Unshared
<1>9. ASSUME NEW p \in Producers, AddFails(p) PROVE G'
  BY <1>9, <1>a, <1>b, <1>c DEF AddFails, At, Go, Stay
<1>10. ASSUME NEW p \in Producers, AfterFailedAdd(p) PROVE G'
  BY <1>10, <1>a, <1>b, <1>c DEF AfterFailedAdd, At, Go, Await, Leave, Forget
<1>11. ASSUME NEW p \in Producers, Promote(p) PROVE G'
  BY <1>11, <1>a, <1>b, <1>c DEF Promote, At, Go, Await, Forget, Raise
<1>12. ASSUME NEW p \in Producers, Unback(p) PROVE G'
  BY <1>12, <1>a, <1>b, <1>c DEF Unback, At, Go, Await, Forget
<1>13. ASSUME NEW p \in Producers, Finished(p) PROVE G'
  BY <1>13, <1>a, <1>b, <1>c DEF Finished, At, Go, Await, Forget
<1>14. ASSUME NEW p \in Producers, Released(p) PROVE G'
  BY <1>14, <1>a, <1>b, <1>c DEF Released, At, Go, Leave, Forget
<1>15. ASSUME NEW p \in Producers, Deadline(p) PROVE G'
  BY <1>15, <1>a, <1>b, <1>c DEF Deadline, At, Go, Leave, Forget
<1>16. ASSUME NEW j \in Jobs, Click(j) PROVE G'
  BY <1>16, <1>a, <1>b, <1>c DEF Click, NoClick
<1>17. ASSUME NEW j \in Jobs, Claim(j) PROVE G'
  BY <1>17, <1>a, <1>b, <1>c DEF Claim
<1>18. ASSUME NEW j \in Jobs, Evict(j) PROVE G'
  BY <1>18, <1>a, <1>b, <1>c DEF Evict
<1>19. ASSUME NEW j \in Jobs, LeaseLapses(j) PROVE G'
  BY <1>19, <1>a, <1>b, <1>c DEF LeaseLapses, Lapse, Live
<1>20. ASSUME NEW d \in Clients, Command(d) PROVE G'
  BY <1>20, <1>a, <1>b, <1>c, ZremTakes, NotReleased DEF Command, Zrem, Live
<1>21. CASE ClickPromote
  BY <1>21, <1>a, <1>b, <1>c DEF ClickPromote, Raise
<1>22. CASE ClickUnback
  BY <1>22, <1>a, <1>b, <1>c DEF ClickUnback
<1>23. CASE ViewerLeaves
  BY <1>23, <1>a, <1>b, <1>c DEF ViewerLeaves, NoClick
<1>24. CASE WorkerReleases
  BY <1>24, <1>a, <1>b, <1>c DEF WorkerReleases
<1>25. CASE WorkerCompletes
  BY <1>25, <1>a, <1>b, <1>c DEF WorkerCompletes
<1>26. CASE WorkerDies
  BY <1>26, <1>a, <1>b, <1>c DEF WorkerDies
<1>27. CASE UNCHANGED vars
  BY <1>27, <1>a, <1>b, <1>c DEF vars
<1> QED BY <1>1, <1>2, <1>3, <1>4, <1>5, <1>6, <1>7, <1>8, <1>9, <1>10,
           <1>11, <1>12, <1>13, <1>14, <1>15, <1>16, <1>17, <1>18, <1>19,
           <1>20, <1>21, <1>22, <1>23, <1>24, <1>25, <1>26, <1>27
        DEF Next, ProducerStep, JobStep, ViewerStep

-----------------------------------------------------------------------------
(* No slot is lost to a job that is gone                                   *)
Unbacked(j) ==
  /\ background' = background \ {j}
  /\ UNCHANGED <<global, owned, unrenewed, by, sent>>

(* What a step of the queue does to the leases.                            *)
StoreStep ==
  \/ UNCHANGED store
  \/ \E j \in Jobs, bg \in BOOLEAN : Take(j, bg, NoOwner)
  \/ \E j \in Jobs : Join(j, NoOwner) \/ Lapse(j) \/ Unbacked(j)
  \/ \E c \in Clients : \E j \in Jobs : ReleaseQueueJob(c, j, NoOwner)
  \/ \E c \in Clients : Zrem(c)

(* Each step of the queue is one of the steps on the store.                *)
LEMMA StepsOnStore == Types /\ [Next]_vars => StoreStep
<1> SUFFICES ASSUME Types, [Next]_vars PROVE StoreStep
  OBVIOUS
<1>a. \A p \in Producers : pc[p] # "idle" => want[p] \in Jobs
  BY DEF Types, Wanted
<1>b. \A p \in Producers : p \in Clients
  BY ProducerAssumption
<1>c. Worker \in Clients /\ (busy # None => busy \in Jobs)
  BY ProducerAssumption DEF Types, JobsTypeOK
<1>d. click.step # "no" => click.job \in Jobs
  BY DEF Types, Wanted
<1> USE DEF StoreStep, Unbacked
<1>1. ASSUME NEW p \in Producers, Request(p) PROVE StoreStep
  BY <1>1, <1>a, <1>b, <1>c, <1>d DEF Request, Admit, Refuse
<1>2. ASSUME NEW p \in Producers, Retry(p) PROVE StoreStep
  BY <1>2, <1>a, <1>b, <1>c, <1>d DEF Retry, Admit, Refuse, At
<1>3. ASSUME NEW p \in Producers, ReserveTimesOut(p) PROVE StoreStep
  BY <1>3, <1>a, <1>b, <1>c, <1>d DEF ReserveTimesOut
<1>4. ASSUME NEW p \in Producers, PruneRemove(p) PROVE StoreStep
  BY <1>4, <1>a, <1>b, <1>c, <1>d DEF PruneRemove
<1>5. ASSUME NEW p \in Producers, PruneFindsNone(p) PROVE StoreStep
  BY <1>5, <1>a, <1>b, <1>c, <1>d DEF PruneFindsNone
<1>6. ASSUME NEW p \in Producers, PruneEnd(p) PROVE StoreStep
  BY <1>6, <1>a, <1>b, <1>c, <1>d DEF PruneEnd
<1>7. ASSUME NEW p \in Producers, Lookup(p) PROVE StoreStep
  BY <1>7, <1>a, <1>b, <1>c, <1>d DEF Lookup
<1>8. ASSUME NEW p \in Producers, Add(p) PROVE StoreStep
  BY <1>8, <1>a, <1>b, <1>c, <1>d DEF Add
<1>9. ASSUME NEW p \in Producers, AddFails(p) PROVE StoreStep
  BY <1>9, <1>a, <1>b, <1>c, <1>d DEF AddFails
<1>10. ASSUME NEW p \in Producers, AfterFailedAdd(p) PROVE StoreStep
  BY <1>10, <1>a, <1>b, <1>c, <1>d DEF AfterFailedAdd, At
<1>11. ASSUME NEW p \in Producers, Promote(p) PROVE StoreStep
  BY <1>11, <1>a, <1>b, <1>c, <1>d DEF Promote
<1>12. ASSUME NEW p \in Producers, Unback(p) PROVE StoreStep
  BY <1>12, <1>a, <1>b, <1>c, <1>d DEF Unback, At
<1>13. ASSUME NEW p \in Producers, Finished(p) PROVE StoreStep
  BY <1>13, <1>a, <1>b, <1>c, <1>d DEF Finished, At
<1>14. ASSUME NEW p \in Producers, Released(p) PROVE StoreStep
  BY <1>14, <1>a, <1>b, <1>c, <1>d DEF Released
<1>15. ASSUME NEW p \in Producers, Deadline(p) PROVE StoreStep
  BY <1>15, <1>a, <1>b, <1>c, <1>d DEF Deadline
<1>16. ASSUME NEW j \in Jobs, Click(j) PROVE StoreStep
  BY <1>16, <1>a, <1>b, <1>c, <1>d DEF Click
<1>17. ASSUME NEW j \in Jobs, Claim(j) PROVE StoreStep
  BY <1>17, <1>a, <1>b, <1>c, <1>d DEF Claim
<1>18. ASSUME NEW j \in Jobs, Evict(j) PROVE StoreStep
  BY <1>18, <1>a, <1>b, <1>c, <1>d DEF Evict
<1>19. ASSUME NEW j \in Jobs, LeaseLapses(j) PROVE StoreStep
  BY <1>19, <1>a, <1>b, <1>c, <1>d DEF LeaseLapses
<1>20. ASSUME NEW d \in Clients, Command(d) PROVE StoreStep
  BY <1>20, <1>a, <1>b, <1>c, <1>d DEF Command
<1>21. CASE ClickPromote
  BY <1>21, <1>a, <1>b, <1>c, <1>d DEF ClickPromote
<1>22. CASE ClickUnback
  BY <1>22, <1>a, <1>b, <1>c, <1>d DEF ClickUnback
<1>23. CASE ViewerLeaves
  BY <1>23, <1>a, <1>b, <1>c, <1>d DEF ViewerLeaves
<1>24. CASE WorkerReleases
  BY <1>24, <1>a, <1>b, <1>c, <1>d DEF WorkerReleases
<1>25. CASE WorkerCompletes
  BY <1>25, <1>a, <1>b, <1>c, <1>d DEF WorkerCompletes
<1>26. CASE WorkerDies
  BY <1>26, <1>a, <1>b, <1>c, <1>d DEF WorkerDies
<1>27. CASE UNCHANGED vars
  BY <1>27, <1>a, <1>b, <1>c, <1>d DEF vars
<1> QED BY <1>1, <1>2, <1>3, <1>4, <1>5, <1>6, <1>7, <1>8, <1>9, <1>10,
           <1>11, <1>12, <1>13, <1>14, <1>15, <1>16, <1>17, <1>18, <1>19,
           <1>20, <1>21, <1>22, <1>23, <1>24, <1>25, <1>26, <1>27
        DEF Next, ProducerStep, JobStep, ViewerStep

(* The two commands of a release without an owner.                         *)
LEMMA CommandPair ==
  ASSUME NEW j \in Jobs
  PROVE  Commands(j, NoOwner) = << <<"global", j>>, <<"background", j>> >>
<1> QED BY DEF Commands

(* A release appends its commands as a pair.                               *)
LEMMA PairedAppend ==
  ASSUME CapInv, Paired, NEW d \in Clients, NEW j \in Jobs,
         ReleaseQueueJob(d, j, NoOwner)
  PROVE  Paired'
<1> DEFINE t == Commands(j, NoOwner)
<1>1. t = << <<"global", j>>, <<"background", j>> >>
  BY CommandPair
<1>2. t \in Seq(Keys \X Jobs) /\ Len(t) = 2
  BY CommandsType
<1>3. sent' = [sent EXCEPT ![d] = @ \o t]
  BY DEF ReleaseQueueJob
<1>4. /\ t[1] = <<"global", j>> /\ t[2] = <<"background", j>>
  BY <1>1
<1> HIDE DEF t
<1> SUFFICES ASSUME NEW c \in Clients, NEW i \in DOMAIN sent'[c],
                    NEW k \in Jobs, sent'[c][i] = <<"global", k>>
             PROVE  /\ i + 1 \in DOMAIN sent'[c]
                    /\ sent'[c][i + 1] = <<"background", k>>
  BY DEF Paired
<1>5. CASE c # d
  <2>1. sent'[c] = sent[c]
    BY <1>3, <1>5 DEF CapInv, StoreTypeOK
  <2> QED BY <2>1 DEF Paired
<1>6. CASE c = d
  <2> DEFINE s == sent[c]  n == Len(s)
  <2>1. s \in Seq(Keys \X Jobs) /\ sent'[c] = s \o t
    BY <1>3, <1>6 DEF CapInv, StoreTypeOK
  <2>2. \A m \in DOMAIN s : s[m] = <<"global", k>> =>
          m + 1 \in DOMAIN s /\ s[m + 1] = <<"background", k>>
    BY DEF Paired
  <2> HIDE DEF s
  <2>3. n \in Nat /\ DOMAIN s = 1 .. n
    BY <2>1
  <2>4. /\ DOMAIN sent'[c] = 1 .. n + 2
        /\ \A m \in 1 .. n : sent'[c][m] = s[m]
        /\ \A m \in n + 1 .. n + 2 : sent'[c][m] = t[m - n]
    <3>1. /\ s \o t \in Seq(Keys \X Jobs)
          /\ Len(s \o t) = n + 2
          /\ \A m \in 1 .. n + 2 :
               (s \o t)[m] = IF m <= n THEN s[m] ELSE t[m - n]
      <4>1. /\ s \o t \in Seq(Keys \X Jobs)
            /\ Len(s \o t) = Len(s) + Len(t)
            /\ \A m \in 1 .. Len(s) + Len(t) :
                 (s \o t)[m] = IF m <= Len(s) THEN s[m] ELSE t[m - Len(s)]
        BY <1>2, <2>1, ConcatProperties
      <4> QED BY <1>2, <4>1
    <3>2. DOMAIN sent'[c] = 1 .. n + 2
      BY <2>1, <3>1
    <3> HIDE DEF n
    <3>3. \A m \in 1 .. n : m \in 1 .. n + 2 /\ m <= n
      BY <2>3
    <3>4. \A m \in n + 1 .. n + 2 : m \in 1 .. n + 2 /\ ~(m <= n)
      BY <2>3
    <3> QED BY <2>1, <3>1, <3>2, <3>3, <3>4
  <2> HIDE DEF n
  <2>5. CASE i \in 1 .. n
    <3>1. i + 1 \in 1 .. n /\ s[i + 1] = <<"background", k>>
      BY <2>2, <2>3, <2>4, <2>5
    <3> QED BY <2>3, <2>4, <3>1
  <2>6. CASE i = n + 1
    <3>1. sent'[c][i] = t[1] /\ sent'[c][i + 1] = t[2]
          /\ i + 1 \in DOMAIN sent'[c]
      BY <2>3, <2>4, <2>6
    <3>2. k = j
      BY <1>4, <3>1
    <3> QED BY <1>4, <3>1, <3>2
  <2>7. CASE i = n + 2
    <3>1. sent'[c][i] = t[2]
      BY <2>3, <2>4, <2>7
    <3> QED BY <1>4, <3>1
  <2> QED BY <2>3, <2>4, <2>5, <2>6, <2>7
<1> QED BY <1>5, <1>6

(* The first command of a pair that arrives leaves the second behind it.   *)
LEMMA PairedZrem ==
  ASSUME CapInv, Paired, NEW d \in Clients, Zrem(d)
  PROVE  Paired'
<1> SUFFICES ASSUME NEW c \in Clients, NEW i \in DOMAIN sent'[c],
                    NEW k \in Jobs, sent'[c][i] = <<"global", k>>
             PROVE  /\ i + 1 \in DOMAIN sent'[c]
                    /\ sent'[c][i + 1] = <<"background", k>>
  BY DEF Paired
<1>1. CASE c # d
  <2>1. sent'[c] = sent[c]
    BY <1>1 DEF Zrem, CapInv, StoreTypeOK
  <2> QED BY <2>1 DEF Paired
<1>2. CASE c = d
  <2> DEFINE s == sent[c]
  <2>1. s \in Seq(Keys \X Jobs) /\ s # <<>> /\ sent'[c] = Tail(s)
    BY <1>2 DEF Zrem, CapInv, StoreTypeOK
  <2>2. \A m \in DOMAIN s : s[m] = <<"global", k>> =>
          m + 1 \in DOMAIN s /\ s[m + 1] = <<"background", k>>
    BY DEF Paired
  <2> HIDE DEF s
  <2>3. /\ Len(s) \in Nat \ {0} /\ DOMAIN s = 1 .. Len(s)
        /\ DOMAIN sent'[c] = 1 .. Len(s) - 1
        /\ \A m \in 1 .. Len(s) - 1 : sent'[c][m] = s[m + 1]
    BY <2>1
  <2>4. i + 1 \in DOMAIN s /\ s[i + 1] = <<"global", k>>
    BY <2>3
  <2>5. i + 1 + 1 \in DOMAIN s /\ s[i + 1 + 1] = <<"background", k>>
    BY <2>2, <2>4
  <2> QED BY <2>3, <2>5
<1> QED BY <1>1, <1>2

(* Every step keeps the commands paired.                                   *)
LEMMA PairedKept ==
  ASSUME CapInv, Types, Paired, [Next]_vars
  PROVE  Paired'
<1>1. StoreStep
  BY StepsOnStore
<1>2. CASE UNCHANGED sent
  BY <1>2 DEF Paired
<1> QED BY <1>1, <1>2, PairedAppend, PairedZrem
        DEF StoreStep, store, Take, Join, Lapse, Unbacked

(* A command for another job, or for the other lease, stays on its way.    *)
LEMMA ZremPasses ==
  ASSUME CapInv, NEW d \in Clients, Zrem(d), NEW k, NEW j,
         InFlight(k, j), Head(sent[d]) # <<k, j>>
  PROVE  InFlight(k, j)'
<1>1. PICK c \in Clients : \E i \in DOMAIN sent[c] : sent[c][i] = <<k, j>>
  BY DEF InFlight
<1>2. PICK i \in DOMAIN sent[c] : sent[c][i] = <<k, j>>
  BY <1>1
<1>3. CASE c # d
  <2>1. sent'[c] = sent[c]
    BY <1>3 DEF Zrem, CapInv, StoreTypeOK
  <2> QED BY <1>2, <2>1 DEF InFlight
<1>4. CASE c = d
  <2>1. sent[c] \in Seq(Keys \X Jobs) /\ sent[c] # <<>>
        /\ sent'[c] = Tail(sent[c])
    BY <1>4 DEF Zrem, CapInv, StoreTypeOK
  <2>2. i # 1
    BY <1>2, <1>4, <2>1
  <2>3. i - 1 \in DOMAIN sent'[c] /\ sent'[c][i - 1] = sent[c][i]
    BY <1>2, <2>1, <2>2
  <2> QED BY <1>2, <2>3 DEF InFlight
<1> QED BY <1>3, <1>4

(* After the first command of a pair the second is still on its way.       *)
LEMMA ZremLeavesSecond ==
  ASSUME CapInv, Paired, NEW d \in Clients, Zrem(d), NEW j \in Jobs,
         Head(sent[d]) = <<"global", j>>
  PROVE  InFlight("background", j)'
<1> DEFINE s == sent[d]
<1>1. s \in Seq(Keys \X Jobs) /\ s # <<>> /\ sent'[d] = Tail(s)
  BY DEF Zrem, CapInv, StoreTypeOK
<1>2. \A m \in DOMAIN s : s[m] = <<"global", j>> =>
        m + 1 \in DOMAIN s /\ s[m + 1] = <<"background", j>>
  BY DEF Paired
<1>3. Head(s) = <<"global", j>>
  OBVIOUS
<1> HIDE DEF s
<1>4. 1 \in DOMAIN s /\ s[1] = <<"global", j>>
  BY <1>1, <1>3
<1>5. 2 \in DOMAIN s /\ s[2] = <<"background", j>>
  BY <1>2, <1>4
<1>6. 1 \in DOMAIN sent'[d] /\ sent'[d][1] = s[2]
  BY <1>1, <1>5
<1> QED BY <1>5, <1>6 DEF InFlight

(* A member of a smaller set is in the global one, or its removal is sent. *)
LEMMA StrandedStep ==
  ASSUME CapInv, Types, Paired, NoStrandedSlot, [Next]_vars
  PROVE  NoStrandedSlot'
<1> SUFFICES ASSUME NEW i \in background'
             PROVE  i \in global' \/ InFlight("background", i)'
  BY ProducerAssumption DEF NoStrandedSlot
<1>1. StoreStep
  BY StepsOnStore
<1>2. i \in background => i \in global \/ InFlight("background", i)
  BY DEF NoStrandedSlot
<1>3. background \subseteq Jobs /\ sent \in [Clients -> Seq(Keys \X Jobs)]
  BY DEF CapInv, StoreTypeOK
<1>4. UNCHANGED sent =>
        (InFlight("background", i) => InFlight("background", i)')
  BY DEF InFlight
<1>5. CASE UNCHANGED store
  BY <1>2, <1>4, <1>5 DEF store, leases
<1>6. ASSUME NEW j \in Jobs, NEW bg \in BOOLEAN, Take(j, bg, NoOwner)
      PROVE  i \in global' \/ InFlight("background", i)'
  BY <1>2, <1>4, <1>6 DEF Take
<1>7. ASSUME NEW j \in Jobs, Join(j, NoOwner) \/ Lapse(j) \/ Unbacked(j)
      PROVE  i \in global' \/ InFlight("background", i)'
  BY <1>2, <1>4, <1>7 DEF Join, Lapse, Unbacked
<1>8. ASSUME NEW c \in Clients, NEW j \in Jobs, ReleaseQueueJob(c, j, NoOwner)
      PROVE  i \in global' \/ InFlight("background", i)'
  <2>1. Commands(j, NoOwner) \in Seq(Keys \X Jobs)
    BY CommandsType
  <2>2. sent' = [sent EXCEPT ![c] = @ \o Commands(j, NoOwner)]
        /\ UNCHANGED <<global, background>>
    BY <1>8 DEF ReleaseQueueJob, leases
  <2> QED BY <1>2, <2>1, <2>2, AppendKeeps
<1>9. ASSUME NEW c \in Clients, Zrem(c)
      PROVE  i \in global' \/ InFlight("background", i)'
  <2>1. i \in background /\ Head(sent[c]) # <<"background", i>>
    <3>1. Without(Head(sent[c])[1], Head(sent[c])[2])
      BY <1>9 DEF Zrem
    <3> QED BY <3>1 DEF Without
  <2>2. CASE InFlight("background", i)
    BY <1>9, <2>1, <2>2, ZremPasses
  <2>3. CASE i \in global /\ Head(sent[c]) = <<"global", i>>
    BY <1>3, <1>9, <2>1, <2>3, ZremLeavesSecond
  <2>4. CASE i \in global /\ Head(sent[c]) # <<"global", i>>
    <3>1. Without(Head(sent[c])[1], Head(sent[c])[2])
          /\ Head(sent[c]) \in Keys \X Jobs
      BY <1>3, <1>9 DEF Zrem
    <3>2. ~(Head(sent[c])[1] = "global" /\ Head(sent[c])[2] = i)
      BY <2>4, <3>1
    <3> QED BY <2>4, <3>1, <3>2 DEF Without
  <2> QED BY <1>2, <2>1, <2>2, <2>3, <2>4
<1> QED BY <1>1, <1>5, <1>6, <1>7, <1>8, <1>9 DEF StoreStep

-----------------------------------------------------------------------------
(* The invariant of the jobs                                               *)
JobsInv ==
  /\ IInv /\ Unshared /\ Senders /\ Running /\ Backing
  /\ Paired /\ NoStrandedSlot

(* The invariant of the jobs holds at the start.                           *)
LEMMA JobsInit == Init => JobsInv
<1> SUFFICES ASSUME Init PROVE JobsInv
  OBVIOUS
<1>1. IInv
  <2>1. CapInv
    BY CapInit DEF Init
  <2>2. Types
    BY TypesInit
  <2> QED BY <2>1, <2>2 DEF IInv, Init, StoreInit, Answered
<1>2. Unshared /\ Running /\ Backing
  BY ProducerAssumption
  DEF Init, Unshared, Running, Backing, Backed, Carried, Raised, Live, NoClick
<1>3. Senders /\ Paired
  <2>1. \A c \in Clients : sent[c] = <<>>
    BY DEF Init, StoreInit
  <2> QED BY <2>1 DEF Senders, Sending, Paired
<1>4. NoStrandedSlot
  BY ProducerAssumption DEF Init, StoreInit, NoStrandedSlot
<1> QED BY <1>1, <1>2, <1>3, <1>4 DEF JobsInv

(* It is inductive while each job has one producer.                        *)
LEMMA JobsStep ==
  ASSUME Exclusive, JobsInv, [Next]_vars
  PROVE  JobsInv'
<1>1. CapInv /\ Types /\ Answered
  BY DEF JobsInv, IInv
<1>2. IInv'
  BY <1>1, CapQueueStep, TypesStep, AnsweredStep DEF IInv
<1>3. Unshared' /\ Running' /\ Senders'
  BY <1>1, UnsharedStep, RunningStep, SendersStep DEF JobsInv
<1>4. Backing'
  BY CarriedStep, BackedStep, RaisedStep DEF JobsInv, Backing
<1>5. Paired' /\ NoStrandedSlot'
  BY <1>1, PairedKept, StrandedStep DEF JobsInv
<1> QED BY <1>2, <1>3, <1>4, <1>5 DEF JobsInv

(* It implies the property the run checks.                                 *)
LEMMA JobsWithinLimits == JobsInv => JobsBounded
<1> SUFFICES ASSUME JobsInv PROVE JobsBounded
  OBVIOUS
<1>a. /\ IsFiniteSet(global) /\ IsFiniteSet(background)
      /\ Cardinality(global) <= MaxJobs
      /\ Cardinality(background) <= MaxBackground
  <2>1. global \subseteq Jobs /\ background \subseteq Jobs /\ Capped
    BY DEF JobsInv, IInv, CapInv, StoreTypeOK
  <2> QED BY <2>1, QueueAssumption, FS_Subset DEF Capped
<1>b. MaxJobs \in Nat /\ MaxBackground \in Nat
  BY QueueAssumption
<1>1. QueueBounded
  <2> DEFINE S == {j \in Jobs \ displaced : Live(j)}
  <2>1. S \subseteq global
    BY DEF JobsInv, Backing, Backed
  <2>2. IsFiniteSet(S) /\ Cardinality(S) <= Cardinality(global)
    BY <1>a, <2>1, FS_Subset
  <2>3. Cardinality(S) \in Nat /\ Cardinality(global) \in Nat
    BY <1>a, <2>2, FS_CardinalityType
  <2> HIDE DEF S
  <2>4. Cardinality(S) <= MaxJobs
    BY <1>a, <1>b, <2>2, <2>3
  <2> QED BY <2>4 DEF S, QueueBounded
<1>2. SpeculationBounded
  <2> DEFINE S == {j \in Jobs \ (leaked \cup displaced) :
                     state[j] = "waiting" /\ prio[j] = "background"}
  <2>1. S \subseteq background
    BY DEF JobsInv, Backing, Backed, Live, Charged
  <2>2. IsFiniteSet(S) /\ Cardinality(S) <= Cardinality(background)
    BY <1>a, <2>1, FS_Subset
  <2>3. Cardinality(S) \in Nat /\ Cardinality(background) \in Nat
    BY <1>a, <2>2, FS_CardinalityType
  <2> HIDE DEF S
  <2>4. Cardinality(S) <= MaxBackground
    BY <1>a, <1>b, <2>2, <2>3
  <2> QED BY <2>4 DEF S, SpeculationBounded
<1> QED BY <1>1, <1>2 DEF JobsBounded, JobsInv

(* While the extraction lock works, the jobs in the queue and the          *)
(* speculative ones among them keep to their limits for all that producers,*)
(* worker, viewers, prunes and faults do, and no slot is lost to a job     *)
(* that is gone.                                                           *)
THEOREM JobsAreBounded ==
  ASSUME Exclusive PROVE Spec => []JobsBounded
<1>1. Init => JobsInv
  BY JobsInit
<1>2. JobsInv /\ [Next]_vars => JobsInv'
  BY JobsStep
<1>3. JobsInv => JobsBounded
  BY JobsWithinLimits
<1> QED BY <1>1, <1>2, <1>3, PTL DEF Spec
=============================================================================
