----------------------- MODULE ExtractionFlightProofs -----------------------
(***************************************************************************)
(* Theorems about shared extractions, for every number of processes, calls *)
(* and faults.  What the map of a process promises needs nothing but the   *)
(* map; what the lock promises rests on one fact more, that while nothing  *)
(* fails whoever tends a lease holds the lock.                             *)
(***************************************************************************)
EXTENDS ExtractionFlight, ServerParts, DataFacts

(* While nothing fails, a timer or a granted call means the lock is held,  *)
(* and nobody extracts without a timer.                                    *)
LockTended ==
  faults = 0 =>
    /\ \A r \in Requests : r \in timers \/ At(r, "granted") => lock = r
    /\ \A r \in Requests : Extracting(r) => r \in timers

(* A timer belongs to the call that extracts, or is left over from one     *)
(* that joined a flight: no call asks for or gives back a lock with a timer*)
(* still running.                                                          *)
TimersPlaced ==
  \A r \in timers : pc[r] \in {"idle", "join", "work", "publish"}

IInv ==
  /\ TypeOK /\ LocalDedup
  /\ TimersPlaced /\ LockTended /\ SharedBeforeUnlocked

-----------------------------------------------------------------------------
(* The invariant holds at the start.                                       *)
LEMMA InitIInv == Init => IInv
<1> SUFFICES ASSUME Init PROVE IInv
  OBVIOUS
<1>1. <<>> \in Seq(Requests)
  OBVIOUS
<1>2. TypeOK
  <2>1. replies \in [Procs -> Seq(Requests)]
    BY <1>1 DEF Init
  <2>2. pc \in [Requests -> Steps] /\ 0 \in 0..MaxFaults
    BY FlightAssumption DEF Init, Steps
  <2> QED
    BY <2>1, <2>2 DEF Init, TypeOK
<1>3. \A r \in Requests : pc[r] = "idle"
  BY DEF Init
<1>4. LocalDedup
  BY <1>3 DEF LocalDedup, Extracting
<1>5. LockTended
  BY <1>3 DEF Init, LockTended, Extracting, At
<1>6. SharedBeforeUnlocked
  BY DEF Init, SharedBeforeUnlocked
<1>7. TimersPlaced
  BY DEF Init, TimersPlaced
<1> QED
  BY <1>2, <1>4, <1>5, <1>6, <1>7 DEF IInv

(* Replies are appended, taken from the head or cut off in chunks.         *)
LEMMA ReplyType ==
  ASSUME TypeOK, NEW r \in Requests, Reply(r)
  PROVE  replies' \in [Procs -> Seq(Requests)]
<1>1. Append(replies[Home[r]], r) \in Seq(Requests)
  BY FlightAssumption, AppendProperties DEF TypeOK
<1> QED
  BY <1>1 DEF Reply, TypeOK

(* A reply taken from the connection leaves a sequence of requests.        *)
LEMMA ReceiveType ==
  ASSUME TypeOK, NEW r \in Requests, Receive(r)
  PROVE  replies' \in [Procs -> Seq(Requests)]
<1>1. replies[Home[r]] \in Seq(Requests) /\ replies[Home[r]] # <<>>
  BY FlightAssumption DEF TypeOK, Receive
<1>2. Tail(replies[Home[r]]) \in Seq(Requests)
  BY <1>1, HeadTailProperties
<1> QED
  BY <1>2 DEF Receive, TypeOK

(* A step of a call moves that call along the steps of extractFormats.     *)
LEMMA GoType ==
  ASSUME TypeOK, NEW r \in Requests, NEW step \in Steps, Go(r, step)
  PROVE  pc' \in [Requests -> Steps]
BY DEF TypeOK, Go

(* A result that arrives moves its request to one of its stages.           *)
LEMMA LandType ==
  ASSUME TypeOK, NEW r \in Requests, NEW late, Land(r, late)
  PROVE  /\ pc' \in [Requests -> Steps]
         /\ flight' \in [Procs -> Requests \cup {None}]
BY FlightAssumption DEF TypeOK, Steps, Land, Calls

-----------------------------------------------------------------------------
(* The steps of a request keep the types.                                  *)
LEMMA StepTypes ==
  ASSUME TypeOK, NEW r \in Requests, Arrive(r) \/ Step(r) \/ Disturb(r)
  PROVE  TypeOK'
<1> Home[r] \in Procs
  BY FlightAssumption
<1>1. CASE Arrive(r)
  BY <1>1 DEF Arrive, TypeOK, Go, Steps
<1>2. CASE ReadHit(r)
  BY <1>2 DEF ReadHit, TypeOK, Answer, Go, Steps
<1>3. CASE ReadMiss(r)
  BY <1>3 DEF ReadMiss, TypeOK, Go, Steps
<1>4. CASE Acquire(r)
  <2>1. Reply(r) /\ replies' \in [Procs -> Seq(Requests)]
    BY <1>4, ReplyType DEF Acquire
  <2>2. pc' \in [Requests -> Steps]
    BY <1>4 DEF Acquire, Go, TypeOK, Steps
  <2> QED
    BY <1>4, <2>1, <2>2 DEF Acquire, TypeOK
<1>5. CASE Granted(r)
  <2>1. replies' \in [Procs -> Seq(Requests)]
    BY <1>5, ReceiveType DEF Granted
  <2>2. pc' \in [Requests -> Steps]
    BY <1>5 DEF Granted, Join, TakeOff, TypeOK, Go, Steps
  <2>3. /\ flight' \in [Procs -> Requests \cup {None}]
        /\ timers' \subseteq Requests
    BY <1>5 DEF Granted, Join, TakeOff, TypeOK
  <2> QED
    BY <1>5, <2>1, <2>2, <2>3 DEF Granted, TypeOK
<1>6. CASE Denied(r)
  BY <1>6, ReceiveType DEF Denied, Join, TypeOK, Go, Steps
<1>7. CASE PollHit(r)
  BY <1>7 DEF PollHit, TypeOK, Answer, Go, Steps
<1>8. CASE PollDeadline(r)
  BY <1>8 DEF PollDeadline, TypeOK, Answer, Go, Steps
<1>9. CASE Extracted(r)
  BY <1>9 DEF Extracted, TypeOK, Go, Steps
<1>10. ASSUME Finally(r)
       PROVE  /\ pc' \in [Requests -> Steps] /\ timers' \subseteq Requests
              /\ flight' \in [Procs -> Requests \cup {None}]
  <2>1. timers' \subseteq Requests
    BY <1>10 DEF Finally, TypeOK
  <2>2. CASE Go(r, "unlock") /\ UNCHANGED flight
    BY <2>1, <2>2 DEF TypeOK, Go, Steps
  <2>3. CASE Land(r, {})
    BY <2>1, <2>3, LandType
  <2> QED
    BY <1>10, <2>2, <2>3 DEF Finally
<1>11. CASE NoResult(r)
  BY <1>10, <1>11 DEF NoResult, TypeOK
<1>12. CASE Published(r)
  BY <1>10, <1>12 DEF Published, TypeOK
<1>13. CASE Release(r)
  BY <1>13, ReplyType DEF Release, TypeOK, Go, Steps
<1>14. CASE Released(r)
  BY <1>14, ReceiveType DEF Released, TypeOK, Answer, Go, Steps
<1>15. CASE ReleasedFlight(r)
  <2> DEFINE come == replies[Home[r]]
  <2>1. come \in Seq(Requests) /\ Len(come) \in Nat
    BY LenProperties DEF TypeOK
  <2>2. PICK n \in 1..Len(come) :
          LET late == {q \in Calls(Home[r]) : \E i \in 2..n : come[i] = q} IN
          /\ replies' = [replies EXCEPT
                           ![Home[r]] = SubSeq(come, n + 1, Len(come))]
          /\ timers' = timers \cup {q \in late : At(q, "granted")}
          /\ Land(r, late)
    BY <1>15 DEF ReleasedFlight
  <2> DEFINE late == {q \in Calls(Home[r]) : \E i \in 2..n : come[i] = q}
  <2>3. SubSeq(come, n + 1, Len(come)) \in Seq(Requests)
    BY <2>1, <2>2, SubSeqProperties
  <2>4. late \subseteq Requests
    BY DEF Calls
  <2>5. replies' \in [Procs -> Seq(Requests)]
    BY <2>2, <2>3 DEF TypeOK
  <2>6. timers' \subseteq Requests
    BY <2>2, <2>4 DEF TypeOK
  <2>7. /\ pc' \in [Requests -> Steps]
        /\ flight' \in [Procs -> Requests \cup {None}]
    BY <2>2, LandType
  <2> QED
    BY <1>15, <2>5, <2>6, <2>7 DEF ReleasedFlight, TypeOK
<1>16. CASE FailOpen(r)
  <2>1. faults' \in 0..MaxFaults /\ lock' \in Requests \cup {None}
    BY <1>16, FlightAssumption DEF FailOpen, Fault, TypeOK
  <2>2. pc' \in [Requests -> Steps]
    BY <1>16, GoType DEF FailOpen, Join, TakeOff, Answer, Steps
  <2>3. flight' \in [Procs -> Requests \cup {None}]
    BY <1>16 DEF FailOpen, Join, TakeOff, TypeOK
  <2> QED
    BY <1>16, <2>1, <2>2, <2>3 DEF FailOpen, TypeOK
<1>17. CASE PublishFails(r)
  BY <1>10, <1>17, FlightAssumption DEF PublishFails, Fault, TypeOK
<1>18. CASE ReleaseFails(r)
  <2>1. /\ pc' \in [Requests -> Steps]
        /\ flight' \in [Procs -> Requests \cup {None}]
    BY <1>18, LandType DEF ReleaseFails, Answer, Go, TypeOK, Steps
  <2> QED
    BY <1>18, <2>1, FlightAssumption DEF ReleaseFails, Fault, TypeOK
<1> QED
  BY <1>1, <1>2, <1>3, <1>4, <1>5, <1>6, <1>7, <1>8, <1>9, <1>11, <1>12,
     <1>13, <1>14, <1>15, <1>16, <1>17, <1>18 DEF Step, Disturb

(* So do expiry, the end of a lease and a crash.                           *)
LEMMA OutsideTypes ==
  ASSUME TypeOK, Expire \/ LeaseEnds \/ (\E p \in Procs : Crash(p))
  PROVE  TypeOK'
<1>1. CASE Expire
  BY <1>1 DEF Expire, TypeOK
<1>2. CASE LeaseEnds
  BY <1>2, FlightAssumption DEF LeaseEnds, Fault, TypeOK
<1>3. ASSUME NEW p \in Procs, Crash(p) PROVE TypeOK'
  <2>1. replies' \in [Procs -> Seq(Requests)]
    BY <1>3 DEF Crash, TypeOK
  <2>2. faults' \in 0..MaxFaults
    BY <1>3, FlightAssumption DEF Crash, Fault, TypeOK
  <2>3. pc' \in [Requests -> Steps]
    BY <1>3 DEF Crash, TypeOK, Steps
  <2> QED
    BY <1>3, <2>1, <2>2, <2>3 DEF Crash, TypeOK
<1> QED
  BY <1>1, <1>2, <1>3

(* Every step keeps the types.                                             *)
LEMMA TypesKept == TypeOK /\ [Next]_vars => TypeOK'
<1> SUFFICES ASSUME TypeOK, [Next]_vars PROVE TypeOK'
  OBVIOUS
<1>1. CASE UNCHANGED vars
  BY <1>1 DEF vars, TypeOK
<1>2. CASE Next
  BY <1>2, StepTypes, OutsideTypes DEF Next
<1> QED
  BY <1>1, <1>2

-----------------------------------------------------------------------------
(* A flight that lands is the only one of its process.                     *)
LEMMA LandKeepsDedup ==
  ASSUME TypeOK, LocalDedup, NEW r \in Requests, NEW late, Land(r, late),
         flight[Home[r]] = r
  PROVE  LocalDedup'
<1> SUFFICES ASSUME NEW q \in Requests, Extracting(q)'
             PROVE  flight'[Home[q]] = q
  BY DEF LocalDedup
<1>1. Home[q] \in Procs /\ Home[r] \in Procs
  BY FlightAssumption
<1>2. Extracting(q) /\ q # r
  BY DEF Land, Extracting, TypeOK
<1>3. flight[Home[q]] = q
  BY <1>2 DEF LocalDedup
<1>4. Home[q] # Home[r]
  BY <1>2, <1>3
<1> QED
  BY <1>1, <1>3, <1>4 DEF Land, TypeOK

(* A call that moves on without taking off leaves the map alone.           *)
LEMMA WalkKeepsDedup ==
  ASSUME TypeOK, LocalDedup, NEW r \in Requests, NEW step, Go(r, step),
         UNCHANGED flight,
         step \in {"work", "publish"} => Extracting(r)
  PROVE  LocalDedup'
BY DEF TypeOK, LocalDedup, Go, Extracting

(* A request starts an extraction only if its process has none.            *)
LEMMA TakeOffKeepsDedup ==
  ASSUME TypeOK, LocalDedup, NEW r \in Requests, TakeOff(r)
  PROVE  LocalDedup'
<1> SUFFICES ASSUME NEW q \in Requests, Extracting(q)'
             PROVE  flight'[Home[q]] = q
  BY DEF LocalDedup
<1>1. Home[q] \in Procs /\ Home[r] \in Procs
  BY FlightAssumption
<1>2. CASE q = r
  BY <1>1, <1>2 DEF TakeOff, TypeOK
<1>3. CASE q # r
  <2>1. Extracting(q)
    BY <1>3 DEF TakeOff, Go, TypeOK, Extracting
  <2>2. flight[Home[q]] = q /\ q # None
    BY <2>1, FlightAssumption DEF LocalDedup
  <2> QED
    BY <1>1, <1>3, <2>2 DEF TakeOff, TypeOK
<1> QED
  BY <1>2, <1>3

(* The finally block removes the promise of its own request only.          *)
LEMMA FinallyKeepsDedup ==
  ASSUME TypeOK, LocalDedup, NEW r \in Requests, Extracting(r), Finally(r)
  PROVE  LocalDedup'
<1>1. flight[Home[r]] = r
  BY DEF LocalDedup
<1>2. CASE Go(r, "unlock") /\ UNCHANGED flight
  BY <1>2, WalkKeepsDedup
<1>3. CASE Land(r, {})
  BY <1>1, <1>3, LandKeepsDedup
<1> QED
  BY <1>2, <1>3 DEF Finally

(* Hence every step of a request keeps one extraction per process.         *)
LEMMA StepKeepsDedup ==
  ASSUME TypeOK, LocalDedup, NEW r \in Requests,
         Arrive(r) \/ Step(r) \/ Disturb(r)
  PROVE  LocalDedup'
<1>1. CASE Arrive(r)
  BY <1>1 DEF Arrive, Go, TypeOK, LocalDedup, Extracting
<1>2. CASE ReadHit(r) \/ ReadMiss(r) \/ Acquire(r) \/ PollHit(r)
           \/ PollDeadline(r) \/ Released(r) \/ Release(r)
  BY <1>2, WalkKeepsDedup
     DEF ReadHit, ReadMiss, Acquire, PollHit, PollDeadline, Released,
         Release, Answer
<1>3. CASE Granted(r) \/ Denied(r)
  BY <1>3, WalkKeepsDedup, TakeOffKeepsDedup DEF Granted, Denied, Join
<1>4. CASE Extracted(r)
  BY <1>4, WalkKeepsDedup DEF Extracted, Extracting, At
<1>5. CASE NoResult(r) \/ Published(r) \/ PublishFails(r)
  BY <1>5, FinallyKeepsDedup
     DEF NoResult, Published, PublishFails, Extracting, At
<1>6. CASE ReleasedFlight(r)
  <2>1. PICK late : Land(r, late)
    BY <1>6 DEF ReleasedFlight
  <2> QED
    BY <1>6, <2>1, LandKeepsDedup DEF ReleasedFlight
<1>7. CASE FailOpen(r)
  BY <1>7, WalkKeepsDedup, TakeOffKeepsDedup DEF FailOpen, Join, Answer
<1>8. CASE ReleaseFails(r)
  BY <1>8, WalkKeepsDedup, LandKeepsDedup DEF ReleaseFails, Answer
<1> QED
  BY <1>1, <1>2, <1>3, <1>4, <1>5, <1>6, <1>7, <1>8 DEF Step, Disturb

(* And so does every step.                                                 *)
LEMMA DedupKept == TypeOK /\ LocalDedup /\ [Next]_vars => LocalDedup'
<1> SUFFICES ASSUME TypeOK, LocalDedup, [Next]_vars PROVE LocalDedup'
  OBVIOUS
<1>1. CASE UNCHANGED <<pc, flight>>
  BY <1>1 DEF LocalDedup, Extracting
<1>2. ASSUME NEW p \in Procs, Crash(p) PROVE LocalDedup'
  BY <1>2, FlightAssumption DEF Crash, TypeOK, LocalDedup, Extracting
<1> QED
  BY <1>1, <1>2, StepKeepsDedup DEF Next, Expire, LeaseEnds, vars

-----------------------------------------------------------------------------
(* Nothing undoes a fault.                                                 *)
LEMMA FaultsStay ==
  ASSUME TypeOK, Fault
  PROVE  faults' # 0
BY DEF Fault, TypeOK

(* While nothing fails, only the holder's own steps disturb who tends what.*)
LEMMA StepKeepsLock ==
  ASSUME TypeOK, LockTended, NEW r \in Requests,
         Arrive(r) \/ Step(r) \/ Disturb(r), TimersPlaced
  PROVE  LockTended'
<1> SUFFICES ASSUME faults' = 0 PROVE LockTended'
  BY DEF LockTended
<1>1. ~Disturb(r)
  BY FaultsStay DEF Disturb, FailOpen, PublishFails, ReleaseFails
<1>2. faults = 0
  BY <1>1 DEF Arrive, Step, ReadHit, ReadMiss, Acquire, Granted, Denied,
       PollHit, PollDeadline, Extracted, NoResult, Published, Release,
       Released, ReleasedFlight
<1>3. /\ \A q \in Requests : q \in timers \/ At(q, "granted") => lock = q
      /\ \A q \in Requests : Extracting(q) => q \in timers
  BY <1>2 DEF LockTended
<1>4. ASSUME NEW step \in Steps \ {"granted"}, Go(r, step),
             UNCHANGED <<timers, lock>>,
             step \in {"work", "publish"} => Extracting(r)
      PROVE  LockTended'
  BY <1>3, <1>4 DEF TypeOK, Go, LockTended, Extracting, At
<1>5. CASE Arrive(r)
  BY <1>4, <1>5 DEF Arrive, Steps
<1>6. CASE ReadHit(r) \/ ReadMiss(r) \/ PollHit(r) \/ PollDeadline(r)
           \/ Released(r)
  BY <1>4, <1>6
     DEF ReadHit, ReadMiss, PollHit, PollDeadline, Released, Answer, Steps
<1>7. CASE Acquire(r)
  <2>1. CASE lock = None /\ lock' = r /\ Go(r, "granted")
    BY <1>3, <1>7, <2>1, FlightAssumption
       DEF Acquire, TypeOK, Go, LockTended, Extracting, At
  <2>2. CASE Go(r, "denied") /\ UNCHANGED lock
    BY <1>4, <1>7, <2>2 DEF Acquire, Steps
  <2> QED
    BY <1>7, <2>1, <2>2 DEF Acquire
<1>8. CASE Granted(r)
  BY <1>3, <1>8
     DEF Granted, Join, TakeOff, TypeOK, Go, LockTended, Extracting, At
<1>9. CASE Denied(r)
  BY <1>4, <1>9 DEF Denied, Join, Steps
<1>10. CASE Extracted(r)
  BY <1>4, <1>10 DEF Extracted, Extracting, At, Steps
<1>11. CASE NoResult(r) \/ Published(r)
  <2>1. Extracting(r) /\ Finally(r) /\ UNCHANGED lock
    BY <1>11 DEF NoResult, Published, Extracting, At
  <2>2. r \in timers
    BY <1>3, <2>1
  <2> QED
    BY <1>3, <2>1, <2>2
       DEF Finally, TypeOK, Go, LockTended, Extracting, At
<1>12. CASE Release(r)
  <2>1. Go(r, "released") /\ timers' = timers
    BY <1>12 DEF Release
  <2>2. lock' = lock \/ (lock = r /\ lock' = None)
    BY <1>12 DEF Release
  <2>3. CASE lock' = lock
    BY <1>4, <2>1, <2>3 DEF Steps
  <2>4. CASE lock = r /\ r \notin timers
    BY <1>3, <1>12, <2>1, <2>4
       DEF TypeOK, Go, LockTended, Extracting, At
  <2>5. r \notin timers
    BY <1>12 DEF Release, At, TimersPlaced
  <2> QED
    BY <2>2, <2>3, <2>4, <2>5
<1>13. CASE ReleasedFlight(r)
  <2>1. PICK late :
          /\ timers' = timers \cup {q \in late : At(q, "granted")}
          /\ Land(r, late)
    BY <1>13 DEF ReleasedFlight
  <2>2. lock' = lock
    BY <1>13 DEF ReleasedFlight
  <2>3. \A q \in Requests : At(q, "granted")' => At(q, "granted")
    BY <2>1 DEF Land, At
  <2>4. \A q \in Requests : Extracting(q)' => Extracting(q)
    BY <2>1 DEF Land, Extracting
  <2> QED
    BY <1>3, <2>1, <2>2, <2>3, <2>4 DEF LockTended
<1> QED
  BY <1>1, <1>5, <1>6, <1>7, <1>8, <1>9, <1>10, <1>11, <1>12, <1>13 DEF Step

(* No call asks for or gives back a lock with its timer running.           *)
LEMMA StepKeepsTimers ==
  ASSUME TypeOK, TimersPlaced, NEW r \in Requests,
         Arrive(r) \/ Step(r) \/ Disturb(r)
  PROVE  TimersPlaced'
<1>1. ASSUME NEW step, Go(r, step), UNCHANGED timers,
             r \in timers => step \in {"idle", "join", "work", "publish"}
      PROVE  TimersPlaced'
  BY <1>1 DEF TypeOK, Go, TimersPlaced
<1>2. ASSUME NEW late, Land(r, late), timers' \subseteq timers \cup late,
             timers' \subseteq Requests
      PROVE  TimersPlaced'
  BY <1>2 DEF TypeOK, Land, TimersPlaced
<1>3. CASE Arrive(r)
  BY <1>1, <1>3 DEF Arrive
<1>4. CASE ReadHit(r) \/ ReadMiss(r) \/ PollHit(r) \/ PollDeadline(r)
           \/ Released(r) \/ Release(r) \/ Acquire(r)
  BY <1>1, <1>4
     DEF ReadHit, ReadMiss, PollHit, PollDeadline, Released, Release,
         Acquire, Answer, At, TimersPlaced
<1>5. CASE Granted(r)
  BY <1>5 DEF Granted, Join, TakeOff, At, Go, TypeOK, TimersPlaced
<1>6. CASE Denied(r) \/ FailOpen(r)
  BY <1>1, <1>6
     DEF Denied, FailOpen, Join, TakeOff, Answer, At, TimersPlaced
<1>7. CASE Extracted(r)
  BY <1>1, <1>7 DEF Extracted
<1>8. CASE NoResult(r) \/ Published(r) \/ PublishFails(r)
  <2>1. Finally(r)
    BY <1>8 DEF NoResult, Published, PublishFails
  <2>2. timers' \subseteq timers \ {r}
    BY <2>1 DEF Finally
  <2>3. CASE Go(r, "unlock")
    BY <2>2, <2>3 DEF Go, TypeOK, TimersPlaced
  <2>4. CASE Land(r, {})
    BY <1>2, <2>2, <2>4 DEF TypeOK
  <2> QED
    BY <2>1, <2>3, <2>4 DEF Finally
<1>9. CASE ReleasedFlight(r)
  <2>1. PICK late :
          /\ timers' = timers \cup {q \in late : At(q, "granted")}
          /\ Land(r, late)
    BY <1>9 DEF ReleasedFlight
  <2>2. TypeOK'
    BY <1>9, StepTypes DEF Step
  <2>3. timers' \subseteq Requests
    BY <2>2 DEF TypeOK
  <2> QED
    BY <1>2, <2>1, <2>3
<1>10. CASE ReleaseFails(r)
  BY <1>1, <1>2, <1>10 DEF ReleaseFails, Answer, TypeOK
<1> QED
  BY <1>3, <1>4, <1>5, <1>6, <1>7, <1>8, <1>9, <1>10 DEF Step, Disturb

(* Timers stay placed; without faults who extracts holds the lock.         *)
LEMMA LockKept == IInv /\ [Next]_vars => TimersPlaced' /\ LockTended'
<1> SUFFICES ASSUME IInv, [Next]_vars PROVE TimersPlaced' /\ LockTended'
  OBVIOUS
<1> USE DEF IInv
<1>1. CASE UNCHANGED <<pc, timers, lock, faults>>
  BY <1>1 DEF TimersPlaced, LockTended, Extracting, At
<1>2. ASSUME NEW r \in Requests, Arrive(r) \/ Step(r) \/ Disturb(r)
      PROVE  TimersPlaced' /\ LockTended'
  BY <1>2, StepKeepsTimers, StepKeepsLock
<1>3. CASE LeaseEnds
  <2>1. TimersPlaced'
    BY <1>3 DEF LeaseEnds, TimersPlaced
  <2>2. CASE Fault
    BY <2>1, <2>2, FaultsStay DEF LockTended
  <2>3. CASE ~Tended(lock) /\ UNCHANGED faults
    <3> SUFFICES ASSUME faults = 0 PROVE LockTended'
      BY <2>1, <2>3 DEF LockTended
    <3>1. \A q \in Requests : q \notin timers /\ ~At(q, "granted")
      BY <2>3 DEF LockTended, Tended, At
    <3> QED
      BY <1>3, <3>1 DEF LeaseEnds, LockTended, Extracting, At
  <2> QED
    BY <1>3, <2>1, <2>2, <2>3 DEF LeaseEnds
<1>4. ASSUME NEW p \in Procs, Crash(p)
      PROVE  TimersPlaced' /\ LockTended'
  <2>1. TimersPlaced'
    BY <1>4 DEF Crash, TypeOK, TimersPlaced
  <2>2. faults' # 0
    BY <1>4, FaultsStay DEF Crash
  <2> QED
    BY <2>1, <2>2 DEF LockTended
<1> QED
  BY <1>1, <1>2, <1>3, <1>4 DEF Next, Expire, vars

-----------------------------------------------------------------------------
(* A result that is not shared yet stays with its publisher, who stays the *)
(* lock's holder, when another call takes a step.                          *)
LEMMA PublisherStays ==
  ASSUME IInv, faults = 0, NEW q \in Requests, At(q, "publish"),
         NEW r \in Requests, r # q, Arrive(r) \/ Step(r)
  PROVE  At(q, "publish")' /\ lock' = q
<1> USE DEF IInv
<1>1. lock = q /\ q # None /\ flight[Home[q]] = q
  BY FlightAssumption DEF LockTended, LocalDedup, Extracting, At
<1>2. ~Extracting(r)
  BY <1>1 DEF LockTended
<1>3. CASE UNCHANGED lock /\ (\E step : Go(r, step))
  BY <1>1, <1>3 DEF Go, TypeOK, At
<1>4. CASE Arrive(r) \/ ReadHit(r) \/ ReadMiss(r) \/ PollHit(r)
           \/ PollDeadline(r) \/ Released(r) \/ Denied(r) \/ Granted(r)
  BY <1>3, <1>4
     DEF Arrive, ReadHit, ReadMiss, PollHit, PollDeadline, Released, Denied,
         Granted, Join, TakeOff, Answer
<1>5. CASE Acquire(r)
  BY <1>1, <1>3, <1>5 DEF Acquire
<1>6. CASE Release(r)
  BY <1>1, <1>3, <1>6 DEF Release
<1>7. CASE Extracted(r) \/ NoResult(r) \/ Published(r)
  BY <1>2, <1>7 DEF Extracted, NoResult, Published, Extracting, At
<1>8. CASE ReleasedFlight(r)
  <2>1. PICK late \in SUBSET Calls(Home[r]) : Land(r, late)
    BY <1>8 DEF ReleasedFlight
  <2>2. Home[q] # Home[r]
    BY <1>1, <1>8 DEF ReleasedFlight
  <2>3. pc'[q] = pc[q]
    BY <2>1, <2>2 DEF Land, Calls
  <2> QED
    BY <1>1, <1>8, <2>3 DEF ReleasedFlight, At
<1> QED
  BY <1>4, <1>5, <1>6, <1>7, <1>8 DEF Step

(* A result is shared before its lock is released.                         *)
LEMMA SharedKept == IInv /\ [Next]_vars => SharedBeforeUnlocked'
<1> SUFFICES ASSUME IInv, [Next]_vars, faults' = 0, ~published',
                    NEW p \in Procs, held'[p]
             PROVE  \E r \in Requests :
                      Home[r] = p /\ At(r, "publish")' /\ lock' = r
  BY DEF SharedBeforeUnlocked
<1> USE DEF IInv
<1>1. CASE UNCHANGED vars
  BY <1>1 DEF vars, SharedBeforeUnlocked, At
<1>2. ASSUME NEW r \in Requests, Arrive(r) \/ Step(r) \/ Disturb(r)
      PROVE  \E q \in Requests :
               Home[q] = p /\ At(q, "publish")' /\ lock' = q
  <2>1. ~Disturb(r)
    BY FaultsStay DEF Disturb, FailOpen, PublishFails, ReleaseFails
  <2>2. faults = 0
    BY <1>2, <2>1 DEF Arrive, Step, ReadHit, ReadMiss, Acquire, Granted,
         Denied, PollHit, PollDeadline, Extracted, NoResult, Published,
         Release, Released, ReleasedFlight
  <2>3. ~published /\ ~ReadHit(r) /\ ~PollHit(r) /\ ~Published(r)
    BY <1>2, <2>1 DEF Arrive, Step, ReadHit, ReadMiss, Acquire, Granted,
         Denied, PollHit, PollDeadline, Extracted, NoResult, Published,
         Release, Released, ReleasedFlight
  <2>4. CASE Extracted(r) /\ Home[r] = p
    <3>1. lock = r
      BY <2>2, <2>4 DEF Extracted, LockTended, Extracting, At
    <3> QED
      BY <2>4, <3>1 DEF Extracted, Go, TypeOK, At
  <2>5. CASE ~(Extracted(r) /\ Home[r] = p)
    <3>1. held[p]
      BY <1>2, <2>1, <2>3, <2>5 DEF Arrive, Step, ReadMiss, Acquire,
           Granted, Denied, PollDeadline, Extracted, NoResult, Release,
           Released, ReleasedFlight, TypeOK
    <3>2. PICK q \in Requests : Home[q] = p /\ At(q, "publish") /\ lock = q
      BY <2>2, <2>3, <3>1 DEF SharedBeforeUnlocked
    <3>3. q # r
      BY <1>2, <2>1, <2>3, <3>2 DEF Arrive, Step, ReadMiss, Acquire,
           Granted, Denied, PollDeadline, Extracted, NoResult, Release,
           Released, ReleasedFlight, At
    <3> QED
      BY <1>2, <2>1, <2>2, <3>2, <3>3, PublisherStays
  <2> QED
    BY <2>4, <2>5
<1>3. CASE Expire
  BY <1>3 DEF Expire
<1>4. CASE LeaseEnds
  <2>1. faults = 0 /\ ~Tended(lock) /\ ~published /\ held[p]
    BY <1>4, FaultsStay DEF LeaseEnds
  <2>2. PICK q \in Requests : At(q, "publish") /\ lock = q
    BY <2>1 DEF SharedBeforeUnlocked
  <2> QED
    BY <2>1, <2>2 DEF LockTended, Extracting, At, Tended
<1>5. ASSUME NEW d \in Procs, Crash(d) PROVE FALSE
  BY <1>5, FaultsStay DEF Crash
<1> QED
  BY <1>1, <1>2, <1>3, <1>4, <1>5 DEF Next

-----------------------------------------------------------------------------
(* The invariant is inductive.                                             *)
LEMMA Inductive == IInv /\ [Next]_vars => IInv'
BY TypesKept, DedupKept, LockKept, SharedKept DEF IInv

(* It holds in every behaviour of the specification.                       *)
LEMMA InvariantHolds == Spec => []IInv
<1>1. Init => IInv
  BY InitIInv
<1>2. IInv /\ [Next]_vars => IInv'
  BY Inductive
<1> QED
  BY <1>1, <1>2, PTL DEF Spec

(* Calls, promise maps, timers, lock and replies of extractFormats keep    *)
(* their types.                                                            *)
THEOREM FlightTypeCorrect == Spec => []TypeOK
<1>1. IInv => TypeOK
  BY DEF IInv
<1> QED
  BY <1>1, InvariantHolds, PTL

(* The in-flight map keeps every process to one extraction of a video,     *)
(* also when acquireLock fails open.                                       *)
THEOREM OneFlightPerProcess == Spec => []LocalDedup
<1>1. IInv => LocalDedup
  BY DEF IInv
<1> QED
  BY <1>1, InvariantHolds, PTL

(* As long as nothing fails, the lock keeps the whole cluster to one       *)
(* extraction of a video.                                                  *)
THEOREM OneExtractionInAll == Spec => []OneExtraction
<1>1. IInv => OneExtraction
  BY DEF IInv, LockTended, OneExtraction
<1> QED
  BY <1>1, InvariantHolds, PTL

(* As long as nothing fails, setAsync has published a result before the    *)
(* lock of its extraction is given back.                                   *)
THEOREM ResultIsShared == Spec => []SharedBeforeUnlocked
<1>1. IInv => SharedBeforeUnlocked
  BY DEF IInv
<1> QED
  BY <1>1, InvariantHolds, PTL

-----------------------------------------------------------------------------
(***************************************************************************)
(* Media ranges.  The viewers whose requests share a flight are a system   *)
(* of their own beside the extractions.                                    *)
(***************************************************************************)

(* The module counts as the library does.                                  *)
LEMMA SameCardinality ==
  ASSUME NEW S PROVE Segments!Cardinality(S) = Cardinality(S)
BY DEF Segments!Cardinality, Cardinality


(* What the code has by itself: a finite number of requests, each for one   *)
(* range, and limits that are numbers. No request is called NoFlight.       *)
SegmentConstants ==
  /\ IsFiniteSet(Viewers) /\ Segments!NoFlight \notin Viewers
  /\ RangeOf \in [Viewers -> Ranges]
  /\ Budget \in Nat /\ HotThreshold \in Nat /\ MaxBad \in Nat

(* A request has nothing of its own before it goes to the CDN.              *)
Early == {"new", "checks", "joins", "waits"}
AtCdn == {"fetches", "streams"}
SegmentCall ==
  [at : Early \cup AtCdn \cup {"stores", "served", "failed"},
   flight : Viewers \cup {Segments!NoFlight}, leads : BOOLEAN,
   reserved : BOOLEAN, caches : BOOLEAN, joined : BOOLEAN]
(* The state keeps its types.                                               *)
SegmentsTyped ==
  /\ req \in [Viewers -> SegmentCall]
  /\ flights \in [Ranges -> Viewers \cup {Segments!NoFlight}]
  /\ given \in [Viewers -> {"none", "null", "late", "payload"}]
  /\ bytes \in Nat /\ hot \in [Ranges -> Nat] /\ bad \in Nat

(* Until its answer comes a request leads nothing it has not entered in the *)
(* map, has reserved no bytes and has given its followers nothing.          *)
Unserved ==
  \A r \in Viewers :
    /\ req[r].at \in Early =>
         ~req[r].leads /\ ~req[r].reserved /\ given[r] = "none"
    /\ Segments!Is(r, "fetches") => ~req[r].reserved

(* A flight in the map is for the range of its leader, who is still         *)
(* fetching it, and streams only with the bytes reserved that it collects.  *)
LeaderAtWork ==
  \A k \in Ranges : flights[k] # Segments!NoFlight =>
    /\ RangeOf[flights[k]] = k
    /\ given[flights[k]] = "none"
    /\ req[flights[k]].at \in AtCdn
    /\ Segments!Is(flights[k], "streams") => req[flights[k]].reserved

(* Whoever waits for a flight that has given nothing waits for the one that *)
(* is in the map.                                                           *)
FollowerKnowsLeader ==
  \A r \in Viewers : Segments!Is(r, "waits") =>
    /\ req[r].flight \in Viewers
    /\ given[req[r].flight] = "none" => flights[RangeOf[r]] = req[r].flight

(* The inductive invariant: that nobody is stranded and that the budget is  *)
(* exact needs to know which leader each flight in the map belongs to and   *)
(* how far that leader is.                                                  *)
SInv == /\ SegmentsTyped /\ Unserved /\ LeaderAtWork /\ FollowerKnowsLeader
        /\ Segments!FlightIsItsLeaders /\ Segments!BudgetExact

(* Those who hold a part of the budget.                                     *)
Holding == {r \in Viewers : req[r].reserved /\ req[r].at \in {"streams", "stores"}}

(* A set that gains or loses one request counts one more or one less.       *)
LEMMA HoldingCounts ==
  ASSUME SegmentConstants, NEW S, NEW T, S \subseteq Viewers, T \subseteq Viewers,
         NEW r \in Viewers, \A x \in Viewers \ {r} : x \in S <=> x \in T
  PROVE  /\ Cardinality(S) \in Nat
         /\ r \in S /\ r \notin T => Cardinality(T) = Cardinality(S) - 1
         /\ r \notin S /\ r \in T => Cardinality(T) = Cardinality(S) + 1
         /\ (r \in S <=> r \in T) => Cardinality(T) = Cardinality(S)
<1>1. IsFiniteSet(S) /\ IsFiniteSet(T)
  BY FS_Subset DEF SegmentConstants
<1>2. ASSUME r \in S, r \notin T PROVE Cardinality(T) = Cardinality(S) - 1
  <2>1. T = S \ {r}
    BY <1>2
  <2> QED
    BY <1>1, <1>2, <2>1, FS_RemoveElement
<1>3. ASSUME r \notin S, r \in T PROVE Cardinality(T) = Cardinality(S) + 1
  <2>1. T = S \cup {r}
    BY <1>3
  <2> QED
    BY <1>1, <1>3, <2>1, FS_AddElement
<1>4. ASSUME r \in S <=> r \in T PROVE S = T
  BY <1>4
<1> QED
  BY <1>1, <1>2, <1>3, <1>4, FS_CardinalityType

(* Nothing is requested at first.                                           *)
LEMMA SInit == SegmentConstants /\ Segments!Init => SInv
<1> SUFFICES ASSUME SegmentConstants, Segments!Init PROVE SInv
  OBVIOUS
<1>1. SegmentsTyped
  BY DEF SegmentConstants, Segments!Init, Segments!Idle, SegmentsTyped,
     SegmentCall, Early
<1>2. Unserved /\ LeaderAtWork /\ FollowerKnowsLeader /\ Segments!FlightIsItsLeaders
  BY DEF Segments!Init, Segments!Idle, Unserved, LeaderAtWork,
     FollowerKnowsLeader, Segments!FlightIsItsLeaders, Segments!Is
<1>3. {r \in Viewers : req[r].reserved /\ req[r].at \in {"streams", "stores"}} = {}
  BY DEF Segments!Init, Segments!Idle
<1>4. Segments!BudgetExact
  BY <1>3, FS_EmptySet, SameCardinality DEF Segments!Init,
     Segments!BudgetExact, SegmentConstants
<1> QED
  BY <1>1, <1>2, <1>4 DEF SInv

(* The budget stays exact when one request's step adds or gives back what   *)
(* that request holds.                                                      *)
LEMMA SetStep ==
  ASSUME SegmentConstants, SInv, NEW r \in Viewers,
         req' \in [Viewers -> SegmentCall],
         \A x \in Viewers \ {r} : req'[x] = req[x],
         bytes' = bytes + (IF r \in Holding' THEN 1 ELSE 0)
                        - (IF r \in Holding THEN 1 ELSE 0),
         r \in Holding' /\ r \notin Holding => bytes < Budget
  PROVE  Segments!BudgetExact' /\ bytes' \in Nat
<1>1. /\ Holding \subseteq Viewers /\ Holding' \subseteq Viewers
      /\ \A x \in Viewers \ {r} : x \in Holding <=> x \in Holding'
  BY DEF Holding
<1>2. /\ Cardinality(Holding) \in Nat
      /\ r \in Holding /\ r \notin Holding' => Cardinality(Holding') = Cardinality(Holding) - 1
      /\ r \notin Holding /\ r \in Holding' => Cardinality(Holding') = Cardinality(Holding) + 1
      /\ (r \in Holding <=> r \in Holding') => Cardinality(Holding') = Cardinality(Holding)
  BY <1>1, HoldingCounts
<1>3. Cardinality(Holding') \in Nat
  BY <1>1, FS_Subset, FS_CardinalityType DEF SegmentConstants
<1>4. bytes = Cardinality(Holding) /\ bytes <= Budget /\ Budget \in Nat
  BY SameCardinality DEF SInv, Segments!BudgetExact, Holding, SegmentConstants
<1>5. bytes' = Cardinality(Holding') /\ bytes' <= Budget
  BY <1>2, <1>3, <1>4
<1> QED
  BY <1>3, <1>5, SameCardinality DEF Segments!BudgetExact, Holding

(* A request arrives: it goes to the store only for a hot range.            *)
LEMMA ArriveKeeps == SegmentConstants /\ SInv /\ Segments!Arrive => SInv'
<1> SUFFICES ASSUME SegmentConstants, SInv, NEW r \in Viewers, Segments!Is(r, "new"),
      Segments!Goes(r, IF hot[RangeOf[r]] < HotThreshold - 1 THEN "joins" ELSE "checks"),
      UNCHANGED <<flights, given, bytes, hot, stored, bad>>
    PROVE SInv'
  BY DEF Segments!Arrive
<1> USE DEF SInv, SegmentCall
<1>1. SegmentsTyped'
  BY DEF SegmentsTyped, Segments!Goes, Early
<1>2. Segments!BudgetExact'
  BY <1>1, SetStep DEF Holding, SegmentsTyped, Segments!Goes, Segments!Is
<1>3. Unserved' /\ FollowerKnowsLeader' /\ Segments!FlightIsItsLeaders'
  BY DEF Unserved, FollowerKnowsLeader, Segments!FlightIsItsLeaders,
     SegmentsTyped, Segments!Goes, Segments!Is, Early
<1>4. LeaderAtWork'
  BY DEF LeaderAtWork, SegmentsTyped, Segments!Goes, Segments!Is, Early, AtCdn
<1> QED
  BY <1>1, <1>2, <1>3, <1>4

(* The store is asked for the segment.                                      *)
LEMMA GetKeeps == SegmentConstants /\ SInv /\ Segments!GetSegment => SInv'
<1> SUFFICES ASSUME SegmentConstants, SInv, NEW r \in Viewers, Segments!Is(r, "checks"),
      Segments!Goes(r, IF RangeOf[r] \in stored THEN "served" ELSE "joins"),
      UNCHANGED <<flights, given, bytes, hot, stored, bad>>
    PROVE SInv'
  BY DEF Segments!GetSegment
<1> USE DEF SInv, SegmentCall
<1>1. SegmentsTyped'
  BY DEF SegmentsTyped, Segments!Goes, Early
<1>2. Segments!BudgetExact'
  BY <1>1, SetStep DEF Holding, SegmentsTyped, Segments!Goes, Segments!Is,
     Unserved, Early
<1>3. Unserved' /\ FollowerKnowsLeader' /\ Segments!FlightIsItsLeaders'
  BY DEF Unserved, FollowerKnowsLeader, Segments!FlightIsItsLeaders,
     SegmentsTyped, Segments!Goes, Segments!Is, Early
<1>4. LeaderAtWork'
  BY DEF LeaderAtWork, SegmentsTyped, Segments!Goes, Segments!Is, Early, AtCdn
<1> QED
  BY <1>1, <1>2, <1>3, <1>4

(* A request follows the flight of its range, starts one, or goes alone     *)
(* when the map is full.                                                    *)
LEMMA JoinKeeps ==
  SegmentConstants /\ SInv /\ Segments!JoinSegmentFlight => SInv'
<1> SUFFICES ASSUME SegmentConstants, SInv, Segments!JoinSegmentFlight PROVE SInv'
  OBVIOUS
<1> USE DEF SInv, SegmentCall
<1>1. PICK r \in Viewers :
        /\ Segments!Is(r, "joins") /\ UNCHANGED <<given, bytes, stored, bad>>
        /\ \/ /\ flights[RangeOf[r]] # Segments!NoFlight
              /\ req' = [req EXCEPT ![r] = [[req[r] EXCEPT !.joined = TRUE]
                   EXCEPT !.at = "waits", !.flight = flights[RangeOf[r]]]]
              /\ hot' = [hot EXCEPT ![RangeOf[r]] = @ + 1]
              /\ UNCHANGED flights
           \/ Segments!Goes(r, "fetches") /\ UNCHANGED <<flights, hot>>
           \/ /\ flights[RangeOf[r]] = Segments!NoFlight
              /\ req' = [req EXCEPT ![r] = [[req[r] EXCEPT !.joined = TRUE]
                   EXCEPT !.at = "fetches", !.leads = TRUE]]
              /\ hot' = [hot EXCEPT ![RangeOf[r]] = @ + 1]
              /\ flights' = [flights EXCEPT ![RangeOf[r]] = r]
  BY DEF Segments!JoinSegmentFlight
<1>2. RangeOf[r] \in Ranges /\ req[r] \in SegmentCall
  BY DEF SegmentConstants, SegmentsTyped
<1>3. ~req[r].leads /\ ~req[r].reserved /\ given[r] = "none"
  BY <1>1 DEF Unserved, Segments!Is, Early
<1>4. /\ req' \in [Viewers -> SegmentCall]
      /\ \A x \in Viewers \ {r} : req'[x] = req[x]
      /\ req'[r].reserved = FALSE
      /\ \/ /\ req'[r].at = "waits" /\ req'[r].leads = FALSE
            /\ req'[r].flight = flights[RangeOf[r]] /\ flights[RangeOf[r]] # Segments!NoFlight
            /\ flights' = flights
         \/ /\ req'[r].at = "fetches"
            /\ \/ flights' = flights
               \/ /\ flights[RangeOf[r]] = Segments!NoFlight
                  /\ flights' = [flights EXCEPT ![RangeOf[r]] = r]
  <2> DEFINE x == [req[r] EXCEPT !.joined = TRUE]
  <2>1. x \in SegmentCall
        /\ x.reserved = FALSE /\ x.leads = FALSE
    BY <1>2, <1>3
  <2>2. flights[RangeOf[r]] \in Viewers \cup {Segments!NoFlight}
    BY <1>2 DEF SegmentsTyped
  <2> HIDE DEF x
  <2>3. ASSUME flights[RangeOf[r]] # Segments!NoFlight,
               req' = [req EXCEPT ![r] = [x EXCEPT !.at = "waits", !.flight = flights[RangeOf[r]]]],
               UNCHANGED flights
        PROVE  <1>4
    BY <2>1, <2>2, <2>3 DEF SegmentsTyped, Early
  <2>4. ASSUME Segments!Goes(r, "fetches"), UNCHANGED flights PROVE <1>4
    BY <1>2, <1>3, <2>4 DEF SegmentsTyped, Segments!Goes, AtCdn
  <2>5. ASSUME flights[RangeOf[r]] = Segments!NoFlight,
               req' = [req EXCEPT ![r] = [x EXCEPT !.at = "fetches", !.leads = TRUE]],
               flights' = [flights EXCEPT ![RangeOf[r]] = r]
        PROVE  <1>4
    BY <2>1, <2>5 DEF SegmentsTyped, AtCdn
  <2> QED
    BY <1>1, <2>3, <2>4, <2>5 DEF x
<1>5. SegmentsTyped'
  BY <1>1, <1>2, <1>4 DEF SegmentsTyped
<1>6. Segments!BudgetExact'
  <2>1. r \notin Holding /\ r \notin Holding' /\ bytes' = bytes /\ bytes \in Nat
    BY <1>1, <1>3, <1>4 DEF Holding, SegmentsTyped
  <2> QED
    BY <1>4, <2>1, SetStep
<1>7. Unserved'
  BY <1>1, <1>3, <1>4 DEF Unserved, Segments!Is, Early
<1>8. LeaderAtWork'
  BY <1>1, <1>2, <1>3, <1>4 DEF LeaderAtWork, SegmentsTyped, SegmentConstants,
     Segments!Is, Early, AtCdn
<1>9. FollowerKnowsLeader'
  BY <1>1, <1>2, <1>3, <1>4 DEF FollowerKnowsLeader, LeaderAtWork,
     SegmentsTyped, SegmentConstants, Segments!Is
<1>10. Segments!FlightIsItsLeaders'
  BY <1>1, <1>3, <1>4 DEF Segments!FlightIsItsLeaders, Segments!Is
<1> QED
  BY <1>5, <1>6, <1>7, <1>8, <1>9, <1>10

(* A flight that takes too long is taken from the map with a late answer.   *)
LEMMA TimeoutKeeps ==
  SegmentConstants /\ SInv /\ Segments!FlightTimesOut => SInv'
<1> SUFFICES ASSUME SegmentConstants, SInv, NEW k \in Ranges,
      flights[k] # Segments!NoFlight, bad > 0, bad' = bad - 1,
      given' = [given EXCEPT ![flights[k]] = "late"],
      flights' = [flights EXCEPT ![k] = Segments!NoFlight],
      UNCHANGED <<req, bytes, hot, stored>>
    PROVE SInv'
  BY DEF Segments!FlightTimesOut
<1> USE DEF SInv, SegmentCall
<1>1. flights[k] \in Viewers /\ RangeOf[flights[k]] = k /\ req[flights[k]].at \in AtCdn
  BY DEF SegmentsTyped, LeaderAtWork
<1>2. SegmentsTyped'
  BY <1>1 DEF SegmentsTyped
<1>3. Unserved' /\ Segments!FlightIsItsLeaders'
  BY <1>1 DEF Unserved, Segments!FlightIsItsLeaders, SegmentsTyped,
     Segments!Is, Early, AtCdn
<1>4. LeaderAtWork'
  BY <1>1 DEF LeaderAtWork, SegmentsTyped, Segments!Is
<1>5. FollowerKnowsLeader'
  BY <1>1 DEF FollowerKnowsLeader, SegmentsTyped, SegmentConstants,
     Segments!Is
<1>6. Segments!BudgetExact'
  BY DEF Segments!BudgetExact
<1> QED
  BY <1>2, <1>3, <1>4, <1>5, <1>6

(* A follower is served with what the leader gave, or goes to the CDN.      *)
LEMMA FollowKeeps ==
  SegmentConstants /\ SInv /\ Segments!FollowerGoesOn => SInv'
<1> SUFFICES ASSUME SegmentConstants, SInv, NEW r \in Viewers,
      Segments!Is(r, "waits"), given[req[r].flight] # "none",
      Segments!Goes(r, IF given[req[r].flight] = "payload" THEN "served" ELSE "fetches"),
      UNCHANGED <<flights, given, bytes, hot, stored, bad>>
    PROVE SInv'
  BY DEF Segments!FollowerGoesOn
<1> USE DEF SInv, SegmentCall
<1>1. SegmentsTyped'
  BY DEF SegmentsTyped, Segments!Goes, AtCdn
<1>2. ~req[r].leads /\ ~req[r].reserved /\ given[r] = "none"
  BY DEF Unserved, Segments!Is, Early
<1>3. Segments!BudgetExact'
  BY <1>1, <1>2, SetStep DEF Holding, SegmentsTyped, Segments!Goes,
     Segments!Is
<1>4. Unserved' /\ FollowerKnowsLeader' /\ Segments!FlightIsItsLeaders'
  BY <1>2 DEF Unserved, FollowerKnowsLeader, Segments!FlightIsItsLeaders,
     SegmentsTyped, Segments!Goes, Segments!Is, Early
<1>5. LeaderAtWork'
  BY <1>2 DEF LeaderAtWork, SegmentsTyped, Segments!Goes, Segments!Is, AtCdn
<1> QED
  BY <1>1, <1>3, <1>4, <1>5

(* A flight that ends is taken from the map with what it gave.              *)
LEMMA CompleteKeeps ==
  ASSUME SegmentConstants, SInv, NEW r \in Viewers,
         NEW payload \in {"null", "payload"}, Segments!Complete(r, payload)
  PROVE  /\ flights' \in [Ranges -> Viewers \cup {Segments!NoFlight}]
         /\ given' \in [Viewers -> {"none", "null", "late", "payload"}]
         /\ \A k \in Ranges : flights'[k] # Segments!NoFlight =>
              flights'[k] = flights[k] /\ flights[k] # r /\ given'[flights[k]] = given[flights[k]]
         /\ \A x \in Viewers : given'[x] = "none" => given[x] = "none" /\
              \A k \in Ranges : flights[k] = x => flights'[k] = x
         /\ \A x \in Viewers \ {r} : given'[x] = given[x]
         /\ given'[r] # given[r] => req[r].at \in AtCdn
         /\ given'[r] = "null" => given[r] = "null" \/ flights[RangeOf[r]] = r
<1> USE DEF SInv, SegmentCall
<1>1. CASE flights[RangeOf[r]] # r
  BY <1>1 DEF Segments!Complete, SegmentsTyped, LeaderAtWork
<1>2. CASE flights[RangeOf[r]] = r
  <2>1. /\ flights' = [flights EXCEPT ![RangeOf[r]] = Segments!NoFlight]
        /\ given' = [given EXCEPT ![r] = payload]
    BY <1>2 DEF Segments!Complete
  <2>2. RangeOf[r] \in Ranges /\ req[r].at \in AtCdn
    BY <1>2 DEF SegmentConstants, LeaderAtWork
  <2>3. \A k \in Ranges : flights[k] = r => k = RangeOf[r]
    BY DEF LeaderAtWork, SegmentConstants
  <2> QED
    BY <1>2, <2>1, <2>2, <2>3 DEF SegmentsTyped, SegmentConstants
<1> QED
  BY <1>1, <1>2

(* A request that streams, ends or stores, and its flight with it.          *)
LEMMA CdnStep ==
  ASSUME SegmentConstants, SInv, NEW r \in Viewers,
         req' \in [Viewers -> SegmentCall],
         \A x \in Viewers \ {r} : req'[x] = req[x],
         req'[r].at \in {"streams", "stores", "served", "failed"},
         \/ /\ \E payload \in {"null", "payload"} : Segments!Complete(r, payload)
            /\ req'[r].at = "streams" => ~req'[r].reserved
         \/ /\ UNCHANGED <<flights, given>>
            /\ \/ Segments!Is(r, "fetches") /\ req'[r].at = "streams" /\ req'[r].reserved
               \/ Segments!Is(r, "stores") /\ req'[r].at = "served"
  PROVE  /\ flights' \in [Ranges -> Viewers \cup {Segments!NoFlight}]
         /\ given' \in [Viewers -> {"none", "null", "late", "payload"}]
         /\ Unserved' /\ LeaderAtWork' /\ FollowerKnowsLeader'
         /\ Segments!FlightIsItsLeaders'
<1> USE DEF SInv, SegmentCall
<1>1. CASE /\ \E payload \in {"null", "payload"} : Segments!Complete(r, payload)
           /\ req'[r].at = "streams" => ~req'[r].reserved
  <2>1. /\ flights' \in [Ranges -> Viewers \cup {Segments!NoFlight}]
        /\ given' \in [Viewers -> {"none", "null", "late", "payload"}]
        /\ \A k \in Ranges : flights'[k] # Segments!NoFlight =>
             flights'[k] = flights[k] /\ flights[k] # r /\ given'[flights[k]] = given[flights[k]]
        /\ \A x \in Viewers : given'[x] = "none" => given[x] = "none" /\
             \A k \in Ranges : flights[k] = x => flights'[k] = x
        /\ \A x \in Viewers \ {r} : given'[x] = given[x]
    BY <1>1, CompleteKeeps
  <2>2. req'[r].at = "streams" => ~req'[r].reserved
    BY <1>1 DEF Segments!Is
  <2>3. Unserved'
    <3>1. \A x \in Viewers \ {r} : given'[x] = given[x] /\ req'[x] = req[x]
      BY <2>1
    <3>2. req'[r].at \notin Early /\ req'[r].at # "fetches"
      BY DEF Early
    <3> QED
      BY <3>1, <3>2 DEF Unserved, Segments!Is
  <2>4. LeaderAtWork'
    BY <2>1 DEF LeaderAtWork, SegmentsTyped, Segments!Is
  <2>5. FollowerKnowsLeader'
    BY <2>1 DEF FollowerKnowsLeader, Segments!Is, SegmentConstants
  <2>6. Segments!FlightIsItsLeaders'
    BY <2>1, <2>2 DEF Segments!FlightIsItsLeaders, Segments!Is
  <2> QED
    BY <2>1, <2>3, <2>4, <2>5, <2>6
<1>2. CASE /\ UNCHANGED <<flights, given>>
           /\ \/ Segments!Is(r, "fetches") /\ req'[r].at = "streams" /\ req'[r].reserved
              \/ Segments!Is(r, "stores") /\ req'[r].at = "served"
  <2>1. Unserved'
    BY <1>2 DEF Unserved, Segments!Is, Early
  <2>2. LeaderAtWork'
    BY <1>2 DEF LeaderAtWork, SegmentsTyped, Segments!Is, AtCdn
  <2>3. FollowerKnowsLeader'
    BY <1>2 DEF FollowerKnowsLeader, Segments!Is, SegmentConstants
  <2>4. Segments!FlightIsItsLeaders'
    BY <1>2 DEF Segments!FlightIsItsLeaders, Segments!Is
  <2> QED
    BY <1>2, <2>1, <2>2, <2>3, <2>4 DEF SegmentsTyped
<1> QED
  BY <1>1, <1>2

(* The CDN answers: who collects reserves bytes, who does not frees its     *)
(* followers at once.                                                       *)
LEMMA AnswerKeeps ==
  SegmentConstants /\ SInv /\ Segments!UpstreamAnswers => SInv'
<1> SUFFICES ASSUME SegmentConstants, SInv, Segments!UpstreamAnswers PROVE SInv'
  OBVIOUS
<1> USE DEF SInv, SegmentCall
<1>1. PICK r \in Viewers, small \in BOOLEAN, caches \in BOOLEAN, collects \in BOOLEAN :
        /\ Segments!Is(r, "fetches") /\ (small \/ bad > 0)
        /\ bad' = bad - IF small THEN 0 ELSE 1
        /\ hot' = IF small /\ ~req[r].joined THEN [hot EXCEPT ![RangeOf[r]] = @ + 1]
                  ELSE hot
        /\ req' = [req EXCEPT ![r] = [@ EXCEPT !.at = "streams",
                                      !.caches = caches, !.reserved = collects]]
        /\ bytes' = bytes + IF collects THEN 1 ELSE 0
        /\ collects => bytes < Budget
        /\ IF collects THEN UNCHANGED <<flights, given>> ELSE Segments!Complete(r, "null")
  <2>1. PICK r \in Viewers, small \in BOOLEAN : Segments!UpstreamAnswers!(r, small)
    BY DEF Segments!UpstreamAnswers
  <2> QED
    BY <2>1
<1>2. /\ req' \in [Viewers -> SegmentCall]
      /\ \A x \in Viewers \ {r} : req'[x] = req[x]
      /\ req'[r].at = "streams" /\ req'[r].reserved = collects
  <2> DEFINE x == [at |-> "streams", flight |-> req[r].flight, leads |-> req[r].leads,
                   reserved |-> collects, caches |-> caches, joined |-> req[r].joined]
  <2>1. req' = [req EXCEPT ![r] = x]
    <3>1. req' = [req EXCEPT ![r] = [req[r] EXCEPT !.at = "streams",
                                       !.caches = caches, !.reserved = collects]]
      BY <1>1 DEF SegmentsTyped
    <3>2. [req[r] EXCEPT !.at = "streams", !.caches = caches, !.reserved = collects] = x
      <4> DEFINE y == [req[r] EXCEPT !.at = "streams"]
      <4>1. y = [at |-> "streams", flight |-> req[r].flight, leads |-> req[r].leads,
                 reserved |-> req[r].reserved, caches |-> req[r].caches,
                 joined |-> req[r].joined]
        BY DEF SegmentsTyped
      <4> HIDE DEF y
      <4> DEFINE z == [y EXCEPT !.caches = caches]
      <4>2. z = [at |-> "streams", flight |-> req[r].flight, leads |-> req[r].leads,
                 reserved |-> req[r].reserved, caches |-> caches,
                 joined |-> req[r].joined]
        BY <4>1
      <4> HIDE DEF z
      <4>3. [z EXCEPT !.reserved = collects] = x
        BY <4>2
      <4> QED
        BY <4>3 DEF y, z
    <3> QED
      BY <3>1, <3>2
  <2>2. x \in SegmentCall
    BY DEF SegmentsTyped, AtCdn
  <2> QED
    BY <2>1, <2>2 DEF SegmentsTyped
<1>3. /\ flights' \in [Ranges -> Viewers \cup {Segments!NoFlight}]
      /\ given' \in [Viewers -> {"none", "null", "late", "payload"}]
      /\ Unserved' /\ LeaderAtWork' /\ FollowerKnowsLeader' /\ Segments!FlightIsItsLeaders'
  BY <1>1, <1>2, CdnStep
<1>4. hot' \in [Ranges -> Nat] /\ bad' \in Nat
  BY <1>1 DEF SegmentsTyped, SegmentConstants
<1>5. Segments!BudgetExact' /\ bytes' \in Nat
  <2>1. /\ r \notin Holding /\ (r \in Holding' <=> collects)
        /\ bytes \in Nat /\ bytes' = bytes + IF collects THEN 1 ELSE 0
    BY <1>1, <1>2 DEF Holding, Segments!Is, SegmentsTyped
  <2> QED
    BY <1>1, <1>2, <2>1, SetStep
<1> QED
  BY <1>2, <1>3, <1>4, <1>5 DEF SegmentsTyped

(* A stream ends, whole or cut: its flight ends with it, and only a whole   *)
(* one that is to be cached is stored.                                      *)
LEMMA EndKeeps == SegmentConstants /\ SInv /\ Segments!StreamEnds => SInv'
<1> SUFFICES ASSUME SegmentConstants, SInv, NEW r \in Viewers, NEW whole \in BOOLEAN,
      Segments!Is(r, "streams"), whole \/ bad > 0, bad' = bad - (IF whole THEN 0 ELSE 1),
      Segments!Flush(r, whole),
      IF req[r].reserved /\ req[r].caches /\ whole
      THEN Segments!Goes(r, "stores") /\ UNCHANGED bytes
      ELSE Segments!Goes(r, "served") /\ Segments!Release(r),
      UNCHANGED <<hot, stored>>
    PROVE SInv'
  BY DEF Segments!StreamEnds
<1> USE DEF SInv, SegmentCall
<1>1. /\ req' \in [Viewers -> SegmentCall]
      /\ \A x \in Viewers \ {r} : req'[x] = req[x]
      /\ req'[r].reserved = req[r].reserved
      /\ \/ req'[r].at = "stores" /\ bytes' = bytes /\ req[r].reserved
         \/ req'[r].at = "served" /\ bytes' = bytes - IF req[r].reserved THEN 1 ELSE 0
  BY DEF SegmentsTyped, Segments!Goes, Segments!Release
<1>2. \E payload \in {"null", "payload"} : Segments!Complete(r, payload)
  BY DEF Segments!Flush
<1>3. /\ flights' \in [Ranges -> Viewers \cup {Segments!NoFlight}]
      /\ given' \in [Viewers -> {"none", "null", "late", "payload"}]
      /\ Unserved' /\ LeaderAtWork' /\ FollowerKnowsLeader' /\ Segments!FlightIsItsLeaders'
  BY <1>1, <1>2, CdnStep
<1>4. Segments!BudgetExact' /\ bytes' \in Nat
  <2>1. /\ r \in Holding <=> req[r].reserved
        /\ r \in Holding' <=> req[r].reserved /\ req'[r].at = "stores"
        /\ bytes \in Nat
    BY <1>1 DEF Holding, Segments!Is, SegmentsTyped
  <2> QED
    BY <1>1, <2>1, SetStep
<1>5. bad' \in Nat
  BY DEF SegmentsTyped
<1> QED
  BY <1>1, <1>3, <1>4, <1>5 DEF SegmentsTyped

(* A request fails: its flight ends empty and its bytes are given back.     *)
LEMMA FailKeeps == SegmentConstants /\ SInv /\ Segments!RequestFails => SInv'
<1> SUFFICES ASSUME SegmentConstants, SInv, NEW r \in Viewers,
      req[r].at \in {"fetches", "streams"}, bad > 0, bad' = bad - 1,
      Segments!Goes(r, "failed"), Segments!Release(r), Segments!Complete(r, "null"),
      UNCHANGED <<hot, stored>>
    PROVE SInv'
  BY DEF Segments!RequestFails
<1> USE DEF SInv, SegmentCall
<1>1. /\ req' \in [Viewers -> SegmentCall]
      /\ \A x \in Viewers \ {r} : req'[x] = req[x]
      /\ req'[r].at = "failed"
      /\ bytes' = bytes - IF req[r].reserved THEN 1 ELSE 0
  BY DEF SegmentsTyped, Segments!Goes, Segments!Release
<1>2. /\ flights' \in [Ranges -> Viewers \cup {Segments!NoFlight}]
      /\ given' \in [Viewers -> {"none", "null", "late", "payload"}]
      /\ Unserved' /\ LeaderAtWork' /\ FollowerKnowsLeader' /\ Segments!FlightIsItsLeaders'
  BY <1>1, CdnStep
<1>3. Segments!BudgetExact' /\ bytes' \in Nat
  <2>1. (r \in Holding <=> req[r].reserved) /\ r \notin Holding' /\ bytes \in Nat
    BY <1>1 DEF Holding, Segments!Is, SegmentsTyped, Unserved
  <2> QED
    BY <1>1, <2>1, SetStep
<1>4. bad' \in Nat
  BY DEF SegmentsTyped
<1> QED
  BY <1>1, <1>2, <1>3, <1>4 DEF SegmentsTyped

(* A segment is stored and its bytes are given back.                        *)
LEMMA StoreKeeps == SegmentConstants /\ SInv /\ Segments!StoreSegment => SInv'
<1> SUFFICES ASSUME SegmentConstants, SInv, NEW r \in Viewers,
      Segments!Is(r, "stores"), Segments!Goes(r, "served"), Segments!Release(r),
      UNCHANGED <<flights, given, hot, bad>>
    PROVE SInv'
  BY DEF Segments!StoreSegment
<1> USE DEF SInv, SegmentCall
<1>1. /\ req' \in [Viewers -> SegmentCall]
      /\ \A x \in Viewers \ {r} : req'[x] = req[x]
      /\ req'[r].at = "served"
      /\ bytes' = bytes - IF req[r].reserved THEN 1 ELSE 0
  BY DEF SegmentsTyped, Segments!Goes, Segments!Release
<1>2. /\ flights' \in [Ranges -> Viewers \cup {Segments!NoFlight}]
      /\ given' \in [Viewers -> {"none", "null", "late", "payload"}]
      /\ Unserved' /\ LeaderAtWork' /\ FollowerKnowsLeader' /\ Segments!FlightIsItsLeaders'
  BY <1>1, CdnStep
<1>3. Segments!BudgetExact' /\ bytes' \in Nat
  <2>1. (r \in Holding <=> req[r].reserved) /\ r \notin Holding' /\ bytes \in Nat
    BY <1>1 DEF Holding, Segments!Is, SegmentsTyped
  <2> QED
    BY <1>1, <2>1, SetStep
<1> QED
  BY <1>1, <1>2, <1>3 DEF SegmentsTyped

(* Every reachable state satisfies the invariant.                           *)
LEMMA SInvHolds == ASSUME SegmentConstants PROVE Segments!Spec => []SInv
<1>0. Segments!Init => SInv
  BY SInit
<1>1. SInv /\ [Segments!Next]_(Segments!vars) => SInv'
  <2>1. CASE UNCHANGED Segments!vars
    BY <2>1 DEF SInv, SegmentsTyped, Unserved, LeaderAtWork,
       FollowerKnowsLeader, Segments!FlightIsItsLeaders, Segments!BudgetExact,
       Segments!Is, Segments!vars
  <2> QED
    BY <2>1, ArriveKeeps, GetKeeps, JoinKeeps, TimeoutKeeps, FollowKeeps,
       AnswerKeeps, EndKeeps, FailKeeps, StoreKeeps DEF Segments!Next
<1> QED
  BY <1>0, <1>1, PTL DEF Segments!Spec

(* The invariant implies what the run checks.                               *)
LEMMA SInvSafe == SegmentConstants /\ SInv => Segments!FlightsSafe
<1> SUFFICES ASSUME SegmentConstants, SInv PROVE Segments!FlightsSafe
  OBVIOUS
<1>1. Segments!WholeSegments
  BY DEF SInv, SegmentsTyped, Segments!WholeSegments
<1>2. Segments!NoStrandedFollower
  BY DEF SInv, SegmentsTyped, Segments!NoStrandedFollower,
     FollowerKnowsLeader, LeaderAtWork, AtCdn, Segments!Is, SegmentConstants,
     Segments!NoFlight
<1> QED
  BY <1>1, <1>2 DEF SInv, Segments!FlightsSafe

(* For any number of requests, ranges, flights and bytes: nobody waits for  *)
(* a flight that no leader will end, who is served got a whole segment, and *)
(* the bytes reserved are those of the requests that hold them, never more  *)
(* than the budget.                                                         *)
THEOREM SegmentFlightsAreSafe ==
  ASSUME SegmentConstants PROVE Segments!Spec => []Segments!FlightsSafe
<1>1. SInv => Segments!FlightsSafe
  BY SInvSafe
<1> QED
  BY <1>1, SInvHolds, PTL

-----------------------------------------------------------------------------
(***************************************************************************)
(* A lane of the upstream parser.                                          *)
(***************************************************************************)

(* Tasks are numbered in the order of their calls; 0 is no task.            *)
ParserConstants == Tasks \subseteq Nat \ {Parser!Nil}

(* What a caller may have got. Nobody is told twice.                        *)
Outcomes == {"unborn", "refused", "waiting", "failed", "timeout", "parsed"}
ThreadStates == [todo : Seq(Tasks), tells : Seq(Tasks \cup {Parser!Nil}), alive : BOOLEAN]
ParserStates ==
  [worker : Nat, active : Tasks \cup {Parser!Nil}, queue : Seq(Tasks),
   threads : Seq(ThreadStates), outcome : [Tasks -> Outcomes]]

(* t waits in the queue of x.                                               *)
Queued(x, t) == \E i \in 1 .. Len(x.queue) : x.queue[i] = t
(* No task is queued twice, and the active one is not queued.               *)
EachQueuedOnce(x) ==
  /\ \A i, j \in 1 .. Len(x.queue) :
       x.queue[i] = x.queue[j] => i = j
  /\ \A i \in 1 .. Len(x.queue) : x.queue[i] # x.active
(* Who waits is active or queued, and nobody else is.                       *)
WaitingAreKnown(x) ==
  \A t \in Tasks :
    x.outcome[t] = "waiting" <=> t = x.active \/ Queued(x, t)

(* A thread with nothing to do and nothing to tell; one that is at the task *)
(* t or has parsed it; one whose exit has not been heard of.                *)
IdleThread(th) == th.todo = <<>> /\ th.tells = <<>>
BusyThread(th, t) ==
  \/ th.todo = <<t>> /\ th.tells = <<>>
  \/ th.todo = <<>> /\ th.tells = <<t>>
ExitIsComing(th) == th.tells # <<>> /\ th.tells[Len(th.tells)] = Parser!Nil
(* A thread that is alive is the lane's worker, at its active task.         *)
AliveIsTheWorker(x) ==
  \A w \in 1 .. Len(x.threads) : x.threads[w].alive =>
    /\ w = x.worker
    /\ IF x.active = Parser!Nil THEN IdleThread(x.threads[w])
       ELSE BusyThread(x.threads[w], x.active)
(* An active task has a worker, which if it is dead will be heard to have   *)
(* exited.                                                                  *)
WorkerAnswers(x) ==
  /\ x.worker \in 0 .. Len(x.threads)
  /\ x.active # Parser!Nil => x.worker # Parser!Nil
  /\ x.worker # Parser!Nil /\ ~x.threads[x.worker].alive =>
       ExitIsComing(x.threads[x.worker])

(* A lane that can be dispatched, and one that has been.                    *)
Ready(x) ==
  /\ x \in ParserStates /\ EachQueuedOnce(x) /\ WaitingAreKnown(x)
  /\ AliveIsTheWorker(x) /\ WorkerAnswers(x)
Sound(x) == Ready(x) /\ (x.queue # <<>> => x.active # Parser!Nil)

(* The inductive invariant. That the lane runs needs to know where each     *)
(* worker is: what an event that is overdue means depends on it.               *)
PInv == Sound(Parser!Now) /\ overdue \subseteq Tasks

-----------------------------------------------------------------------------
(* The lane starts empty.                                                   *)
LEMMA PInit == ParserConstants /\ Parser!Init => PInv
<1> SUFFICES ASSUME ParserConstants, Parser!Init PROVE PInv
  OBVIOUS
<1>1. /\ Parser!Now.worker = 0 /\ Parser!Now.active = 0 /\ Parser!Now.queue = <<>>
      /\ Parser!Now.threads = <<>> /\ Parser!Now.outcome = [t \in Tasks |-> "unborn"]
  BY DEF Parser!Init, Parser!Now, Parser!Nil
<1>3. Parser!Now \in ParserStates
  <2>1. <<>> \in Seq(Tasks) /\ <<>> \in Seq(ThreadStates)
    BY EmptySeq
  <2> QED
    BY <2>1 DEF Parser!Now, ParserStates, Parser!Init, Outcomes, Parser!Nil
<1>4. EachQueuedOnce(Parser!Now) /\ WaitingAreKnown(Parser!Now)
  BY <1>1 DEF EachQueuedOnce, WaitingAreKnown, Queued, ParserConstants,
     Parser!Nil
<1>5. AliveIsTheWorker(Parser!Now) /\ WorkerAnswers(Parser!Now)
  BY <1>1 DEF AliveIsTheWorker, WorkerAnswers, Parser!Nil
<1> QED
  BY <1>1, <1>3, <1>4, <1>5 DEF PInv, Sound, Ready, Parser!Init

(* The fields of a state have their types.                                  *)
LEMMA TypedFields ==
  ASSUME NEW x \in ParserStates
  PROVE  /\ x.worker \in Nat
         /\ x.active \in Tasks \cup {Parser!Nil} /\ x.queue \in Seq(Tasks)
         /\ Len(x.queue) \in Nat
         /\ \A i \in 1 .. Len(x.queue) : x.queue[i] \in Tasks
         /\ x.threads \in Seq(ThreadStates) /\ Len(x.threads) \in Nat
         /\ \A w \in 1 .. Len(x.threads) : x.threads[w] \in ThreadStates
         /\ DOMAIN x.threads = 1 .. Len(x.threads)
         /\ x.outcome \in [Tasks -> Outcomes]
<1>1. /\ x.worker \in Nat /\ x.active \in Tasks \cup {Parser!Nil} /\ x.queue \in Seq(Tasks)
      /\ x.threads \in Seq(ThreadStates) /\ x.outcome \in [Tasks -> Outcomes]
  BY DEF ParserStates
<1> QED
  BY <1>1, LenProperties, ElementOfSeq

(* Terminate: the worker is dead, its exit will be told, it has nothing to do. *)
LEMMA TerminateEffect ==
  ASSUME NEW x \in ParserStates, NEW w \in 0 .. Len(x.threads)
  PROVE  LET y == Parser!Terminate(x, w)
         IN /\ y \in ParserStates /\ y.worker = x.worker /\ y.active = x.active /\ y.queue = x.queue /\ y.outcome = x.outcome
            /\ Len(y.threads) = Len(x.threads)
            /\ \A v \in 1 .. Len(x.threads) :
                 /\ v # w => y.threads[v] = x.threads[v]
                 /\ v = w => ~y.threads[v].alive
<1> DEFINE y == Parser!Terminate(x, w)
<1>0. /\ x.threads \in Seq(ThreadStates) /\ Len(x.threads) \in Nat
      /\ x.outcome \in [Tasks -> Outcomes]
      /\ DOMAIN x.threads = 1 .. Len(x.threads)
  BY TypedFields
<1>1. CASE w = Parser!Nil \/ ~x.threads[w].alive
  <2>1. y = x
    BY <1>1 DEF Parser!Terminate
  <2> QED
    BY <1>0, <1>1, <2>1 DEF Parser!Nil
<1>2. CASE ~(w = Parser!Nil \/ ~x.threads[w].alive)
  <2> DEFINE th == [todo |-> <<>>, tells |-> Append(x.threads[w].tells, Parser!Nil), alive |-> FALSE]
  <2>1. w \in 1 .. Len(x.threads)
    BY <1>0, <1>2 DEF Parser!Nil
  <2>2. th \in ThreadStates
    <3>1. x.threads[w].tells \in Seq(Tasks \cup {Parser!Nil})
      BY <2>1, TypedFields DEF ThreadStates
    <3>2. Append(x.threads[w].tells, Parser!Nil) \in Seq(Tasks \cup {Parser!Nil})
      BY <3>1, AppendProperties
    <3> QED
      BY <3>2, EmptySeq DEF ThreadStates
  <2>3. y = [x EXCEPT !.threads = [x.threads EXCEPT ![w] = th]]
    BY <1>2, <2>1 DEF Parser!Terminate, ParserStates
  <2> HIDE DEF th
  <2> DEFINE ths == [x.threads EXCEPT ![w] = th]
  <2>4. /\ ths \in Seq(ThreadStates) /\ Len(ths) = Len(x.threads)
        /\ \A v \in 1 .. Len(x.threads) : ths[v] = IF v = w THEN th ELSE x.threads[v]
    BY <1>0, <2>1, <2>2, ExceptSeq
  <2> HIDE DEF ths
  <2>5. y \in ParserStates /\ y.worker = x.worker /\ y.active = x.active /\ y.queue = x.queue /\ y.outcome = x.outcome /\ y.threads = ths
    BY <2>3, <2>4 DEF ParserStates, ths
  <2>6. ~th.alive
    BY DEF th
  <2> QED
    BY <2>4, <2>5, <2>6
<1> QED
  BY <1>1, <1>2

(* Post: the task is active, with the lane's worker or a new one.           *)
LEMMA PostSound ==
  ASSUME ParserConstants, NEW x, Ready(x), x.active = Parser!Nil, x.queue # <<>>
  PROVE  Sound(Parser!Post([x EXCEPT !.queue = Tail(@)], Head(x.queue)))
<1> DEFINE t == Head(x.queue)
           z == [x EXCEPT !.queue = Tail(@)]
           w == IF x.worker # Parser!Nil THEN x.worker ELSE Len(x.threads) + 1
           fresh == [todo |-> <<>>, tells |-> <<>>, alive |-> TRUE]
           ths == IF w \in DOMAIN x.threads THEN x.threads ELSE Append(x.threads, fresh)
           th == [ths[w] EXCEPT !.todo = Append(@, t)]
           r == Parser!Post(z, t)
<1>1. /\ x \in ParserStates /\ EachQueuedOnce(x) /\ WaitingAreKnown(x)
      /\ AliveIsTheWorker(x) /\ WorkerAnswers(x)
  BY DEF Ready
<1>2. /\ x.worker \in Nat
      /\ x.active \in Tasks \cup {Parser!Nil} /\ x.queue \in Seq(Tasks)
      /\ Len(x.queue) \in Nat
      /\ \A i \in 1 .. Len(x.queue) : x.queue[i] \in Tasks
      /\ x.threads \in Seq(ThreadStates) /\ Len(x.threads) \in Nat
      /\ \A v \in 1 .. Len(x.threads) : x.threads[v] \in ThreadStates
      /\ DOMAIN x.threads = 1 .. Len(x.threads)
      /\ x.outcome \in [Tasks -> Outcomes]
  BY <1>1, TypedFields
<1>3. /\ t \in Tasks /\ t = x.queue[1] /\ Len(x.queue) \in Nat \ {0}
      /\ Tail(x.queue) \in Seq(Tasks)
      /\ Len(Tail(x.queue)) = Len(x.queue) - 1
      /\ \A i \in 1 .. Len(x.queue) - 1 : Tail(x.queue)[i] = x.queue[i + 1]
      /\ t # Parser!Nil
  BY <1>2, HeadTailProperties, EmptySeq DEF ParserConstants, Parser!Nil
<1>4. fresh \in ThreadStates
  BY EmptySeq DEF ThreadStates
<1>5. /\ ths \in Seq(ThreadStates) /\ w \in 1 .. Len(ths)
      /\ \A v \in 1 .. Len(ths) : v # w => v \in 1 .. Len(x.threads) /\ ths[v] = x.threads[v]
      /\ x.worker # Parser!Nil => ths[w] = x.threads[w] /\ w = x.worker
      /\ x.worker = Parser!Nil => ths[w] = fresh
  <2> HIDE DEF fresh
  <2>1. CASE x.worker # Parser!Nil
    BY <1>1, <1>2, <2>1 DEF WorkerAnswers, Parser!Nil
  <2>2. CASE x.worker = Parser!Nil
    BY <1>2, <1>4, <2>2, AppendProperties
  <2> QED
    BY <2>1, <2>2
<1>6. ths[w] \in ThreadStates
  BY <1>5, ElementOfSeq
<1> HIDE DEF ths, fresh, w, t
<1>7. /\ th \in ThreadStates /\ th.alive = ths[w].alive /\ th.tells = ths[w].tells
      /\ th.todo = Append(ths[w].todo, t)
  <2>1. Append(ths[w].todo, t) \in Seq(Tasks)
    BY <1>3, <1>6, AppendProperties DEF ThreadStates
  <2> QED
    BY <1>6, <2>1 DEF ThreadStates
<1> HIDE DEF th
<1> DEFINE rs == [ths EXCEPT ![w] = th]
<1>9. /\ rs \in Seq(ThreadStates) /\ Len(rs) = Len(ths) /\ rs[w] = th
      /\ \A v \in 1 .. Len(ths) : v # w => rs[v] = ths[v]
  BY <1>5, <1>7, ExceptSeq
<1>8. r = [[x EXCEPT !.queue = Tail(x.queue)]
              EXCEPT !.worker = w, !.active = t, !.threads = rs]
  <2>1. z.worker = x.worker /\ z.threads = x.threads
    BY <1>1 DEF ParserStates
  <2> HIDE DEF z
  <2>2. r = [z EXCEPT !.worker = w, !.active = t, !.threads = rs]
    BY <2>1 DEF Parser!Post, w, fresh, ths, th
  <2> QED
    BY <2>2 DEF z
<1> HIDE DEF r, rs
<1>10. /\ r.worker = w /\ r.active = t /\ r.queue = Tail(x.queue)
       /\ r.threads = rs /\ r.outcome = x.outcome
       /\ r = [worker |-> w, active |-> t, queue |-> Tail(x.queue),
               threads |-> rs, outcome |-> x.outcome]
  BY <1>1, <1>8 DEF ParserStates
<1>12. r \in ParserStates
  BY <1>2, <1>3, <1>5, <1>9, <1>10 DEF ParserStates
<1>13. EachQueuedOnce(r)
  BY <1>1, <1>2, <1>3, <1>10 DEF EachQueuedOnce
<1>14. WaitingAreKnown(r)
  <2>1. ASSUME NEW u \in Tasks PROVE Queued(x, u) <=> u = t \/ Queued(r, u)
    <3>1. ASSUME NEW i \in 1 .. Len(x.queue), x.queue[i] = u, u # t
          PROVE  i - 1 \in 1 .. Len(r.queue) /\ r.queue[i - 1] = u
      BY <1>3, <1>10, <3>1
    <3>2. ASSUME NEW i \in 1 .. Len(r.queue), r.queue[i] = u
          PROVE  i + 1 \in 1 .. Len(x.queue) /\ x.queue[i + 1] = u
      BY <1>3, <1>10, <3>2
    <3>3. u = t => Queued(x, u)
      BY <1>3 DEF Queued
    <3> QED
      BY <3>1, <3>2, <3>3 DEF Queued
  <2> QED
    BY <1>1, <1>3, <1>10, <2>1 DEF WaitingAreKnown, ParserConstants
<1>15. AliveIsTheWorker(r)
  <2> SUFFICES ASSUME NEW v \in 1 .. Len(rs), rs[v].alive
               PROVE  v = w /\ BusyThread(rs[v], t)
    BY <1>3, <1>10 DEF AliveIsTheWorker
  <2>1. v = w
    <3>1. ASSUME v # w PROVE FALSE
      <4>1. v \in 1 .. Len(x.threads) /\ x.threads[v].alive
        BY <1>5, <1>9, <3>1
      <4>2. v = x.worker
        BY <1>1, <4>1 DEF AliveIsTheWorker
      <4> QED
        BY <1>2, <1>5, <3>1, <4>1, <4>2 DEF Parser!Nil
    <3> QED
      BY <3>1
  <2>2. ths[w].alive /\ rs[v] = th
    BY <1>7, <1>9, <2>1
  <2>3. ths[w].todo = <<>> /\ ths[w].tells = <<>>
    <3>1. CASE x.worker = Parser!Nil
      BY <1>5, <3>1 DEF fresh
    <3>2. CASE x.worker # Parser!Nil
      <4>1. w \in 1 .. Len(x.threads) /\ x.threads[w].alive /\ ths[w] = x.threads[w]
        BY <1>1, <1>2, <1>5, <2>2, <3>2 DEF WorkerAnswers, Parser!Nil
      <4> QED
        BY <1>1, <4>1 DEF AliveIsTheWorker, IdleThread
    <3> QED
      BY <3>1, <3>2
  <2>4. th.todo = <<t>> /\ th.tells = <<>>
    <3>1. Append(<<>>, t) = <<t>>
      OBVIOUS
    <3> QED
      BY <1>7, <2>3, <3>1
  <2> QED
    BY <2>1, <2>2, <2>4 DEF BusyThread
<1>16. WorkerAnswers(r)
  <2>1. w \in 1 .. Len(rs) /\ w # Parser!Nil
    BY <1>5, <1>9 DEF Parser!Nil
  <2>2. ASSUME ~th.alive PROVE ExitIsComing(th)
    <3>1. ~ths[w].alive /\ x.worker # Parser!Nil
      BY <1>5, <1>7, <2>2 DEF fresh
    <3>2. ths[w] = x.threads[x.worker]
      BY <1>5, <3>1
    <3> QED
      BY <1>1, <1>7, <3>1, <3>2 DEF WorkerAnswers, ExitIsComing
  <2> QED
    BY <1>9, <1>10, <2>1, <2>2 DEF WorkerAnswers
<1> QED
  BY <1>3, <1>10, <1>12, <1>13, <1>14, <1>15, <1>16 DEF Sound, Ready, r, z, t

(* The first n tasks of the queue fail, with or without the worker.         *)
LEMMA DropReady ==
  ASSUME ParserConstants, NEW x, Ready(x), x.active = Parser!Nil,
         NEW n \in 0 .. Len(x.queue)
  PROVE  Ready(Parser!DropFirst(x, n)) /\ Parser!DropFirst(x, n).active = Parser!Nil
<1> DEFINE failed == {x.queue[j] : j \in 1 .. n}
           spoiled == \E t \in failed : t \notin overdue
           y == IF spoiled THEN Parser!Terminate(x, x.worker) ELSE x
           q == SubSeq(x.queue, n + 1, Len(x.queue))
           wk == IF spoiled THEN Parser!Nil ELSE x.worker
           out == [t \in Tasks |->
                     IF t \notin failed THEN x.outcome[t]
                     ELSE IF x.outcome[t] = "waiting" THEN "failed" ELSE "twice"]
           z == Parser!DropFirst(x, n)
<1>1. /\ x \in ParserStates /\ EachQueuedOnce(x) /\ WaitingAreKnown(x)
      /\ AliveIsTheWorker(x) /\ WorkerAnswers(x)
  BY DEF Ready
<1>2. /\ x.worker \in Nat /\ x.queue \in Seq(Tasks) /\ Len(x.queue) \in Nat
      /\ \A i \in 1 .. Len(x.queue) : x.queue[i] \in Tasks
      /\ x.threads \in Seq(ThreadStates) /\ Len(x.threads) \in Nat
      /\ x.outcome \in [Tasks -> Outcomes]
  BY <1>1, TypedFields
<1>3. x.worker \in 0 .. Len(x.threads)
  BY <1>1 DEF WorkerAnswers
<1>4. /\ y \in ParserStates /\ y.worker = x.worker /\ y.active = x.active
      /\ y.queue = x.queue /\ y.outcome = x.outcome
      /\ Len(y.threads) = Len(x.threads)
      /\ \A v \in 1 .. Len(x.threads) :
           /\ ~spoiled \/ v # x.worker => y.threads[v] = x.threads[v]
           /\ spoiled /\ v = x.worker => ~y.threads[v].alive
  <2>1. CASE spoiled
    BY <1>1, <1>3, <2>1, TerminateEffect
  <2>2. CASE ~spoiled
    BY <1>1, <2>2
  <2> QED
    BY <2>1, <2>2
<1>14. spoiled \in BOOLEAN
  OBVIOUS
<1>15. z = [[[y EXCEPT !.queue = q] EXCEPT !.worker = wk] EXCEPT !.outcome = out]
  BY <1>4 DEF Parser!DropFirst
<1> HIDE DEF y, z, spoiled
<1>5. /\ q \in Seq(Tasks) /\ Len(q) = Len(x.queue) - n
      /\ \A i \in 1 .. Len(q) : q[i] = x.queue[n + i]
  <2>1. \A i \in n + 1 .. Len(x.queue) : x.queue[i] \in Tasks
    BY <1>2
  <2>2. /\ q \in Seq(Tasks)
        /\ Len(q) = IF n + 1 <= Len(x.queue) THEN Len(x.queue) - (n + 1) + 1 ELSE 0
        /\ \A i \in 1 .. Len(x.queue) - (n + 1) + 1 : q[i] = x.queue[(n + 1) + i - 1]
    BY <1>2, <2>1, SubSeqProperties
  <2> HIDE DEF q
  <2> QED
    BY <1>2, <2>2
<1>6. \A t \in failed : t \in Tasks /\ x.outcome[t] = "waiting"
  BY <1>1, <1>2 DEF WaitingAreKnown, Queued
<1>7. out \in [Tasks -> Outcomes]
  BY <1>2, <1>6 DEF Outcomes
<1>8. /\ z.worker = wk /\ z.active = x.active /\ z.queue = q
      /\ z.threads = y.threads /\ z.outcome = out
      /\ z = [worker |-> wk, active |-> x.active, queue |-> q,
              threads |-> y.threads, outcome |-> out]
  <2> HIDE DEF q, wk, out
  <2>2. y \in ParserStates
    BY <1>4
  <2>3. z = [worker |-> wk, active |-> y.active, queue |-> q,
             threads |-> y.threads, outcome |-> out]
    BY <1>15, <2>2 DEF ParserStates
  <2> QED
    BY <1>4, <2>3
<1> HIDE DEF q
<1>9. z \in ParserStates
  <2>1. wk \in Nat
    BY <1>2 DEF Parser!Nil
  <2> HIDE DEF wk, out
  <2> QED
    BY <1>4, <1>5, <1>7, <1>8, <2>1 DEF ParserStates
<1>10. EachQueuedOnce(z)
  <2>1. \A i \in 1 .. Len(q) : n + i \in 1 .. Len(x.queue) /\ q[i] # x.active
    BY <1>1, <1>2, <1>5 DEF EachQueuedOnce
  <2>2. \A i, j \in 1 .. Len(q) : q[i] = q[j] => i = j
    <3> SUFFICES ASSUME NEW i \in 1 .. Len(q), NEW j \in 1 .. Len(q), q[i] = q[j]
                 PROVE  i = j
      OBVIOUS
    <3>1. x.queue[n + i] = x.queue[n + j]
      BY <1>5
    <3>2. n + i = n + j
      BY <1>1, <2>1, <3>1 DEF EachQueuedOnce
    <3>3. i \in Nat /\ j \in Nat /\ n \in Nat
      BY <1>2, <1>5
    <3> QED
      BY <3>2, <3>3
  <2> QED
    BY <1>8, <2>1, <2>2 DEF EachQueuedOnce
<1>11. WaitingAreKnown(z)
  <2> SUFFICES ASSUME NEW t \in Tasks
               PROVE  out[t] = "waiting" <=> t = x.active \/ \E i \in 1 .. Len(q) : q[i] = t
    BY <1>8 DEF WaitingAreKnown, Queued
  <2>1. t # x.active
    BY DEF ParserConstants, Parser!Nil
  <2>2. x.outcome[t] = "waiting" <=> \E i \in 1 .. Len(x.queue) : x.queue[i] = t
    BY <1>1, <2>1 DEF WaitingAreKnown, Queued
  <2>3. ASSUME NEW i \in 1 .. Len(x.queue), x.queue[i] = t, t \notin failed
        PROVE  i - n \in 1 .. Len(q) /\ q[i - n] = t
    <3>1. i > n
      BY <1>2, <2>3
    <3>2. i - n \in 1 .. Len(q) /\ n + (i - n) = i
      BY <1>2, <1>5, <3>1
    <3> QED
      BY <1>5, <2>3, <3>2
  <2>4. ASSUME NEW i \in 1 .. Len(q), q[i] = t
        PROVE  n + i \in 1 .. Len(x.queue) /\ x.queue[n + i] = t /\ t \notin failed
    <3>1. n + i \in 1 .. Len(x.queue) /\ x.queue[n + i] = t
      BY <1>2, <1>5, <2>4
    <3>2. ASSUME NEW j \in 1 .. n, x.queue[j] = t PROVE FALSE
      <4>1. j \in 1 .. Len(x.queue)
        BY <1>2
      <4>2. j = n + i
        BY <1>1, <3>1, <3>2, <4>1 DEF EachQueuedOnce
      <4> QED
        BY <1>2, <1>5, <4>2
    <3> QED
      BY <3>1, <3>2
  <2>5. out[t] = "waiting" <=> x.outcome[t] = "waiting" /\ t \notin failed
    OBVIOUS
  <2> HIDE DEF failed, out
  <2> QED
    BY <2>1, <2>2, <2>3, <2>4, <2>5
<1> HIDE DEF failed, out
<1>12. AliveIsTheWorker(z)
  <2> SUFFICES ASSUME NEW v \in 1 .. Len(y.threads), y.threads[v].alive
               PROVE  v = wk /\ IdleThread(y.threads[v])
    BY <1>8 DEF AliveIsTheWorker
  <2>1. y.threads[v] = x.threads[v] /\ (~spoiled \/ v # x.worker)
    BY <1>4
  <2>2. v = x.worker /\ IdleThread(x.threads[v])
    BY <1>1, <1>4, <2>1 DEF AliveIsTheWorker
  <2> QED
    BY <2>1, <2>2
<1>13. WorkerAnswers(z)
  BY <1>1, <1>3, <1>4, <1>8 DEF WorkerAnswers, Parser!Nil
<1> QED
  BY <1>8, <1>9, <1>10, <1>11, <1>12, <1>13 DEF Ready, z

(* There is a first task that is neither overdue nor unsendable, or the end.   *)
LEMMA FirstGoodExists ==
  ASSUME NEW q \in Seq(Tasks), NEW B
  PROVE  \E i \in 0 .. Len(q) : /\ \A j \in 1 .. i : q[j] \in B
                                /\ i = Len(q) \/ q[i + 1] \notin B
<1> DEFINE S == {i \in 0 .. Len(q) : i = Len(q) \/ q[i + 1] \notin B}
<1>1. Len(q) \in Nat
  BY LenProperties
<1>2. S \in SUBSET Nat /\ S # {}
  BY <1>1
<1>3. PICK i \in S : \A k \in S : i <= k
  BY <1>2, LeastNumber
<1>4. \A j \in 1 .. i : q[j] \in B
  <2> SUFFICES ASSUME NEW j \in 1 .. i, q[j] \notin B PROVE FALSE
    OBVIOUS
  <2>1. j \in Nat /\ i \in 0 .. Len(q) /\ j <= i /\ j >= 1
    BY <1>1, <1>3
  <2>2. j - 1 \in 0 .. Len(q) /\ q[(j - 1) + 1] \notin B
    BY <1>1, <2>1
  <2>3. j - 1 \in S
    BY <2>2
  <2> QED
    BY <1>3, <2>1, <2>3
<1> QED
  BY <1>3, <1>4

(* dispatchNext leaves a lane that runs.                                    *)
LEMMA DispatchSound ==
  ASSUME ParserConstants, NEW x, Ready(x)
  PROVE  Sound(Parser!DispatchNext(x))
<1> DEFINE q == x.queue
           stale(t) == t \in overdue \/ t \in Unsendable
           n == CHOOSE i \in 0 .. Len(q) : /\ \A j \in 1 .. i : stale(q[j])
                                           /\ i = Len(q) \/ ~stale(q[i + 1])
           z == Parser!DropFirst(x, n)
<1>1. x.queue \in Seq(Tasks)
  BY TypedFields DEF Ready
<1>2. n \in 0 .. Len(q)
  <2>1. \E i \in 0 .. Len(q) : /\ \A j \in 1 .. i : q[j] \in overdue \cup Unsendable
                               /\ i = Len(q) \/ q[i + 1] \notin overdue \cup Unsendable
    BY <1>1, FirstGoodExists
  <2> QED
    BY <2>1
<1>3. CASE x.active # Parser!Nil
  BY <1>3 DEF Parser!DispatchNext, Sound
<1>4. CASE x.active = Parser!Nil
  <2>1. Ready(z) /\ z.active = Parser!Nil
    <3> HIDE DEF n
    <3> QED
      BY <1>2, <1>4, DropReady
  <2>2. Parser!DispatchNext(x) = IF z.queue = <<>> THEN z
                          ELSE Parser!Post([z EXCEPT !.queue = Tail(@)], Head(z.queue))
    BY <1>4 DEF Parser!DispatchNext
  <2> HIDE DEF z
  <2>3. z.queue # <<>> => Sound(Parser!Post([z EXCEPT !.queue = Tail(@)], Head(z.queue)))
    BY <2>1, PostSound
  <2> QED
    BY <2>1, <2>2, <2>3 DEF Sound
<1> QED
  BY <1>3, <1>4

-----------------------------------------------------------------------------
(* A lane that is sound stays so when it becomes the state.                 *)
LEMMA BecomesSound ==
  ASSUME NEW x, Sound(x), Parser!Becomes(x)
  PROVE  Sound(Parser!Now)'
<1>1. x \in ParserStates
  BY DEF Sound, Ready
<1>2. Parser!Now' = x
  <2>1. /\ lane'.worker = x.worker /\ lane'.active = x.active /\ lane'.queue = x.queue
        /\ threads' = x.threads /\ outcome' = x.outcome
    BY DEF Parser!Becomes
  <2>2. Parser!Now' = [worker |-> x.worker, active |-> x.active, queue |-> x.queue,
                threads |-> x.threads, outcome |-> x.outcome]
    BY <2>1 DEF Parser!Now
  <2> QED
    BY <1>1, <2>2 DEF ParserStates
<1> QED
  BY <1>2

(* The fields of the current state.                                         *)
LEMMA NowFields ==
  /\ Parser!Now.worker = lane.worker /\ Parser!Now.active = lane.active /\ Parser!Now.queue = lane.queue
  /\ Parser!Now.threads = threads /\ Parser!Now.outcome = outcome
BY DEF Parser!Now

(* A task that is active ends.                                              *)
LEMMA SettleActive ==
  ASSUME ParserConstants, NEW x \in ParserStates, EachQueuedOnce(x), WaitingAreKnown(x),
         x.active # Parser!Nil, NEW how \in {"failed", "timeout", "parsed"},
         NEW y \in ParserStates, y.queue = x.queue, y.active = Parser!Nil, y.outcome = x.outcome
  PROVE  LET z == Parser!Settle(y, x.active, how)
         IN /\ z = [y EXCEPT !.outcome = [x.outcome EXCEPT ![x.active] = how]]
            /\ z \in ParserStates /\ EachQueuedOnce(z) /\ WaitingAreKnown(z)
            /\ z.active = Parser!Nil /\ z.worker = y.worker /\ z.threads = y.threads
            /\ z.queue = x.queue
<1> DEFINE t == x.active
           out == [x.outcome EXCEPT ![t] = how]
           z == Parser!Settle(y, t, how)
<1>1. /\ t \in Tasks /\ x.outcome[t] = "waiting" /\ x.outcome \in [Tasks -> Outcomes]
      /\ Len(x.queue) \in Nat /\ \A i \in 1 .. Len(x.queue) : x.queue[i] \in Tasks
  BY TypedFields DEF WaitingAreKnown
<1>2. z = [y EXCEPT !.outcome = out]
  BY <1>1 DEF Parser!Settle
<1>3. out \in [Tasks -> Outcomes]
  BY <1>1 DEF Outcomes
<1>4. \A u \in Tasks : out[u] = "waiting" <=> x.outcome[u] = "waiting" /\ u # t
  BY <1>1
<1> HIDE DEF out, z
<1>5. /\ z.outcome = out /\ z.active = Parser!Nil /\ z.worker = y.worker
      /\ z.threads = y.threads /\ z.queue = x.queue /\ z \in ParserStates
  BY <1>2, <1>3 DEF ParserStates
<1>6. EachQueuedOnce(z)
  BY <1>1, <1>5 DEF EachQueuedOnce, ParserConstants, Parser!Nil
<1>7. WaitingAreKnown(z)
  BY <1>1, <1>4, <1>5 DEF WaitingAreKnown, EachQueuedOnce, Queued,
     ParserConstants, Parser!Nil
<1> QED
  BY <1>2, <1>5, <1>6, <1>7 DEF z, out

(* The worker fails, with the task that is active: the lane goes on.        *)
LEMMA FailSound ==
  ASSUME ParserConstants, NEW x \in ParserStates,
         EachQueuedOnce(x), WaitingAreKnown(x),
         x.worker \in 0 .. Len(x.threads),
         \A v \in 1 .. Len(x.threads) : x.threads[v].alive => v = x.worker
  PROVE  Sound(Parser!FailWorker(x, x.worker))
<1> DEFINE t == x.active
           u == [x EXCEPT !.worker = Parser!Nil, !.active = Parser!Nil]
           y == Parser!Terminate(u, x.worker)
           z == IF t = Parser!Nil THEN y ELSE Parser!Settle(y, t, "failed")
<1>1. Parser!FailWorker(x, x.worker) = Parser!DispatchNext(z)
  BY DEF Parser!FailWorker
<1>2. /\ u \in ParserStates /\ u.worker = Parser!Nil /\ u.active = Parser!Nil /\ u.queue = x.queue
      /\ u.threads = x.threads /\ u.outcome = x.outcome
  BY DEF ParserStates, Parser!Nil
<1> HIDE DEF u
<1>3. /\ y \in ParserStates /\ y.worker = Parser!Nil /\ y.active = Parser!Nil /\ y.queue = x.queue
      /\ y.outcome = x.outcome /\ Len(y.threads) = Len(x.threads)
      /\ \A v \in 1 .. Len(x.threads) :
           /\ v # x.worker => y.threads[v] = x.threads[v]
           /\ v = x.worker => ~y.threads[v].alive
  BY <1>2, TerminateEffect
<1> HIDE DEF y
<1>4. /\ z \in ParserStates /\ EachQueuedOnce(z) /\ WaitingAreKnown(z)
      /\ z.worker = Parser!Nil /\ z.active = Parser!Nil /\ z.threads = y.threads
  <2>1. CASE t # Parser!Nil
    BY <1>3, <2>1, SettleActive
  <2>2. CASE t = Parser!Nil
    BY <1>3, <2>2 DEF EachQueuedOnce, WaitingAreKnown, Queued
  <2> QED
    BY <2>1, <2>2
<1> HIDE DEF z
<1>5. AliveIsTheWorker(z)
  BY <1>3, <1>4 DEF AliveIsTheWorker
<1>6. WorkerAnswers(z)
  <2>1. Len(z.threads) \in Nat
    BY <1>4, TypedFields
  <2> QED
    BY <1>4, <2>1 DEF WorkerAnswers, Parser!Nil
<1>7. Ready(z)
  BY <1>4, <1>5, <1>6 DEF Ready
<1> QED
  BY <1>1, <1>7, DispatchSound

(* The timer of the active task fires: its worker is given up.              *)
LEMMA TimerKeeps == ParserConstants /\ PInv /\ Parser!TimerFires => PInv'
<1> SUFFICES ASSUME ParserConstants, PInv, lane.active \in overdue,
      Parser!Becomes(Parser!FailWorker([Parser!Settle(Parser!Now, lane.active, "timeout")
                            EXCEPT !.active = Parser!Nil], lane.worker)),
      UNCHANGED overdue
    PROVE PInv'
  BY DEF Parser!TimerFires
<1> DEFINE s == Parser!Settle(Parser!Now, lane.active, "timeout")
           z == [s EXCEPT !.active = Parser!Nil]
           y == [Parser!Now EXCEPT !.active = Parser!Nil]
<1>1. /\ Ready(Parser!Now) /\ Parser!Now \in ParserStates /\ overdue \subseteq Tasks
      /\ lane.active \in Tasks /\ lane.active # Parser!Nil /\ lane.active = Parser!Now.active
      /\ lane.worker = Parser!Now.worker
  BY NowFields DEF PInv, Sound, Ready, ParserConstants, Parser!Nil
<1>2. /\ y \in ParserStates /\ y.queue = Parser!Now.queue /\ y.active = Parser!Nil
      /\ y.outcome = Parser!Now.outcome /\ y.worker = Parser!Now.worker /\ y.threads = Parser!Now.threads
  BY <1>1 DEF ParserStates
<1>3. LET w == Parser!Settle(y, Parser!Now.active, "timeout")
      IN /\ w = [y EXCEPT !.outcome = [Parser!Now.outcome EXCEPT ![Parser!Now.active] = "timeout"]]
         /\ w \in ParserStates /\ EachQueuedOnce(w) /\ WaitingAreKnown(w)
         /\ w.active = Parser!Nil /\ w.worker = y.worker /\ w.threads = y.threads
         /\ w.queue = Parser!Now.queue
  <2> HIDE DEF y
  <2> QED
    BY <1>1, <1>2, SettleActive DEF Ready
<1>4. z = Parser!Settle(y, Parser!Now.active, "timeout")
  <2>1. Parser!Now = [worker |-> lane.worker, active |-> lane.active, queue |-> lane.queue,
               threads |-> threads, outcome |-> outcome]
    BY DEF Parser!Now
  <2>2. lane.active \in DOMAIN outcome /\ outcome[lane.active] = "waiting"
    BY <1>1, NowFields DEF Ready, WaitingAreKnown, ParserStates
  <2>3. s = [Parser!Now EXCEPT !.outcome = [outcome EXCEPT ![lane.active] = "timeout"]]
    BY <2>2, NowFields DEF Parser!Settle
  <2>4. Parser!Settle(y, Parser!Now.active, "timeout")
          = [y EXCEPT !.outcome = [outcome EXCEPT ![lane.active] = "timeout"]]
    BY <1>3, NowFields
  <2> HIDE DEF s, y
  <2> DEFINE out == [outcome EXCEPT ![lane.active] = "timeout"]
  <2>5. s = [Parser!Now EXCEPT !.outcome = out]
        /\ Parser!Settle(y, Parser!Now.active, "timeout") = [y EXCEPT !.outcome = out]
    BY <2>3, <2>4
  <2> HIDE DEF out
  <2>6. [[Parser!Now EXCEPT !.outcome = out] EXCEPT !.active = Parser!Nil]
         = [[Parser!Now EXCEPT !.active = Parser!Nil] EXCEPT !.outcome = out]
    BY <1>1 DEF ParserStates
  <2> QED
    BY <2>5, <2>6 DEF y
<1> HIDE DEF z
<1>5. Sound(Parser!FailWorker(z, z.worker)) /\ z.worker = lane.worker
  <2>1. z \in ParserStates /\ EachQueuedOnce(z) /\ WaitingAreKnown(z)
        /\ z.worker = Parser!Now.worker /\ z.threads = Parser!Now.threads
    BY <1>2, <1>3, <1>4
  <2>2. Parser!Now.worker \in 0 .. Len(Parser!Now.threads)
        /\ \A v \in 1 .. Len(Parser!Now.threads) : Parser!Now.threads[v].alive => v = Parser!Now.worker
    BY <1>1 DEF Ready, WorkerAnswers, AliveIsTheWorker
  <2> QED
    BY <1>1, <2>1, <2>2, FailSound
<1>6. Parser!Becomes(Parser!FailWorker(z, z.worker))
  BY <1>5 DEF z
<1>7. Sound(Parser!Now)'
  BY <1>5, <1>6, BecomesSound
<1> QED
  BY <1>1, <1>7 DEF PInv

(* A state with other threads.                                              *)
LEMMA WithThreads ==
  ASSUME NEW s \in ParserStates, NEW ths \in Seq(ThreadStates)
  PROVE  LET x == [s EXCEPT !.threads = ths]
         IN /\ x \in ParserStates /\ x.worker = s.worker /\ x.active = s.active
            /\ x.queue = s.queue /\ x.outcome = s.outcome /\ x.threads = ths
            /\ x = [worker |-> s.worker, active |-> s.active,
                    queue |-> s.queue, threads |-> ths, outcome |-> s.outcome]
<1> DEFINE x == [s EXCEPT !.threads = ths]
<1>1. x = [worker |-> s.worker, active |-> s.active,
           queue |-> s.queue, threads |-> ths, outcome |-> s.outcome]
  BY DEF ParserStates
<1> HIDE DEF x
<1> QED
  BY <1>1 DEF ParserStates, x

(* One thread of the lane changes.                                          *)
LEMMA ThreadChanges ==
  ASSUME NEW w \in 1 .. Len(threads), NEW th \in ThreadStates, Sound(Parser!Now)
  PROVE  LET ths == [threads EXCEPT ![w] = th]
             x == [Parser!Now EXCEPT !.threads = ths]
         IN /\ x \in ParserStates /\ x.worker = lane.worker /\ x.active = lane.active
            /\ x.queue = lane.queue /\ x.outcome = outcome /\ x.threads = ths
            /\ Len(ths) = Len(threads) /\ ths[w] = th
            /\ \A v \in 1 .. Len(threads) : v # w => ths[v] = threads[v]
            /\ EachQueuedOnce(x) /\ WaitingAreKnown(x)
            /\ x = [worker |-> lane.worker, active |-> lane.active,
                    queue |-> lane.queue, threads |-> ths, outcome |-> outcome]
<1> DEFINE ths == [threads EXCEPT ![w] = th]
           x == [Parser!Now EXCEPT !.threads = ths]
<1>1. /\ Parser!Now \in ParserStates /\ Parser!Now.threads = threads /\ threads \in Seq(ThreadStates)
      /\ EachQueuedOnce(Parser!Now) /\ WaitingAreKnown(Parser!Now)
  BY NowFields, TypedFields DEF Sound, Ready
<1>2. /\ ths \in Seq(ThreadStates) /\ Len(ths) = Len(threads) /\ ths[w] = th
      /\ \A v \in 1 .. Len(threads) : v # w => ths[v] = threads[v]
  BY <1>1, ExceptSeq
<1> HIDE DEF ths
<1>3. /\ x \in ParserStates /\ x.worker = lane.worker /\ x.active = lane.active
      /\ x.queue = lane.queue /\ x.outcome = outcome /\ x.threads = ths
      /\ x = [worker |-> lane.worker, active |-> lane.active,
              queue |-> lane.queue, threads |-> ths, outcome |-> outcome]
  <2>1. /\ x \in ParserStates /\ x.worker = Parser!Now.worker /\ x.active = Parser!Now.active
        /\ x.queue = Parser!Now.queue /\ x.outcome = Parser!Now.outcome /\ x.threads = ths
        /\ x = [worker |-> Parser!Now.worker, active |-> Parser!Now.active,
                queue |-> Parser!Now.queue, threads |-> ths, outcome |-> Parser!Now.outcome]
    BY <1>1, <1>2, WithThreads
  <2> HIDE DEF x
  <2> QED
    BY <2>1, NowFields
<1> HIDE DEF x
<1>4. EachQueuedOnce(x) /\ WaitingAreKnown(x)
  BY <1>1, <1>3, NowFields DEF EachQueuedOnce, WaitingAreKnown, Queued
<1> QED
  BY <1>2, <1>3, <1>4 DEF ths, x

(* What the threads do by themselves.                                       *)
LEMMA ThreadStepKeeps ==
  ASSUME ParserConstants, PInv, NEW w \in 1 .. Len(threads), NEW th \in ThreadStates,
         threads' = [threads EXCEPT ![w] = th], UNCHANGED <<lane, outcome, overdue>>,
         threads[w].alive,
         IF th.alive THEN lane.active # Parser!Nil /\ BusyThread(th, lane.active)
         ELSE ExitIsComing(th)
  PROVE  PInv'
<1> DEFINE ths == [threads EXCEPT ![w] = th]
           x == [Parser!Now EXCEPT !.threads = ths]
<1>1. /\ x \in ParserStates /\ x.worker = lane.worker /\ x.active = lane.active
      /\ x.queue = lane.queue /\ x.outcome = outcome /\ x.threads = ths
      /\ Len(ths) = Len(threads) /\ ths[w] = th
      /\ \A v \in 1 .. Len(threads) : v # w => ths[v] = threads[v]
      /\ EachQueuedOnce(x) /\ WaitingAreKnown(x)
      /\ x = [worker |-> lane.worker, active |-> lane.active,
              queue |-> lane.queue, threads |-> ths, outcome |-> outcome]
  BY ThreadChanges DEF PInv
<1>2. Parser!Now' = x
  BY <1>1 DEF Parser!Now
<1> HIDE DEF x, ths
<1>3. /\ AliveIsTheWorker(Parser!Now) /\ WorkerAnswers(Parser!Now)
      /\ (lane.queue # <<>> => lane.active # Parser!Nil) /\ overdue \subseteq Tasks
  BY NowFields DEF PInv, Sound, Ready
<1>4. w = lane.worker
  BY <1>3, NowFields DEF AliveIsTheWorker
<1>5. AliveIsTheWorker(x)
  BY <1>1, <1>3, <1>4, NowFields DEF AliveIsTheWorker
<1>6. WorkerAnswers(x)
  BY <1>1, <1>3, <1>4, NowFields DEF WorkerAnswers
<1> QED
  BY <1>1, <1>2, <1>3, <1>5, <1>6 DEF PInv, Sound, Ready

(* A worker parses its task.                                                *)
LEMMA ParsesKeeps == ParserConstants /\ PInv /\ Parser!Parses => PInv'
<1> SUFFICES ASSUME ParserConstants, PInv, NEW w \in DOMAIN threads,
      threads[w].alive, threads[w].todo # <<>>,
      threads' = [threads EXCEPT ![w] =
        [todo |-> Tail(@.todo), tells |-> Append(@.tells, Head(@.todo)),
         alive |-> TRUE]],
      UNCHANGED <<lane, outcome, overdue>>
    PROVE PInv'
  BY DEF Parser!Parses
<1>1. /\ AliveIsTheWorker(Parser!Now) /\ threads \in Seq(ThreadStates)
      /\ DOMAIN threads = 1 .. Len(threads) /\ lane.active \in Tasks \cup {Parser!Nil}
  BY NowFields, TypedFields DEF PInv, Sound, Ready
<1> DEFINE t == lane.active
           th == [todo |-> <<>>, tells |-> <<t>>, alive |-> TRUE]
<1>2. /\ t # Parser!Nil /\ threads[w].todo = <<t>> /\ threads[w].tells = <<>>
  BY <1>1, NowFields DEF AliveIsTheWorker, IdleThread, BusyThread
<1>3. th \in ThreadStates
  BY <1>1, <1>2, EmptySeq DEF ThreadStates
<1>4. threads' = [threads EXCEPT ![w] = th]
  <2>1. Tail(threads[w].todo) = <<>>
    BY <1>2
  <2>2. Append(threads[w].tells, Head(threads[w].todo)) = <<t>>
    BY <1>2
  <2>3. threads' = [threads EXCEPT ![w] =
          [todo |-> Tail(threads[w].todo),
           tells |-> Append(threads[w].tells, Head(threads[w].todo)),
           alive |-> TRUE]]
    OBVIOUS
  <2> QED
    BY <2>1, <2>2, <2>3
<1>5. th.alive /\ BusyThread(th, lane.active)
  BY DEF BusyThread
<1> HIDE DEF th
<1> QED
  BY <1>1, <1>2, <1>3, <1>4, <1>5, ThreadStepKeeps

(* A worker dies with what it was doing.                                    *)
LEMMA DiesKeeps == ParserConstants /\ PInv /\ Parser!Dies => PInv'
<1> SUFFICES ASSUME ParserConstants, PInv, NEW w \in DOMAIN threads,
      NEW news \in {<<Parser!Nil>>, <<Parser!Nil, Parser!Nil>>}, threads[w].alive,
      threads' = [threads EXCEPT ![w] =
                    [todo |-> <<>>, tells |-> @.tells \o news, alive |-> FALSE]],
      UNCHANGED <<lane, outcome, overdue>>
    PROVE PInv'
  BY DEF Parser!Dies
<1> DEFINE said == threads[w].tells \o news
           th == [todo |-> <<>>, tells |-> said, alive |-> FALSE]
<1>1. /\ threads \in Seq(ThreadStates) /\ DOMAIN threads = 1 .. Len(threads)
  BY NowFields, TypedFields DEF PInv, Sound, Ready
<1>2. threads[w].tells \in Seq(Tasks \cup {Parser!Nil}) /\ Len(threads[w].tells) \in Nat
  <2>1. threads[w] \in ThreadStates
    BY <1>1, ElementOfSeq
  <2> QED
    BY <2>1, LenProperties DEF ThreadStates
<1>3. news \in Seq(Tasks \cup {Parser!Nil}) /\ Len(news) \in {1, 2} /\ news[Len(news)] = Parser!Nil
  <2>1. CASE news = <<Parser!Nil>>
    BY <2>1
  <2>2. CASE news = <<Parser!Nil, Parser!Nil>>
    BY <2>2
  <2> QED
    BY <2>1, <2>2
<1>4. /\ said \in Seq(Tasks \cup {Parser!Nil}) /\ Len(said) = Len(threads[w].tells) + Len(news)
      /\ said[Len(said)] = Parser!Nil
  <2>1. /\ said \in Seq(Tasks \cup {Parser!Nil}) /\ Len(said) = Len(threads[w].tells) + Len(news)
        /\ \A i \in 1 .. Len(threads[w].tells) + Len(news) :
             said[i] = IF i <= Len(threads[w].tells) THEN threads[w].tells[i]
                       ELSE news[i - Len(threads[w].tells)]
    BY <1>2, <1>3, ConcatProperties
  <2> QED
    BY <1>2, <1>3, <2>1
<1> HIDE DEF said
<1>5. said # <<>>
  BY <1>2, <1>3, <1>4
<1>6. th \in ThreadStates /\ ~th.alive /\ ExitIsComing(th)
  BY <1>4, <1>5, EmptySeq DEF ThreadStates, ExitIsComing
<1>7. threads' = [threads EXCEPT ![w] = th]
  BY DEF said
<1> HIDE DEF th
<1> QED
  BY <1>1, <1>6, <1>7, ThreadStepKeeps

(* The deadline of a task passes.                                           *)
LEMMA DeadlineKeeps ==
  ParserConstants /\ PInv /\ Parser!DeadlinePasses => PInv'
<1> SUFFICES ASSUME PInv, Parser!DeadlinePasses PROVE PInv'
  OBVIOUS
<1>1. Parser!Now' = Parser!Now /\ overdue' \subseteq Tasks
  BY DEF Parser!DeadlinePasses, Parser!Now, PInv
<1> QED
  BY <1>1 DEF PInv

(* A task is refused, or queued and dispatched.                             *)
LEMMA EnqueueKeeps == ParserConstants /\ PInv /\ Parser!EnqueueParse => PInv'
<1> SUFFICES ASSUME ParserConstants, PInv, NEW t \in Tasks, outcome[t] = "unborn",
      \/ Parser!Becomes([Parser!Now EXCEPT !.outcome[t] = "refused"])
      \/ Parser!Becomes(Parser!DispatchNext([Parser!Now EXCEPT !.outcome[t] = "waiting",
                                          !.queue = Append(@, t)])),
      UNCHANGED overdue
    PROVE PInv'
  BY DEF Parser!EnqueueParse
<1>1. /\ Ready(Parser!Now) /\ Parser!Now \in ParserStates /\ EachQueuedOnce(Parser!Now) /\ WaitingAreKnown(Parser!Now)
      /\ AliveIsTheWorker(Parser!Now) /\ WorkerAnswers(Parser!Now)
      /\ (Parser!Now.queue # <<>> => Parser!Now.active # Parser!Nil) /\ overdue \subseteq Tasks
  BY DEF PInv, Sound, Ready
<1>2. /\ Parser!Now.outcome \in [Tasks -> Outcomes] /\ Parser!Now.outcome[t] = "unborn"
      /\ Parser!Now.queue \in Seq(Tasks) /\ Len(Parser!Now.queue) \in Nat
      /\ Parser!Now.active \in Tasks \cup {Parser!Nil}
  BY <1>1, NowFields, TypedFields
<1>3. t # Parser!Now.active /\ ~Queued(Parser!Now, t)
  BY <1>1, <1>2 DEF WaitingAreKnown
<1>4. ASSUME Parser!Becomes([Parser!Now EXCEPT !.outcome[t] = "refused"]) PROVE PInv'
  <2> DEFINE out == [Parser!Now.outcome EXCEPT ![t] = "refused"]
             x == [Parser!Now EXCEPT !.outcome = out]
  <2>1. out \in [Tasks -> Outcomes] /\ \A u \in Tasks : out[u] = "waiting" <=> Parser!Now.outcome[u] = "waiting"
    BY <1>2 DEF Outcomes
  <2>2. Parser!Becomes(x)
    BY <1>4
  <2> HIDE DEF out
  <2>3. /\ x \in ParserStates /\ x.worker = Parser!Now.worker /\ x.active = Parser!Now.active
        /\ x.queue = Parser!Now.queue /\ x.threads = Parser!Now.threads /\ x.outcome = out
    BY <1>1, <2>1 DEF ParserStates
  <2> HIDE DEF x
  <2>4. Sound(x)
    BY <1>1, <2>1, <2>3 DEF Sound, Ready, EachQueuedOnce, WaitingAreKnown,
       Queued, AliveIsTheWorker, WorkerAnswers
  <2> QED
    BY <1>1, <2>2, <2>4, BecomesSound DEF PInv
<1>5. ASSUME Parser!Becomes(Parser!DispatchNext([Parser!Now EXCEPT !.outcome[t] = "waiting",
                                              !.queue = Append(@, t)]))
      PROVE  PInv'
  <2> DEFINE out == [Parser!Now.outcome EXCEPT ![t] = "waiting"]
             q == Append(Parser!Now.queue, t)
             x == [Parser!Now EXCEPT !.outcome = out, !.queue = q]
  <2>1. /\ out \in [Tasks -> Outcomes]
        /\ \A u \in Tasks : out[u] = "waiting" <=> Parser!Now.outcome[u] = "waiting" \/ u = t
    BY <1>2 DEF Outcomes
  <2>2. /\ q \in Seq(Tasks) /\ Len(q) = Len(Parser!Now.queue) + 1 /\ q[Len(Parser!Now.queue) + 1] = t
        /\ \A i \in 1 .. Len(Parser!Now.queue) : q[i] = Parser!Now.queue[i]
    BY <1>2, AppendProperties
  <2>3. x = [Parser!Now EXCEPT !.outcome[t] = "waiting", !.queue = Append(@, t)]
    BY <1>1 DEF ParserStates
  <2> HIDE DEF out, q
  <2>4. /\ x \in ParserStates /\ x.worker = Parser!Now.worker /\ x.active = Parser!Now.active
        /\ x.queue = q /\ x.threads = Parser!Now.threads /\ x.outcome = out
    BY <1>1, <2>1, <2>2 DEF ParserStates
  <2> HIDE DEF x
  <2>5. Parser!Becomes(Parser!DispatchNext(x))
    BY <1>5, <2>3
  <2>6. EachQueuedOnce(x)
    <3>1. \A i \in 1 .. Len(Parser!Now.queue) : q[i] # t
      BY <1>3, <2>2 DEF Queued
    <3>2. \A i \in 1 .. Len(q) : i \in 1 .. Len(Parser!Now.queue) \/ i = Len(Parser!Now.queue) + 1
      BY <1>2, <2>2
    <3>3. \A i, j \in 1 .. Len(q) : q[i] = q[j] => i = j
      BY <1>1, <1>2, <2>2, <3>1, <3>2 DEF EachQueuedOnce
    <3>4. \A i \in 1 .. Len(q) : q[i] # Parser!Now.active
      BY <1>1, <1>3, <2>2, <3>2 DEF EachQueuedOnce
    <3> QED
      BY <2>4, <3>3, <3>4 DEF EachQueuedOnce
  <2>7. WaitingAreKnown(x)
    <3>1. ASSUME NEW u \in Tasks PROVE Queued(x, u) <=> Queued(Parser!Now, u) \/ u = t
      BY <1>2, <2>2, <2>4 DEF Queued
    <3> QED
      BY <1>1, <2>1, <2>4, <3>1 DEF WaitingAreKnown
  <2>8. Ready(x)
    BY <1>1, <2>4, <2>6, <2>7 DEF Ready, AliveIsTheWorker, WorkerAnswers
  <2>9. Sound(Parser!DispatchNext(x))
    BY <2>8, DispatchSound
  <2> QED
    BY <1>1, <2>5, <2>9, BecomesSound DEF PInv
<1> QED
  BY <1>4, <1>5

(* A message, error or exit is heard, of the worker or of one that was      *)
(* given up.                                                                *)
LEMMA EventKeeps == ParserConstants /\ PInv /\ Parser!OnEvent => PInv'
<1> SUFFICES ASSUME ParserConstants, PInv, Parser!OnEvent PROVE PInv'
  OBVIOUS
<1>1. PICK w \in DOMAIN threads :
        LET said == Head(threads[w].tells)
            x == [Parser!Now EXCEPT !.threads[w].tells = Tail(@)]
        IN /\ threads[w].tells # <<>>
           /\ Parser!Becomes(IF said = Parser!Nil THEN Parser!FailWorker(x, w)
                      ELSE IF lane.worker # w \/ lane.active # said THEN x
                      ELSE Parser!DispatchNext(Parser!Settle([x EXCEPT !.active = Parser!Nil],
                                               said, "parsed")))
           /\ UNCHANGED overdue
  BY DEF Parser!OnEvent
<1> DEFINE said == Head(threads[w].tells)
           th == [todo |-> threads[w].todo, tells |-> Tail(threads[w].tells),
                  alive |-> threads[w].alive]
           ths == [threads EXCEPT ![w] = th]
           x == [Parser!Now EXCEPT !.threads = ths]
<1>2. /\ Ready(Parser!Now) /\ Parser!Now \in ParserStates /\ overdue \subseteq Tasks
      /\ threads \in Seq(ThreadStates) /\ DOMAIN threads = 1 .. Len(threads)
      /\ AliveIsTheWorker(Parser!Now) /\ WorkerAnswers(Parser!Now)
      /\ (lane.queue # <<>> => lane.active # Parser!Nil)
      /\ Len(threads) \in Nat /\ Sound(Parser!Now)
      /\ lane.active \in Tasks \cup {Parser!Nil}
  BY NowFields, TypedFields DEF PInv, Sound, Ready
<1>3. threads[w] \in ThreadStates /\ threads[w].tells # <<>>
  BY <1>1, <1>2, ElementOfSeq
<1>4. /\ th \in ThreadStates /\ th.todo = threads[w].todo
      /\ th.tells = Tail(threads[w].tells) /\ th.alive = threads[w].alive
      /\ said \in Tasks \cup {Parser!Nil} /\ threads[w].tells \in Seq(Tasks \cup {Parser!Nil})
  BY <1>3, HeadTailProperties DEF ThreadStates
<1>5. ExitIsComing(threads[w]) /\ said # Parser!Nil => ExitIsComing(th)
  <2> SUFFICES ASSUME ExitIsComing(threads[w]), said # Parser!Nil PROVE ExitIsComing(th)
    OBVIOUS
  <2> DEFINE s == threads[w].tells
  <2>1. /\ s \in Seq(Tasks \cup {Parser!Nil}) /\ s # <<>> /\ s[Len(s)] = Parser!Nil /\ s[1] # Parser!Nil
    BY <1>3, <1>4 DEF ExitIsComing
  <2>2. /\ Len(Tail(s)) = Len(s) - 1 /\ Len(s) \in Nat
        /\ \A i \in 1 .. Len(Tail(s)) : Tail(s)[i] = s[i + 1]
    BY <2>1, HeadTailProperties, LenProperties
  <2> HIDE DEF s
  <2>3. Len(s) # 1 /\ Len(s) # 0
    BY <2>1, EmptySeq
  <2>4. Len(s) - 1 \in 1 .. Len(Tail(s)) /\ Tail(s)[Len(s) - 1] = Parser!Nil
    BY <2>1, <2>2, <2>3
  <2>5. Tail(s) # <<>>
    <3>1. Tail(s) = <<>> => Len(Tail(s)) = 0
      BY EmptySeq
    <3> QED
      BY <2>2, <2>3, <3>1
  <2>6. th.tells = Tail(s)
    BY <1>4 DEF s
  <2> QED
    BY <2>2, <2>4, <2>5, <2>6 DEF ExitIsComing
<1>6. [Parser!Now EXCEPT !.threads[w].tells = Tail(@)] = x
  <2> DEFINE a == threads[w]
             rest == Tail(a.tells)
  <2>3. a \in ThreadStates
    BY <1>3
  <2>1. [threads[w] EXCEPT !.tells = Tail(@)] = th
    <3>1. [a EXCEPT !.tells = rest] = [todo |-> a.todo, tells |-> rest, alive |-> a.alive]
      <4> HIDE DEF a, rest
      <4> QED
        BY <2>3 DEF ThreadStates
    <3> QED
      BY <3>1
  <2>2. Parser!Now.threads = threads
    BY NowFields
  <2> HIDE DEF th
  <2> QED
    BY <2>1, <2>2
<1> HIDE DEF th
<1>7. /\ x \in ParserStates /\ x.worker = lane.worker /\ x.active = lane.active
      /\ x.queue = lane.queue /\ x.outcome = outcome /\ x.threads = ths
      /\ Len(ths) = Len(threads) /\ ths[w] = th
      /\ \A v \in 1 .. Len(threads) : v # w => ths[v] = threads[v]
      /\ EachQueuedOnce(x) /\ WaitingAreKnown(x)
  BY <1>2, <1>4, ThreadChanges
<1> HIDE DEF ths
<1>8. /\ Parser!Becomes(IF said = Parser!Nil THEN Parser!FailWorker(x, w)
                 ELSE IF lane.worker # w \/ lane.active # said THEN x
                 ELSE Parser!DispatchNext(Parser!Settle([x EXCEPT !.active = Parser!Nil], said, "parsed")))
      /\ UNCHANGED overdue
  BY <1>1, <1>6
<1> HIDE DEF x
<1>9. \A v \in 1 .. Len(x.threads) : x.threads[v].alive => v = x.worker
  BY <1>2, <1>4, <1>7, NowFields DEF AliveIsTheWorker
<1>10. x.worker \in 0 .. Len(x.threads)
  BY <1>2, <1>7, NowFields DEF WorkerAnswers
<1>11. ASSUME lane.worker # w \/ lane.active # said, said # Parser!Nil \/ lane.worker # w
       PROVE  Sound(x)
  <2>1. ~th.alive \/ (w = lane.worker /\ IF lane.active = Parser!Nil THEN IdleThread(threads[w])
                                         ELSE BusyThread(threads[w], lane.active))
    BY <1>2, <1>4, NowFields DEF AliveIsTheWorker
  <2>2. ~th.alive
    <3>1. ASSUME w = lane.worker, lane.active # Parser!Nil, BusyThread(threads[w], lane.active)
          PROVE  FALSE
      <4>1. threads[w].tells = <<lane.active>>
        BY <1>3, <3>1 DEF BusyThread
      <4>2. said = lane.active
        BY <4>1
      <4> QED
        BY <1>11, <3>1, <4>2
    <3> QED
      BY <1>3, <2>1, <3>1 DEF IdleThread
  <2>3. w = lane.worker => ExitIsComing(th)
    BY <1>2, <1>4, <1>5, <1>11, <2>2, NowFields DEF WorkerAnswers, Parser!Nil
  <2>4. AliveIsTheWorker(x)
    BY <1>2, <1>7, <2>2, NowFields DEF AliveIsTheWorker
  <2>5. WorkerAnswers(x)
    <3>1. lane.worker \in 0 .. Len(threads) /\ (lane.active # Parser!Nil => lane.worker # Parser!Nil)
      BY <1>2, NowFields DEF WorkerAnswers
    <3>2. lane.worker # w /\ lane.worker # Parser!Nil /\ ~ths[lane.worker].alive =>
            ExitIsComing(ths[lane.worker])
      BY <1>2, <1>7, <3>1, NowFields DEF WorkerAnswers, Parser!Nil
    <3> QED
      BY <1>7, <1>10, <2>3, <3>1, <3>2 DEF WorkerAnswers
  <2> QED
    BY <1>2, <1>7, <2>4, <2>5 DEF Sound, Ready
<1>12. CASE said = Parser!Nil
  <2>1. Parser!Becomes(Parser!FailWorker(x, w))
    BY <1>8, <1>12
  <2>2. CASE w = lane.worker
    <3>1. Sound(Parser!FailWorker(x, x.worker))
      BY <1>7, <1>9, <1>10, FailSound
    <3> QED
      BY <1>2, <1>7, <1>8, <2>1, <2>2, <3>1, BecomesSound DEF PInv
  <2>3. CASE w # lane.worker
    <3>1. Parser!FailWorker(x, w) = x
      BY <1>7, <2>3 DEF Parser!FailWorker
    <3> QED
      BY <1>2, <1>8, <1>11, <2>1, <2>3, <3>1, BecomesSound DEF PInv
  <2> QED
    BY <2>2, <2>3
<1>13. CASE said # Parser!Nil /\ (lane.worker # w \/ lane.active # said)
  BY <1>2, <1>8, <1>11, <1>13, BecomesSound DEF PInv
<1>14. CASE said # Parser!Nil /\ lane.worker = w /\ lane.active = said
  <2> DEFINE y == [x EXCEPT !.active = Parser!Nil]
             z == Parser!Settle(y, said, "parsed")
  <2>1. /\ y \in ParserStates /\ y.worker = x.worker /\ y.active = Parser!Nil
        /\ y.queue = x.queue /\ y.threads = x.threads /\ y.outcome = x.outcome
    BY <1>7 DEF ParserStates
  <2>2. Parser!Becomes(Parser!DispatchNext(z))
    BY <1>8, <1>14
  <2> HIDE DEF y
  <2>3. /\ z \in ParserStates /\ EachQueuedOnce(z) /\ WaitingAreKnown(z)
        /\ z.active = Parser!Nil /\ z.worker = y.worker /\ z.threads = y.threads
    <3>1. x.active = said /\ x.active # Parser!Nil
      BY <1>7, <1>14
    <3> HIDE DEF said
    <3> QED
      BY <1>7, <2>1, <3>1, SettleActive
  <2> HIDE DEF z
  <2>4. th.alive => IdleThread(th)
    <3> SUFFICES ASSUME th.alive PROVE IdleThread(th)
      OBVIOUS
    <3>1. BusyThread(threads[w], lane.active)
      BY <1>2, <1>4, <1>14, NowFields DEF AliveIsTheWorker
    <3>2. threads[w].todo = <<>> /\ threads[w].tells = <<lane.active>>
      BY <1>3, <3>1 DEF BusyThread
    <3>3. Tail(threads[w].tells) = <<>>
      BY <3>2
    <3> QED
      BY <1>4, <3>2, <3>3 DEF IdleThread
  <2>5. ~th.alive => ExitIsComing(th)
    BY <1>2, <1>4, <1>5, <1>14, NowFields DEF WorkerAnswers, Parser!Nil
  <2>6. AliveIsTheWorker(z)
    BY <1>7, <1>9, <1>14, <2>1, <2>3, <2>4 DEF AliveIsTheWorker
  <2>7. WorkerAnswers(z)
    BY <1>7, <1>10, <1>14, <2>1, <2>3, <2>5 DEF WorkerAnswers
  <2>8. Sound(Parser!DispatchNext(z))
    BY <2>3, <2>6, <2>7, DispatchSound DEF Ready
  <2> QED
    BY <1>2, <1>8, <2>2, <2>8, BecomesSound DEF PInv
<1> QED
  BY <1>4, <1>12, <1>13, <1>14

(* Every reachable state satisfies the invariant.                           *)
LEMMA PInvHolds == ASSUME ParserConstants PROVE Parser!Spec => []PInv
<1>1. Parser!Init => PInv
  BY PInit
<1>2. PInv /\ [Parser!Next]_(Parser!vars) => PInv'
  <2>1. ASSUME PInv, UNCHANGED Parser!vars PROVE PInv'
    <3>1. Parser!Now' = Parser!Now /\ overdue' = overdue
      BY <2>1 DEF Parser!vars, Parser!Now
    <3> QED
      BY <2>1, <3>1 DEF PInv
  <2> QED
    BY <2>1, EnqueueKeeps, DeadlineKeeps, TimerKeeps, ParsesKeeps, DiesKeeps,
       EventKeeps DEF Parser!Next
<1> QED
  BY <1>1, <1>2, PTL DEF Parser!Spec

(* The invariant implies what the run checks.                               *)
LEMMA PInvSafe == PInv => Parser!ParserSafe
<1> SUFFICES ASSUME PInv PROVE Parser!ParserSafe
  OBVIOUS
<1>1. /\ Parser!Now \in ParserStates /\ WaitingAreKnown(Parser!Now) /\ AliveIsTheWorker(Parser!Now)
      /\ WorkerAnswers(Parser!Now) /\ (lane.queue # <<>> => lane.active # Parser!Nil)
      /\ outcome \in [Tasks -> Outcomes] /\ DOMAIN threads = 1 .. Len(threads)
      /\ DOMAIN lane.queue = 1 .. Len(lane.queue)
  BY NowFields, TypedFields, LenProperties DEF PInv, Sound, Ready
<1>2. Parser!SettledOnce
  BY <1>1 DEF Parser!SettledOnce, Outcomes
<1>3. \A t \in Tasks : outcome[t] = "waiting" <=>
        t = lane.active \/ \E i \in DOMAIN lane.queue : lane.queue[i] = t
  BY <1>1, NowFields DEF WaitingAreKnown, Queued
<1>4. ASSUME lane.active # Parser!Nil
      PROVE  /\ lane.worker # Parser!Nil
             /\ LET w == threads[lane.worker]
                IN w.todo = <<lane.active>> \/ w.tells # <<>>
  <2>1. lane.worker # Parser!Nil /\ lane.worker \in 1 .. Len(threads)
    BY <1>1, <1>4, NowFields DEF WorkerAnswers, Parser!Nil
  <2>2. CASE threads[lane.worker].alive
    BY <1>1, <1>4, <2>1, <2>2, NowFields DEF AliveIsTheWorker, BusyThread
  <2>3. CASE ~threads[lane.worker].alive
    BY <1>1, <2>1, <2>3, NowFields DEF WorkerAnswers, ExitIsComing
  <2> QED
    BY <2>1, <2>2, <2>3
<1>5. Parser!NoThreadLeak
  BY <1>1, NowFields DEF Parser!NoThreadLeak, AliveIsTheWorker
<1> QED
  BY <1>1, <1>2, <1>3, <1>4, <1>5 DEF Parser!ParserSafe, Parser!LaneRuns

(* For any number of tasks, limits of the queue and order of messages,      *)
(* errors, exits and timers: nobody is answered twice, the lane does not    *)
(* stop while a task waits, and no worker thread lives on that nobody uses. *)
THEOREM ParserIsSafe == ASSUME ParserConstants PROVE Parser!Spec => []ParserSafe
<1>1. PInv => ParserSafe
  BY PInvSafe DEF ParserSafe
<1> QED
  BY <1>1, PInvHolds, PTL

-----------------------------------------------------------------------------
(***************************************************************************)
(* Slots leased in Redis.                                                  *)
(***************************************************************************)

(* The module counts as the library does.                                  *)
LEMMA LeasesCount ==
  ASSUME NEW S PROVE Leases!Cardinality(S) = Cardinality(S)
BY DEF Leases!Cardinality, Cardinality

(* What the code has by itself: a finite number of callers, each in one     *)
(* process, kinds that are among those the code has, and a limit that is a  *)
(* number.                                                                  *)
LeaseConstants ==
  /\ IsFiniteSet(Holders) /\ PlaceOf \in [Holders -> Places]
  /\ Kinds \subseteq {"ytdlp", "youtube", "rss", "worker"}
  /\ MaxLeases \in Nat

(* Where the task has not been started.                                     *)
Unrun == {"new", "local", "ask", "asking", "sleep", "cleaning", "failed"}
LeaseCalls ==
  [at : Unrun \cup Leases!Running \cup {"ending", "leaving", "done"},
   lease : BOOLEAN, slot : BOOLEAN, cleaned : BOOLEAN, lost : BOOLEAN,
   aborted : BOOLEAN, runs : Nat]
Commands == [op : {"try", "renew", "zrem"}, call : Holders]
(* The state keeps its types.                                               *)
LeasesTyped ==
  /\ leaseKind \in Kinds /\ leaseCall \in [Holders -> LeaseCalls]
  /\ leasePipe \in [Places -> Seq(Commands)]
  /\ leases \subseteq Holders /\ leasesOver \subseteq leases

(* A command is under way, somewhere in the order of its connection.        *)
Has(s, d) == \E i \in 1 .. Len(s) : s[i] = d
Sent(op, c) == Has(leasePipe[PlaceOf[c]], Leases!Command(op, c))

(* A call asks once, and its removal is sent after that.                    *)
InOrder(s) ==
  \A c \in Holders : \A i, j \in 1 .. Len(s) :
    s[j] = Leases!Command("try", c) =>
      /\ s[i] = Leases!Command("try", c) => i = j
      /\ s[i] = Leases!Command("zrem", c) => j < i
(* A command travels over the connection of the process whose call it is.   *)
OfItsProcess ==
  \A p \in Places, d \in Commands : Has(leasePipe[p], d) => PlaceOf[d.call] = p

(* Where a call has asked Redis for nothing that still counts.              *)
Fresh(x) ==
  x.at \in {"new", "ask", "sleep"} \/ (x.at = "local" /\ leaseKind \in Leases!LocalFirst)
(* What a call knows fits Redis and the connection: who has not asked, or   *)
(* has been told no, has no lease and nothing under way; who was told that  *)
(* his lease is removed has no other attempt under way; and a yt-dlp lease, *)
(* taken or asked for, is known to its call, or its removal is under way or *)
(* was lost.                                                                *)
CallFits(c) ==
  /\ Fresh(leaseCall[c]) =>
       /\ ~Sent("try", c) /\ ~Sent("zrem", c) /\ c \notin leases
       /\ ~leaseCall[c].cleaned
  /\ Leases!In(c, {"asking"}) =>
       /\ Sent("try", c) /\ ~Sent("zrem", c) /\ c \notin leases
       /\ ~leaseCall[c].cleaned
  /\ leaseCall[c].cleaned => c \notin leases /\ ~Sent("try", c)
  /\ leaseKind = "ytdlp" /\ (c \in leases \/ Sent("try", c)) =>
       Leases!In(c, {"asking"}) \/ leaseCall[c].lease \/ leaseCall[c].lost \/ Sent("zrem", c)
(* What a call is by itself: it runs at most once, and knows of a lease and *)
(* holds a local slot only where it may.                                    *)
CallSound(x) ==
  /\ x.at = "cleaning" => leaseKind = "ytdlp"
  /\ x.runs <= 1 /\ (x.at \in Unrun => x.runs = 0)
  /\ x.lease => x.at \in {"run", "ending"}
  /\ x.at \in {"new", "leaving", "done", "failed"} => ~x.slot

(* The inductive invariant. That a removed lease does not come back rests   *)
(* on the order of the connection: a late attempt is executed before the    *)
(* removal that was sent after it.                                          *)
LInv ==
  /\ LeasesTyped /\ OfItsProcess
  /\ \A p \in Places : InOrder(leasePipe[p])
  /\ \A c \in Holders : CallFits(c) /\ CallSound(leaseCall[c])
  /\ Leases!WithinLimit

-----------------------------------------------------------------------------
(* What is under way after a command is sent.                               *)
LEMMA HasAppended ==
  ASSUME NEW s \in Seq(Commands), NEW e \in Commands
  PROVE  /\ Append(s, e) \in Seq(Commands)
         /\ \A d : Has(Append(s, e), d) <=> Has(s, d) \/ d = e
<1>1. /\ Append(s, e) \in Seq(Commands) /\ Len(Append(s, e)) = Len(s) + 1
      /\ \A i \in 1 .. Len(s) : Append(s, e)[i] = s[i]
      /\ Append(s, e)[Len(s) + 1] = e
      /\ Len(s) \in Nat
  BY AppendProperties, LenProperties
<1>2. 1 .. Len(s) + 1 = (1 .. Len(s)) \cup {Len(s) + 1}
  BY <1>1
<1> QED
  BY <1>1, <1>2 DEF Has

(* What is under way after the first command is executed.                   *)
LEMMA HasTail ==
  ASSUME NEW s \in Seq(Commands), s # <<>>
  PROVE  /\ Head(s) \in Commands /\ Tail(s) \in Seq(Commands)
         /\ Has(s, Head(s))
         /\ \A d : Has(s, d) <=> Head(s) = d \/ Has(Tail(s), d)
<1>1. /\ Head(s) \in Commands /\ Tail(s) \in Seq(Commands) /\ Len(s) \in Nat \ {0}
      /\ Head(s) = s[1] /\ Len(Tail(s)) = Len(s) - 1
      /\ \A i \in 1 .. Len(s) - 1 : Tail(s)[i] = s[i + 1]
  BY HeadTailProperties, LenProperties, EmptySeq
<1>2. ASSUME NEW d, Has(s, d), Head(s) # d PROVE Has(Tail(s), d)
  <2>1. PICK i \in 1 .. Len(s) : s[i] = d
    BY <1>2 DEF Has
  <2>2. i - 1 \in 1 .. Len(s) - 1 /\ (i - 1) + 1 = i
    BY <1>1, <1>2, <2>1
  <2> QED
    BY <1>1, <2>1, <2>2 DEF Has
<1>3. ASSUME NEW d, Has(Tail(s), d) PROVE Has(s, d)
  <2>1. PICK i \in 1 .. Len(Tail(s)) : Tail(s)[i] = d
    BY <1>3 DEF Has
  <2>2. i + 1 \in 1 .. Len(s) /\ s[i + 1] = d
    BY <1>1, <2>1
  <2> QED
    BY <2>2 DEF Has
<1>4. Has(s, Head(s))
  BY <1>1 DEF Has
<1> QED
  BY <1>1, <1>2, <1>3, <1>4

(* What is under way after several are sent.                                *)
LEMMA HasConcat ==
  ASSUME NEW s \in Seq(Commands), NEW r \in Seq(Commands)
  PROVE  /\ s \o r \in Seq(Commands)
         /\ \A d : Has(s \o r, d) <=> Has(s, d) \/ Has(r, d)
<1>1. /\ s \o r \in Seq(Commands) /\ Len(s \o r) = Len(s) + Len(r)
      /\ Len(s) \in Nat /\ Len(r) \in Nat
      /\ \A i \in 1 .. Len(s) + Len(r) :
           (s \o r)[i] = IF i <= Len(s) THEN s[i] ELSE r[i - Len(s)]
  BY ConcatProperties, LenProperties
<1>2. ASSUME NEW d, Has(s \o r, d) PROVE Has(s, d) \/ Has(r, d)
  <2>1. PICK i \in 1 .. Len(s) + Len(r) : (s \o r)[i] = d
    BY <1>1, <1>2 DEF Has
  <2>2. CASE i <= Len(s)
    BY <1>1, <2>1, <2>2 DEF Has
  <2>3. CASE i > Len(s)
    <3>1. i - Len(s) \in 1 .. Len(r) /\ r[i - Len(s)] = d
      BY <1>1, <2>1, <2>3
    <3> QED
      BY <3>1 DEF Has
  <2> QED
    BY <1>1, <2>1, <2>2, <2>3
<1>3. ASSUME NEW d, Has(s, d) PROVE Has(s \o r, d)
  BY <1>1, <1>3 DEF Has
<1>4. ASSUME NEW d, Has(r, d) PROVE Has(s \o r, d)
  <2>1. PICK i \in 1 .. Len(r) : r[i] = d
    BY <1>4 DEF Has
  <2>2. Len(s) + i \in 1 .. Len(s) + Len(r) /\ (s \o r)[Len(s) + i] = d
    BY <1>1, <2>1
  <2> QED
    BY <1>1, <2>2 DEF Has
<1> QED
  BY <1>1, <1>2, <1>3, <1>4

(* A command keeps the order if it is not a second attempt, nor an attempt  *)
(* after a removal.                                                         *)
LEMMA OrderAppended ==
  ASSUME NEW s \in Seq(Commands), NEW e \in Commands, InOrder(s),
         e.op = "try" => /\ ~Has(s, Leases!Command("try", e.call))
                         /\ ~Has(s, Leases!Command("zrem", e.call))
  PROVE  InOrder(Append(s, e))
<1>1. /\ Len(Append(s, e)) = Len(s) + 1 /\ Append(s, e)[Len(s) + 1] = e
      /\ \A i \in 1 .. Len(s) : Append(s, e)[i] = s[i]
      /\ Len(s) \in Nat
  BY AppendProperties, LenProperties
<1>2. 1 .. Len(s) + 1 = (1 .. Len(s)) \cup {Len(s) + 1}
  BY <1>1
<1> SUFFICES ASSUME NEW c \in Holders, NEW i \in 1 .. Len(s) + 1,
      NEW j \in 1 .. Len(s) + 1, Append(s, e)[j] = Leases!Command("try", c)
    PROVE /\ Append(s, e)[i] = Leases!Command("try", c) => i = j
          /\ Append(s, e)[i] = Leases!Command("zrem", c) => j < i
  BY <1>1 DEF InOrder
<1>3. CASE j \in 1 .. Len(s) /\ i \in 1 .. Len(s)
  BY <1>1, <1>3 DEF InOrder
<1>4. CASE j \in 1 .. Len(s) /\ i = Len(s) + 1
  <2>1. Has(s, Leases!Command("try", c))
    BY <1>1, <1>4 DEF Has
  <2>2. e # Leases!Command("try", c)
    BY <2>1 DEF Leases!Command
  <2> QED
    BY <1>1, <1>4, <2>2
<1>5. CASE j = Len(s) + 1
  <2>1. e = Leases!Command("try", c)
    BY <1>1, <1>5
  <2>2. /\ ~Has(s, Leases!Command("try", c)) /\ ~Has(s, Leases!Command("zrem", c))
        /\ e # Leases!Command("zrem", c)
    BY <2>1 DEF Leases!Command
  <2> QED
    BY <1>1, <1>2, <1>5, <2>1, <2>2 DEF Has
<1> QED
  BY <1>2, <1>3, <1>4, <1>5

(* The order holds for what is left, and the attempt of a call whose        *)
(* attempt or removal was first is not left.                                *)
LEMMA OrderTail ==
  ASSUME NEW s \in Seq(Commands), s # <<>>, InOrder(s)
  PROVE  /\ InOrder(Tail(s))
         /\ \A c \in Holders : Head(s) \in {Leases!Command("try", c), Leases!Command("zrem", c)}
              => ~Has(Tail(s), Leases!Command("try", c))
<1>1. /\ Len(s) \in Nat \ {0} /\ Head(s) = s[1] /\ Len(Tail(s)) = Len(s) - 1
      /\ \A i \in 1 .. Len(s) - 1 : Tail(s)[i] = s[i + 1]
  BY HeadTailProperties, LenProperties, EmptySeq
<1>2. \A i \in 1 .. Len(s) - 1 : i + 1 \in 1 .. Len(s) /\ i \in Nat
  BY <1>1
<1>3. InOrder(Tail(s))
  <2> SUFFICES ASSUME NEW c \in Holders, NEW i \in 1 .. Len(s) - 1,
        NEW j \in 1 .. Len(s) - 1, s[j + 1] = Leases!Command("try", c)
      PROVE /\ s[i + 1] = Leases!Command("try", c) => i = j
            /\ s[i + 1] = Leases!Command("zrem", c) => j < i
    BY <1>1 DEF InOrder
  <2>1. /\ s[i + 1] = Leases!Command("try", c) => i + 1 = j + 1
        /\ s[i + 1] = Leases!Command("zrem", c) => j + 1 < i + 1
    BY <1>2 DEF InOrder
  <2> QED
    BY <1>2, <2>1
<1>4. ASSUME NEW c \in Holders, Head(s) \in {Leases!Command("try", c), Leases!Command("zrem", c)},
             NEW i \in 1 .. Len(s) - 1, Tail(s)[i] = Leases!Command("try", c)
      PROVE  FALSE
  <2>1. s[i + 1] = Leases!Command("try", c) /\ 1 \in 1 .. Len(s)
    BY <1>1, <1>4
  <2>2. s[1] = Leases!Command("try", c) => 1 = i + 1
    BY <1>2, <2>1 DEF InOrder
  <2>3. s[1] = Leases!Command("zrem", c) => i + 1 < 1
    BY <1>2, <2>1 DEF InOrder
  <2> QED
    BY <1>1, <1>2, <1>4, <2>2, <2>3
<1> QED
  BY <1>1, <1>3, <1>4 DEF Has

(* Removals may always follow.                                              *)
LEMMA OrderConcat ==
  ASSUME NEW s \in Seq(Commands), NEW r \in Seq(Commands), InOrder(s),
         \A i \in 1 .. Len(r) : r[i].op = "zrem"
  PROVE  InOrder(s \o r)
<1>1. /\ Len(s \o r) = Len(s) + Len(r) /\ Len(s) \in Nat /\ Len(r) \in Nat
      /\ \A i \in 1 .. Len(s) + Len(r) :
           (s \o r)[i] = IF i <= Len(s) THEN s[i] ELSE r[i - Len(s)]
  BY ConcatProperties, LenProperties
<1> SUFFICES ASSUME NEW c \in Holders, NEW i \in 1 .. Len(s) + Len(r),
      NEW j \in 1 .. Len(s) + Len(r), (s \o r)[j] = Leases!Command("try", c)
    PROVE /\ (s \o r)[i] = Leases!Command("try", c) => i = j
          /\ (s \o r)[i] = Leases!Command("zrem", c) => j < i
  BY <1>1 DEF InOrder
<1>2. ASSUME NEW k \in 1 .. Len(s) + Len(r), k > Len(s)
      PROVE  (s \o r)[k] # Leases!Command("try", c)
  <2>1. k - Len(s) \in 1 .. Len(r) /\ (s \o r)[k] = r[k - Len(s)]
    BY <1>1, <1>2
  <2>2. (s \o r)[k].op = "zrem"
    BY <2>1
  <2> QED
    BY <2>2 DEF Leases!Command
<1>3. j \in 1 .. Len(s) /\ s[j] = Leases!Command("try", c)
  BY <1>1, <1>2
<1>4. CASE i <= Len(s)
  <2>1. i \in 1 .. Len(s) /\ (s \o r)[i] = s[i]
    BY <1>1, <1>4
  <2> QED
    BY <1>3, <2>1 DEF InOrder
<1>5. CASE i > Len(s)
  BY <1>1, <1>2, <1>3, <1>5
<1> QED
  BY <1>1, <1>4, <1>5

(* A set is listed whole.                                                   *)
LEMMA ListsWhole ==
  ASSUME NEW S, IsFiniteSet(S)
  PROVE  /\ Leases!SetToSeq(S) \in Seq(S)
         /\ \A x \in S : \E i \in 1 .. Len(Leases!SetToSeq(S)) : Leases!SetToSeq(S)[i] = x
<1> DEFINE n == Cardinality(S)
           f == Leases!SetToSeq(S)
<1>1. n \in Nat /\ ExistsBijection(1 .. n, S)
  BY FS_CardinalityType
<1>2. PICK g \in [1 .. n -> S] : Leases!IsInjective(g)
  BY <1>1 DEF ExistsBijection, Bijection, Injection, IsInjective,
     Leases!IsInjective
<1>3. f \in [1 .. n -> S] /\ Leases!IsInjective(f)
  BY <1>2, LeasesCount DEF Leases!SetToSeq
<1> HIDE DEF f
<1>4. f \in Injection(1 .. n, S)
  BY <1>3 DEF Injection, IsInjective,
     Leases!IsInjective
<1>5. IsFiniteSet(1 .. n) /\ Cardinality(1 .. n) = n
  <2>1. 1 \in Int /\ n \in Int
    BY <1>1
  <2>2. /\ IsFiniteSet(1 .. n)
        /\ Cardinality(1 .. n) = IF 1 > n THEN 0 ELSE n - 1 + 1
    BY <2>1, FS_Interval
  <2> QED
    BY <1>1, <2>2
<1>6. f \in Surjection(1 .. n, S)
  BY <1>4, <1>5, FS_Injection
<1>7. \A x \in S : \E i \in 1 .. n : f[i] = x
  BY <1>6 DEF Surjection
<1>8. f \in Seq(S) /\ Len(f) = n
  BY <1>1, <1>3
<1> QED
  BY <1>7, <1>8 DEF f

(* What a call keeps when it goes on.                                       *)
Beside(y, x) ==
  /\ y.cleaned = x.cleaned /\ y.lease = x.lease /\ y.lost = x.lost
  /\ y.slot = x.slot /\ y.aborted = x.aborted

(* A call goes on elsewhere.                                                *)
LEMMA AtGives ==
  ASSUME NEW x \in LeaseCalls,
         NEW at \in Unrun \cup Leases!Running \cup {"ending", "leaving", "done"}
  PROVE  /\ Leases!At(x, at) \in LeaseCalls /\ Leases!At(x, at).at = at
         /\ Beside(Leases!At(x, at), x) /\ Leases!At(x, at).runs = x.runs
BY DEF LeaseCalls, Leases!At, Beside

(* A call starts its task, or ends because it was aborted.                  *)
LEMMA RunsGives ==
  ASSUME NEW x \in LeaseCalls, NEW at \in Leases!Running
  PROVE  /\ Leases!Runs(x, at) \in LeaseCalls /\ Beside(Leases!Runs(x, at), x)
         /\ \/ Leases!Runs(x, at).at = "ending" /\ Leases!Runs(x, at).runs = x.runs
            \/ Leases!Runs(x, at).at = at /\ Leases!Runs(x, at).runs = x.runs + 1
<1>1. CASE x.aborted
  <2>1. Leases!Runs(x, at) = Leases!At(x, "ending")
    BY <1>1 DEF Leases!Runs
  <2> QED
    BY <2>1, AtGives
<1>2. CASE ~x.aborted
  <2>1. Leases!Runs(x, at) = [x EXCEPT !.at = at, !.runs = @ + 1]
    BY <1>2 DEF Leases!Runs
  <2>2. at \in {"run", "fall"} /\ at \in Unrun \cup Leases!Running \cup {"ending", "leaving", "done"}
    BY DEF Leases!Running
  <2>3. x.runs + 1 \in Nat
    BY DEF LeaseCalls
  <2> QED
    BY <2>1, <2>2, <2>3 DEF LeaseCalls, Beside
<1> QED
  BY <1>1, <1>2

(* Only yt-dlp takes a lease back that it may have got.                     *)
LEMMA ErrorCleans ==
  ASSUME LeaseConstants, LeasesTyped, NEW x \in LeaseCalls
  PROVE  /\ Leases!Error(x).at = "cleaning" <=> leaseKind = "ytdlp"
         /\ leaseKind = "ytdlp" => Leases!Error(x) = Leases!At(x, "cleaning")
<1>1. leaseKind \in {"ytdlp", "youtube", "rss", "worker"}
  BY DEF LeaseConstants, LeasesTyped
<1> QED
  BY <1>1 DEF Leases!Error, Leases!Runs, Leases!At, LeaseCalls

(* The removals are those of the yt-dlp calls that are asking.              *)
LEMMA RemovalsOf ==
  ASSUME LeaseConstants, LeasesTyped, NEW cs, cs \subseteq Holders
  PROVE  /\ Leases!Removals(cs) \in Seq(Commands)
         /\ \A i \in 1 .. Len(Leases!Removals(cs)) : Leases!Removals(cs)[i].op = "zrem"
         /\ \A d : Has(Leases!Removals(cs), d) <=>
              \E c \in cs : /\ Leases!In(c, {"asking"}) /\ leaseKind = "ytdlp"
                            /\ d = Leases!Command("zrem", c)
<1> DEFINE S == {c \in cs : Leases!In(c, {"asking"}) /\ Leases!Error(leaseCall[c]).at = "cleaning"}
           f == Leases!SetToSeq(S)
           r == [i \in 1 .. Len(f) |-> Leases!Command("zrem", f[i])]
<1>1. S \subseteq Holders /\ IsFiniteSet(S)
  BY FS_Subset DEF LeaseConstants
<1>2. /\ f \in Seq(S) /\ Len(f) \in Nat /\ \A i \in 1 .. Len(f) : f[i] \in S
      /\ \A x \in S : \E i \in 1 .. Len(f) : f[i] = x
  <2>1. f \in Seq(S) /\ \A x \in S : \E i \in 1 .. Len(f) : f[i] = x
    BY <1>1, ListsWhole
  <2> HIDE DEF f, S
  <2> QED
    BY <2>1, LenProperties, ElementOfSeq
<1>3. r = Leases!Removals(cs)
  BY DEF Leases!Removals
<1>4. \A c \in S : c \in cs /\ Leases!In(c, {"asking"}) /\ leaseKind = "ytdlp"
  BY ErrorCleans DEF LeasesTyped
<1>5. \A c \in cs : Leases!In(c, {"asking"}) /\ leaseKind = "ytdlp" => c \in S
  BY ErrorCleans DEF LeasesTyped
<1> HIDE DEF f, S
<1>6. \A i \in 1 .. Len(f) : r[i] = Leases!Command("zrem", f[i]) /\ r[i] \in Commands /\ r[i].op = "zrem"
  BY <1>1, <1>2 DEF Leases!Command, Commands
<1>7. r \in Seq(Commands) /\ Len(r) = Len(f)
  <2>1. r \in [1 .. Len(f) -> Commands]
    BY <1>6
  <2> HIDE DEF r
  <2> QED
    BY <1>2, <2>1
<1> HIDE DEF r
<1>8. \A d : Has(r, d) <=> \E c \in S : d = Leases!Command("zrem", c)
  BY <1>2, <1>6, <1>7 DEF Has
<1> QED
  BY <1>3, <1>4, <1>5, <1>6, <1>7, <1>8

(* Local slots stay within their limit when at most one caller takes a free *)
(* one.                                                                     *)
LEMMA LocalsKept ==
  ASSUME LeaseConstants, LInv, NEW c \in Holders,
         \A d \in Holders \ {c} : leaseCall'[d].slot => leaseCall[d].slot,
         leaseCall'[c].slot => leaseCall[c].slot \/ Cardinality(Leases!Locals(PlaceOf[c])) < MaxLeases
  PROVE  \A p \in Places : Cardinality(Leases!Locals(p)') <= MaxLeases
<1> SUFFICES ASSUME NEW p \in Places PROVE Cardinality(Leases!Locals(p)') <= MaxLeases
  OBVIOUS
<1>1. /\ Leases!Locals(p) \subseteq Holders /\ IsFiniteSet(Leases!Locals(p))
      /\ Leases!Locals(p)' \subseteq Holders /\ IsFiniteSet(Leases!Locals(p)')
      /\ Cardinality(Leases!Locals(p)) \in Nat /\ Cardinality(Leases!Locals(p)) <= MaxLeases
      /\ Cardinality(Leases!Locals(p)') \in Nat
  <2>1. Leases!Locals(p) \subseteq Holders /\ Leases!Locals(p)' \subseteq Holders
    BY DEF Leases!Locals
  <2>2. Cardinality(Leases!Locals(p)) <= MaxLeases
    BY LeasesCount DEF LInv, Leases!WithinLimit
  <2> QED
    BY <2>1, <2>2, FS_Subset, FS_CardinalityType DEF LeaseConstants
<1>2. CASE Leases!Locals(p)' \subseteq Leases!Locals(p)
  <2>1. Cardinality(Leases!Locals(p)') <= Cardinality(Leases!Locals(p))
    BY <1>1, <1>2, FS_Subset
  <2> QED
    BY <1>1, <2>1 DEF LeaseConstants
<1>3. CASE ~(Leases!Locals(p)' \subseteq Leases!Locals(p))
  <2>1. PlaceOf[c] = p /\ Cardinality(Leases!Locals(p)) < MaxLeases
        /\ Leases!Locals(p)' \subseteq Leases!Locals(p) \cup {c}
    BY <1>3 DEF Leases!Locals
  <2> DEFINE L == Leases!Locals(p)
  <2>2. /\ IsFiniteSet(L \cup {c})
        /\ Cardinality(L \cup {c}) <= Cardinality(L) + 1
    <3>1. IsFiniteSet(L) /\ Cardinality(L) \in Nat
      BY <1>1
    <3> HIDE DEF L
    <3>2. Cardinality(L \cup {c}) = IF c \in L THEN Cardinality(L) ELSE Cardinality(L) + 1
      BY <3>1, FS_AddElement
    <3> QED
      BY <3>1, <3>2, FS_AddElement
  <2>3. /\ Cardinality(Leases!Locals(p)') <= Cardinality(Leases!Locals(p) \cup {c})
        /\ Cardinality(Leases!Locals(p) \cup {c}) \in Nat
    BY <2>1, <2>2, FS_Subset, FS_CardinalityType
  <2> QED
    BY <1>1, <2>1, <2>2, <2>3 DEF LeaseConstants
<1> QED
  BY <1>2, <1>3

(* A caller goes on by itself, without Redis.                               *)
LEMMA CallChanges ==
  ASSUME LeaseConstants, LInv, NEW c \in Holders, NEW y \in LeaseCalls,
         leaseCall' = [leaseCall EXCEPT ![c] = y], UNCHANGED <<leaseKind, leasePipe, leases>>,
         leasesOver' \subseteq leases, CallSound(y),
         Fresh(y) => Fresh(leaseCall[c]),
         y.at = "asking" <=> leaseCall[c].at = "asking",
         y.cleaned = leaseCall[c].cleaned, y.lease = leaseCall[c].lease,
         y.lost = leaseCall[c].lost,
         y.slot => leaseCall[c].slot \/ Cardinality(Leases!Locals(PlaceOf[c])) < MaxLeases
  PROVE  LInv'
<1>1. LeasesTyped'
  BY DEF LInv, LeasesTyped
<1>2. OfItsProcess' /\ \A p \in Places : InOrder(leasePipe[p])'
  BY DEF LInv, OfItsProcess, InOrder
<1>3. \A p \in Places : Cardinality(Leases!Locals(p)') <= MaxLeases
  <2>1. \A d \in Holders \ {c} : leaseCall'[d] = leaseCall[d]
    BY DEF LInv, LeasesTyped
  <2>2. leaseCall'[c] = y
    BY DEF LInv, LeasesTyped
  <2> QED
    BY <2>1, <2>2, LocalsKept
<1>4. Leases!WithinLimit'
  BY <1>3, LeasesCount DEF LInv, Leases!WithinLimit
<1>5. \A d \in Holders : CallFits(d)' /\ CallSound(leaseCall[d])'
  <2> SUFFICES ASSUME NEW d \in Holders PROVE CallFits(d)' /\ CallSound(leaseCall[d])'
    OBVIOUS
  <2>1. leaseCall'[d] = IF d = c THEN y ELSE leaseCall[d]
    BY DEF LInv, LeasesTyped
  <2>2. CallFits(d) /\ CallSound(leaseCall[d])
    BY DEF LInv
  <2>3. CallSound(leaseCall[d])'
    BY <2>1, <2>2 DEF CallSound
  <2>4. CallFits(d)'
    BY <2>1, <2>2 DEF CallFits, Fresh, Sent, Leases!In, Leases!Command
  <2> QED
    BY <2>3, <2>4
<1> QED
  BY <1>1, <1>2, <1>4, <1>5 DEF LInv

-----------------------------------------------------------------------------
(* Nothing is asked for at first.                                           *)
LEMMA LInit == LeaseConstants /\ Leases!Init => LInv
<1> SUFFICES ASSUME LeaseConstants, Leases!Init PROVE LInv
  OBVIOUS
<1>1. \A p \in Places : leasePipe[p] = <<>>
  BY DEF Leases!Init
<1>2. LeasesTyped
  <2>1. <<>> \in Seq(Commands)
    BY EmptySeq
  <2> QED
    BY <2>1 DEF Leases!Init, LeasesTyped, LeaseCalls, Unrun, Leases!Running
<1>3. OfItsProcess /\ \A p \in Places : InOrder(leasePipe[p])
  BY <1>1 DEF OfItsProcess, InOrder, Has
<1>4. \A c \in Holders : ~Sent("try", c) /\ ~Sent("zrem", c)
  BY <1>1 DEF Sent, Has, LeaseConstants
<1>5. \A c \in Holders : CallFits(c) /\ CallSound(leaseCall[c])
  BY <1>4 DEF Leases!Init, CallFits, CallSound, Leases!In, Unrun
<1>6. Leases!WithinLimit
  <2>1. leases = {} /\ \A p \in Places : Leases!Locals(p) = {}
    BY DEF Leases!Init, Leases!Locals
  <2>2. Cardinality({}) = 0 /\ MaxLeases \in Nat
    BY FS_EmptySet DEF LeaseConstants
  <2> QED
    BY <2>1, <2>2, LeasesCount DEF Leases!WithinLimit
<1> QED
  BY <1>2, <1>3, <1>5, <1>6 DEF LInv

(* A call begins, or is refused.                                            *)
LEMMA BeginKeeps ==
  LeaseConstants /\ LInv => \A c \in Holders : Leases!Begin(c) => LInv'
<1> SUFFICES ASSUME LeaseConstants, LInv, NEW c \in Holders, Leases!In(c, {"new"}),
      UNCHANGED <<leaseKind, leasePipe, leases, leasesOver, leaseFaults>>,
      NEW at \in {"local", "failed", "ask"},
      at = "local" => leaseKind \in Leases!LocalFirst,
      Leases!Go(c, at)
    PROVE LInv'
  BY LeasesCount DEF Leases!Begin
<1> DEFINE y == [leaseCall[c] EXCEPT !.at = at]
<1>1. leaseCall[c] \in LeaseCalls /\ CallSound(leaseCall[c]) /\ leasesOver \subseteq leases
      /\ leaseCall[c].at = "new"
  BY DEF LInv, LeasesTyped, Leases!In
<1>2. y \in LeaseCalls /\ y.at = at /\ y.cleaned = leaseCall[c].cleaned
      /\ y.lease = leaseCall[c].lease /\ y.lost = leaseCall[c].lost /\ y.slot = leaseCall[c].slot
      /\ y.runs = leaseCall[c].runs
  BY <1>1 DEF LeaseCalls, Unrun
<1>3. leaseCall' = [leaseCall EXCEPT ![c] = y]
  BY DEF Leases!Go
<1> HIDE DEF y
<1>4. CallSound(y)
  BY <1>1, <1>2 DEF CallSound, Unrun
<1>5. Fresh(leaseCall[c])
  BY <1>1 DEF Fresh
<1> QED
  BY <1>1, <1>2, <1>3, <1>4, <1>5, CallChanges

(* A local slot is taken.                                                   *)
LEMMA LocalKeeps ==
  LeaseConstants /\ LInv => \A c \in Holders : Leases!AcquireLocalSlot(c) => LInv'
<1> SUFFICES ASSUME LeaseConstants, LInv, NEW c \in Holders, Leases!In(c, {"local"}),
      Cardinality(Leases!Locals(PlaceOf[c])) < MaxLeases,
      leaseCall' = [leaseCall EXCEPT ![c] = LET x == [leaseCall[c] EXCEPT !.slot = TRUE] IN
                  IF leaseKind \in Leases!LocalFirst THEN Leases!At(x, "ask") ELSE Leases!Runs(x, "fall")],
      UNCHANGED <<leaseKind, leasePipe, leases, leasesOver, leaseFaults>>
    PROVE LInv'
  BY LeasesCount DEF Leases!AcquireLocalSlot
<1> DEFINE x == [leaseCall[c] EXCEPT !.slot = TRUE]
           y == IF leaseKind \in Leases!LocalFirst THEN Leases!At(x, "ask") ELSE Leases!Runs(x, "fall")
<1>1. leaseCall[c] \in LeaseCalls /\ CallSound(leaseCall[c]) /\ leasesOver \subseteq leases
      /\ leaseCall[c].at = "local"
  BY DEF LInv, LeasesTyped, Leases!In
<1>2. /\ x \in LeaseCalls /\ x.at = "local" /\ x.cleaned = leaseCall[c].cleaned
      /\ x.lease = leaseCall[c].lease /\ x.lost = leaseCall[c].lost /\ x.slot
      /\ x.runs = leaseCall[c].runs /\ x.aborted = leaseCall[c].aborted
  BY <1>1 DEF LeaseCalls
<1>3. leaseCall' = [leaseCall EXCEPT ![c] = y]
  OBVIOUS
<1> HIDE DEF x
<1>a. /\ Leases!At(x, "ask") \in LeaseCalls /\ Leases!At(x, "ask").at = "ask"
      /\ Beside(Leases!At(x, "ask"), x) /\ Leases!At(x, "ask").runs = x.runs
  BY <1>2, AtGives DEF Unrun
<1>b. /\ Leases!Runs(x, "fall") \in LeaseCalls /\ Beside(Leases!Runs(x, "fall"), x)
      /\ \/ Leases!Runs(x, "fall").at = "ending" /\ Leases!Runs(x, "fall").runs = x.runs
         \/ Leases!Runs(x, "fall").at = "fall" /\ Leases!Runs(x, "fall").runs = x.runs + 1
  BY <1>2, RunsGives DEF Leases!Running
<1>4. /\ y \in LeaseCalls /\ Beside(y, x)
      /\ \/ leaseKind \in Leases!LocalFirst /\ y.at = "ask" /\ y.runs = x.runs
         \/ y.at = "ending" /\ y.runs = x.runs
         \/ y.at = "fall" /\ y.runs = x.runs + 1
  BY <1>a, <1>b
<1> HIDE DEF y
<1>5. CallSound(y)
  BY <1>1, <1>2, <1>4 DEF CallSound, Unrun, LeaseCalls, Beside
<1>6. Fresh(y) => Fresh(leaseCall[c])
  BY <1>1, <1>4 DEF Fresh
<1>7. (y.at = "asking" <=> leaseCall[c].at = "asking") /\ y.cleaned = leaseCall[c].cleaned
      /\ y.lease = leaseCall[c].lease /\ y.lost = leaseCall[c].lost
  BY <1>1, <1>2, <1>4 DEF Beside
<1> QED
  BY <1>1, <1>2, <1>3, <1>4, <1>5, <1>6, <1>7, CallChanges

(* What only changes where a caller is.                                     *)
LEMMA MovesKeep ==
  ASSUME LeaseConstants, LInv, NEW c \in Holders, NEW at \in {"ask", "ending"},
         Leases!Go(c, at), UNCHANGED <<leaseKind, leasePipe, leases, leasesOver>>,
         leaseCall[c].at \in {"ask", "sleep", "local"} \cup Leases!Running,
         at = "ask" => leaseCall[c].at = "sleep"
  PROVE  LInv'
<1> DEFINE y == [leaseCall[c] EXCEPT !.at = at]
<1>1. leaseCall[c] \in LeaseCalls /\ CallSound(leaseCall[c]) /\ leasesOver \subseteq leases
  BY DEF LInv, LeasesTyped
<1>2. y \in LeaseCalls /\ y.at = at /\ y.cleaned = leaseCall[c].cleaned
      /\ y.lease = leaseCall[c].lease /\ y.lost = leaseCall[c].lost /\ y.slot = leaseCall[c].slot
      /\ y.runs = leaseCall[c].runs
  BY <1>1 DEF LeaseCalls, Unrun
<1>3. leaseCall' = [leaseCall EXCEPT ![c] = y]
  BY DEF Leases!Go
<1> HIDE DEF y
<1>4. CallSound(y)
  BY <1>1, <1>2 DEF CallSound, Unrun
<1>5. Fresh(y) => Fresh(leaseCall[c])
  BY <1>2 DEF Fresh
<1> QED
  BY <1>1, <1>2, <1>3, <1>4, <1>5, CallChanges DEF Leases!Running

(* A call is aborted.                                                       *)
LEMMA AbortKeeps ==
  LeaseConstants /\ LInv => \A c \in Holders : Leases!AbortCall(c) => LInv'
<1> SUFFICES ASSUME LeaseConstants, LInv, NEW c \in Holders,
      ~Leases!In(c, {"done", "failed", "ending", "leaving"}),
      leaseCall' = [leaseCall EXCEPT ![c] =
        [leaseCall[c] EXCEPT !.aborted = TRUE,
           !.at = IF leaseCall[c].at \in {"sleep", "local"} THEN "ending"
                  ELSE leaseCall[c].at]],
      UNCHANGED <<leaseKind, leasePipe, leases, leasesOver>>
    PROVE LInv'
  BY DEF Leases!AbortCall
<1> DEFINE y == [leaseCall[c] EXCEPT !.aborted = TRUE,
                   !.at = IF leaseCall[c].at \in {"sleep", "local"} THEN "ending"
                          ELSE leaseCall[c].at]
<1>1. leaseCall[c] \in LeaseCalls /\ CallSound(leaseCall[c]) /\ leasesOver \subseteq leases
  BY DEF LInv, LeasesTyped
<1>2. /\ y \in LeaseCalls /\ y.cleaned = leaseCall[c].cleaned
      /\ y.at = IF leaseCall[c].at \in {"sleep", "local"} THEN "ending" ELSE leaseCall[c].at
      /\ y.lease = leaseCall[c].lease /\ y.lost = leaseCall[c].lost /\ y.slot = leaseCall[c].slot
      /\ y.runs = leaseCall[c].runs
  BY <1>1 DEF LeaseCalls, Unrun
<1>3. leaseCall' = [leaseCall EXCEPT ![c] = y]
  OBVIOUS
<1> HIDE DEF y
<1>4. CallSound(y)
  BY <1>1, <1>2 DEF CallSound, Unrun
<1>5. Fresh(y) => Fresh(leaseCall[c])
  BY <1>2 DEF Fresh
<1> QED
  BY <1>1, <1>2, <1>3, <1>4, <1>5, CallChanges

-----------------------------------------------------------------------------
(* What a call knows still fits when neither the call, its commands nor its *)
(* lease changed.                                                           *)
LEMMA KeepsFitting ==
  ASSUME NEW d, CallFits(d), leaseKind' = leaseKind, leaseCall'[d] = leaseCall[d],
         Sent("try", d)' <=> Sent("try", d),
         Sent("zrem", d)' <=> Sent("zrem", d),
         d \in leases' => d \in leases
  PROVE  CallFits(d)'
<1>1. Fresh(leaseCall[d])' <=> Fresh(leaseCall[d])
  BY DEF Fresh
<1> HIDE DEF Sent
<1> QED
  BY <1>1 DEF CallFits, Leases!In

(* A call that does not change stays sound.                                 *)
LEMMA SoundStays ==
  ASSUME NEW d, CallSound(leaseCall[d]), leaseKind' = leaseKind, leaseCall'[d] = leaseCall[d]
  PROVE  CallSound(leaseCall[d])'
BY DEF CallSound

(* One more command is sent.                                                *)
LEMMA SendEffect ==
  ASSUME LeaseConstants, LInv, NEW c \in Holders,
         NEW op \in {"try", "renew", "zrem"}, Leases!Send(op, c),
         op = "try" => ~Sent("try", c) /\ ~Sent("zrem", c)
  PROVE  /\ leasePipe' \in [Places -> Seq(Commands)]
         /\ OfItsProcess' /\ \A p \in Places : InOrder(leasePipe[p])'
         /\ \A d \in Holders :
              /\ Sent("try", d)' <=> Sent("try", d) \/ (op = "try" /\ d = c)
              /\ Sent("zrem", d)' <=> Sent("zrem", d) \/ (op = "zrem" /\ d = c)
<1> DEFINE h == PlaceOf[c]
           e == Leases!Command(op, c)
           q == Append(leasePipe[h], e)
<1>1. /\ h \in Places /\ leasePipe \in [Places -> Seq(Commands)] /\ e \in Commands
      /\ leasePipe[h] \in Seq(Commands)
      /\ e.op = op /\ e.call = c
  BY DEF LeaseConstants, LInv, LeasesTyped, Leases!Command, Commands
<1>2. /\ q \in Seq(Commands) /\ \A d : Has(q, d) <=> Has(leasePipe[h], d) \/ d = e
  BY <1>1, HasAppended
<1>3. /\ leasePipe' = [leasePipe EXCEPT ![h] = q]
  BY DEF Leases!Send
<1> HIDE DEF q, h
<1>4. leasePipe' \in [Places -> Seq(Commands)] /\ leasePipe'[h] = q
      /\ \A p \in Places : p # h => leasePipe'[p] = leasePipe[p]
  BY <1>1, <1>2, <1>3
<1>5. \A p \in Places : \A d : Has(leasePipe'[p], d) <=> Has(leasePipe[p], d) \/ (p = h /\ d = e)
  BY <1>2, <1>4
<1>6. OfItsProcess'
  BY <1>1, <1>5 DEF OfItsProcess, LInv, h
<1>7. InOrder(q)
  <2>1. op = "try" => ~Has(leasePipe[h], Leases!Command("try", c)) /\ ~Has(leasePipe[h], Leases!Command("zrem", c))
    BY DEF Sent, h
  <2>2. InOrder(leasePipe[h])
    BY <1>1 DEF LInv
  <2> HIDE DEF e
  <2> QED
    BY <1>1, <2>1, <2>2, OrderAppended DEF q
<1>8. \A p \in Places : InOrder(leasePipe[p])'
  <2> SUFFICES ASSUME NEW p \in Places PROVE InOrder(leasePipe'[p])
    BY DEF InOrder
  <2> QED
    BY <1>4, <1>7 DEF LInv
<1>9. ASSUME NEW d \in Holders, NEW o \in {"try", "zrem"}
      PROVE  Sent(o, d)' <=> Sent(o, d) \/ (op = o /\ d = c)
  <2>1. PlaceOf[d] \in Places
    BY DEF LeaseConstants
  <2>2. Sent(o, d)' <=> Has(leasePipe'[PlaceOf[d]], Leases!Command(o, d))
    BY DEF Sent, Leases!Command, Has
  <2>3. Leases!Command(o, d) = e <=> op = o /\ d = c
    BY DEF Leases!Command
  <2> QED
    BY <1>5, <2>1, <2>2, <2>3 DEF Sent, h
<1> QED
  BY <1>4, <1>6, <1>8, <1>9

(* A call asks Redis for a lease.                                           *)
LEMMA AskKeeps ==
  LeaseConstants /\ LInv => \A c \in Holders : Leases!Ask(c) => LInv'
<1> SUFFICES ASSUME LeaseConstants, LInv, NEW c \in Holders, Leases!Ask(c) PROVE LInv'
  OBVIOUS
<1>1. Leases!In(c, {"ask"}) /\ UNCHANGED <<leaseKind, leases, leasesOver, leaseFaults>>
  BY DEF Leases!Ask
<1>2. CASE Leases!Go(c, "ending") /\ UNCHANGED leasePipe
  BY <1>1, <1>2, MovesKeep DEF Leases!In
<1>3. CASE Leases!Go(c, "asking") /\ Leases!Send("try", c)
  <2> DEFINE y == [leaseCall[c] EXCEPT !.at = "asking"]
  <2>1. /\ leaseCall[c] \in LeaseCalls /\ CallSound(leaseCall[c]) /\ leasesOver \subseteq leases
        /\ leaseCall[c].at = "ask" /\ CallFits(c) /\ Fresh(leaseCall[c])
    BY <1>1 DEF LInv, LeasesTyped, Leases!In, Fresh
  <2>2. y \in LeaseCalls /\ y.at = "asking" /\ y.cleaned = leaseCall[c].cleaned
        /\ y.lease = leaseCall[c].lease /\ y.lost = leaseCall[c].lost /\ y.slot = leaseCall[c].slot
        /\ y.runs = leaseCall[c].runs
    BY <2>1 DEF LeaseCalls, Unrun
  <2>3. leaseCall' = [leaseCall EXCEPT ![c] = y]
    BY <1>3 DEF Leases!Go
  <2> HIDE DEF y
  <2>4. ~Sent("try", c) /\ ~Sent("zrem", c) /\ c \notin leases /\ ~leaseCall[c].cleaned
    BY <2>1 DEF CallFits
  <2>5. /\ leasePipe' \in [Places -> Seq(Commands)]
        /\ OfItsProcess' /\ \A p \in Places : InOrder(leasePipe[p])'
        /\ \A d \in Holders :
             /\ Sent("try", d)' <=> Sent("try", d) \/ d = c
             /\ Sent("zrem", d)' <=> Sent("zrem", d)
    BY <1>3, <2>4, SendEffect
  <2>6. leaseCall' \in [Holders -> LeaseCalls] /\ leaseCall'[c] = y
        /\ \A d \in Holders \ {c} : leaseCall'[d] = leaseCall[d]
    BY <2>2, <2>3 DEF LInv, LeasesTyped
  <2>7. LeasesTyped'
    BY <1>1, <2>5, <2>6 DEF LInv, LeasesTyped
  <2>8. CallSound(leaseCall[c])'
    BY <1>1, <2>1, <2>2, <2>6 DEF CallSound, Unrun
  <2>9. CallFits(c)'
    <3>1. /\ leaseCall'[c].at = "asking" /\ ~leaseCall'[c].cleaned /\ c \notin leases'
          /\ Sent("try", c)' /\ ~Sent("zrem", c)'
      BY <1>1, <2>2, <2>4, <2>5, <2>6
    <3>2. ~Fresh(leaseCall[c])'
      BY <3>1 DEF Fresh
    <3> QED
      BY <3>1, <3>2 DEF CallFits, Leases!In
  <2>10. \A d \in Holders \ {c} : CallFits(d)' /\ CallSound(leaseCall[d])'
    <3> SUFFICES ASSUME NEW d \in Holders \ {c} PROVE CallFits(d)' /\ CallSound(leaseCall[d])'
      OBVIOUS
    <3>1. CallFits(d) /\ CallSound(leaseCall[d])
      BY DEF LInv
    <3> QED
      BY <1>1, <2>5, <2>6, <3>1, KeepsFitting, SoundStays
  <2>11. Leases!WithinLimit'
    BY <1>1, <2>2, <2>6, LocalsKept, LeasesCount DEF LInv, Leases!WithinLimit
  <2> QED
    BY <2>5, <2>7, <2>8, <2>9, <2>10, <2>11 DEF LInv
<1> QED
  BY <1>2, <1>3 DEF Leases!Ask

-----------------------------------------------------------------------------
(* One call changes, with what it has of leases and commands.               *)
LEMMA OneCall ==
  ASSUME LeaseConstants, LInv, NEW c \in Holders, NEW y \in LeaseCalls,
         leaseCall' = [leaseCall EXCEPT ![c] = y], leaseKind' = leaseKind,
         leasePipe' \in [Places -> Seq(Commands)],
         OfItsProcess', \A p \in Places : InOrder(leasePipe[p])',
         leases' \subseteq leases \cup {c}, leasesOver' \subseteq leases',
         Cardinality(leases') <= MaxLeases,
         \A d \in Holders \ {c} : /\ Sent("try", d)' <=> Sent("try", d)
                                  /\ Sent("zrem", d)' <=> Sent("zrem", d),
         CallFits(c)', CallSound(y), y.slot => leaseCall[c].slot
  PROVE  LInv'
<1>1. leaseCall' \in [Holders -> LeaseCalls] /\ leaseCall'[c] = y
      /\ \A d \in Holders \ {c} : leaseCall'[d] = leaseCall[d]
  BY DEF LInv, LeasesTyped
<1>2. LeasesTyped'
  BY <1>1 DEF LInv, LeasesTyped
<1>3. Leases!WithinLimit'
  BY <1>1, LocalsKept, LeasesCount DEF Leases!WithinLimit
<1>4. CallSound(leaseCall[c])'
  BY <1>1 DEF CallSound
<1>5. \A d \in Holders \ {c} : CallFits(d)' /\ CallSound(leaseCall[d])'
  <2> SUFFICES ASSUME NEW d \in Holders \ {c} PROVE CallFits(d)' /\ CallSound(leaseCall[d])'
    OBVIOUS
  <2>1. CallFits(d) /\ CallSound(leaseCall[d])
    BY DEF LInv
  <2> QED
    BY <1>1, <2>1, KeepsFitting, SoundStays
<1> QED
  BY <1>2, <1>3, <1>4, <1>5 DEF LInv

(* A call asks again, gives up, or its task ends.                           *)
LEMMA MovesAreSafe ==
  LeaseConstants /\ LInv =>
    \A c \in Holders : Leases!AskAgain(c) \/ Leases!TimesOut(c) \/ Leases!TaskEnds(c) => LInv'
BY MovesKeep DEF Leases!AskAgain, Leases!TimesOut, Leases!TaskEnds, Leases!In,
   Leases!Running

(* The time of a lease is over.                                             *)
LEMMA LapseKeeps ==
  LeaseConstants /\ LInv => \A c \in Holders : Leases!Lapses(c) => LInv'
<1> SUFFICES ASSUME LeaseConstants, LInv, NEW c \in Holders, Leases!Lapses(c) PROVE LInv'
  OBVIOUS
<1>1. c \in leases /\ leasesOver' = leasesOver \cup {c} /\ UNCHANGED <<leaseKind, leaseCall, leasePipe, leases>>
  BY DEF Leases!Lapses
<1>2. LeasesTyped'
  BY <1>1 DEF LInv, LeasesTyped
<1>3. \A d \in Holders : CallFits(d)' /\ CallSound(leaseCall[d])'
  BY <1>1 DEF LInv, CallFits, CallSound, Fresh, Sent, Leases!In,
     Leases!Command
<1> QED
  BY <1>1, <1>2, <1>3, LeasesCount DEF LInv, OfItsProcess, InOrder,
     Leases!WithinLimit, Leases!Locals, Has

(* A renewal is sent.                                                       *)
LEMMA RenewKeeps ==
  LeaseConstants /\ LInv => \A c \in Holders : Leases!Renew(c) => LInv'
<1> SUFFICES ASSUME LeaseConstants, LInv, NEW c \in Holders, Leases!Renew(c) PROVE LInv'
  OBVIOUS
<1>1. Leases!Send("renew", c) /\ UNCHANGED <<leaseKind, leaseCall, leases, leasesOver, leaseFaults>>
  BY DEF Leases!Renew
<1>2. /\ leasePipe' \in [Places -> Seq(Commands)]
      /\ OfItsProcess' /\ \A p \in Places : InOrder(leasePipe[p])'
      /\ \A d \in Holders : /\ Sent("try", d)' <=> Sent("try", d)
                            /\ Sent("zrem", d)' <=> Sent("zrem", d)
  BY <1>1, SendEffect
<1>3. /\ leaseCall[c] \in LeaseCalls /\ leaseCall' = [leaseCall EXCEPT ![c] = leaseCall[c]]
      /\ CallFits(c) /\ CallSound(leaseCall[c]) /\ leasesOver \subseteq leases
      /\ Cardinality(leases) <= MaxLeases
  BY <1>1, LeasesCount DEF LInv, LeasesTyped, Leases!WithinLimit
<1>4. CallFits(c)'
  BY <1>1, <1>2, <1>3, KeepsFitting
<1> QED
  BY <1>1, <1>2, <1>3, <1>4, OneCall

(* A call gives back what it has.                                           *)
LEMMA ReleaseKeeps ==
  LeaseConstants /\ LInv => \A c \in Holders : Leases!Release(c) => LInv'
<1> SUFFICES ASSUME LeaseConstants, LInv, NEW c \in Holders, Leases!Release(c) PROVE LInv'
  OBVIOUS
<1> DEFINE y == [leaseCall[c] EXCEPT !.slot = FALSE, !.lease = FALSE,
                   !.at = IF leaseCall[c].lease THEN "leaving" ELSE "done"]
<1>1. /\ leaseCall[c].at = "ending" /\ UNCHANGED <<leaseKind, leases, leasesOver, leaseFaults>>
      /\ leaseCall' = [leaseCall EXCEPT ![c] = y]
      /\ IF leaseCall[c].lease THEN Leases!Send("zrem", c) ELSE UNCHANGED leasePipe
  BY DEF Leases!Release, Leases!In
<1>2. /\ leaseCall[c] \in LeaseCalls /\ CallFits(c) /\ CallSound(leaseCall[c])
      /\ leasesOver \subseteq leases /\ Cardinality(leases) <= MaxLeases
      /\ leasePipe \in [Places -> Seq(Commands)] /\ leaseCall \in [Holders -> LeaseCalls]
  BY LeasesCount DEF LInv, LeasesTyped, Leases!WithinLimit
<1>3. /\ y \in LeaseCalls /\ ~y.slot /\ ~y.lease /\ y.cleaned = leaseCall[c].cleaned
      /\ y.at = (IF leaseCall[c].lease THEN "leaving" ELSE "done")
      /\ y.lost = leaseCall[c].lost /\ y.runs = leaseCall[c].runs
  BY <1>2 DEF LeaseCalls
<1> HIDE DEF y
<1>4. /\ leasePipe' \in [Places -> Seq(Commands)]
      /\ OfItsProcess' /\ \A p \in Places : InOrder(leasePipe[p])'
      /\ \A d \in Holders :
           /\ Sent("try", d)' <=> Sent("try", d)
           /\ Sent("zrem", d)' <=> Sent("zrem", d) \/ (leaseCall[c].lease /\ d = c)
  <2>1. CASE leaseCall[c].lease
    BY <1>1, <2>1, SendEffect
  <2>2. CASE ~leaseCall[c].lease
    BY <1>1, <1>2, <2>2 DEF LInv, OfItsProcess, InOrder, Sent, Has,
       Leases!Command
  <2> QED
    BY <2>1, <2>2
<1>5. CallSound(y)
  BY <1>1, <1>2, <1>3 DEF CallSound, Unrun
<1>6. CallFits(c)'
  <2>1. leaseCall'[c] = y
    BY <1>1, <1>2
  <2>2. ~Fresh(leaseCall[c])' /\ ~Leases!In(c, {"asking"})'
    BY <1>3, <2>1 DEF Fresh, Leases!In
  <2>3. /\ leaseCall[c].cleaned => c \notin leases /\ ~Sent("try", c)
        /\ leaseKind = "ytdlp" /\ (c \in leases \/ Sent("try", c)) =>
             leaseCall[c].lease \/ leaseCall[c].lost \/ Sent("zrem", c)
    BY <1>1, <1>2 DEF CallFits, Leases!In
  <2> HIDE DEF Sent
  <2> QED
    BY <1>1, <1>3, <1>4, <2>1, <2>2, <2>3 DEF CallFits
<1> QED
  BY <1>1, <1>2, <1>3, <1>4, <1>5, <1>6, OneCall

-----------------------------------------------------------------------------
(* x is the first command of p's connection, of the call c.                 *)
IsFirst(p, x, c) == x = Head(leasePipe[p]) /\ c = x.call

(* The first command leaves the connection.                                 *)
LEMMA TailEffect ==
  ASSUME LeaseConstants, LInv, NEW p \in Places, leasePipe[p] # <<>>,
         leasePipe' = [leasePipe EXCEPT ![p] = Tail(@)],
         NEW x, NEW c, IsFirst(p, x, c)
  PROVE  /\ x \in Commands /\ c \in Holders
         /\ leasePipe' \in [Places -> Seq(Commands)]
         /\ OfItsProcess' /\ \A q \in Places : InOrder(leasePipe[q])'
         /\ \A d \in Holders, o \in {"try", "zrem"} :
              Sent(o, d) <=> Sent(o, d)' \/ x = Leases!Command(o, d)
         /\ x.op \in {"try", "zrem"} => ~Sent("try", c)'
<1> DEFINE s == leasePipe[p]
           t == Tail(s)
<1>0. x = Head(s) /\ c = x.call
  BY DEF IsFirst
<1>1. s \in Seq(Commands) /\ InOrder(s) /\ leasePipe \in [Places -> Seq(Commands)] /\ s # <<>>
  BY DEF LInv, LeasesTyped
<1> HIDE DEF s
<1>2. /\ x \in Commands /\ t \in Seq(Commands) /\ Has(s, x)
      /\ \A d : Has(s, d) <=> x = d \/ Has(t, d)
  BY <1>0, <1>1, HasTail
<1>3. /\ InOrder(t)
      /\ \A d \in Holders : x \in {Leases!Command("try", d), Leases!Command("zrem", d)}
           => ~Has(t, Leases!Command("try", d))
  BY <1>0, <1>1, OrderTail
<1>4. leasePipe' = [leasePipe EXCEPT ![p] = t]
  BY DEF s
<1> HIDE DEF t
<1>5. leasePipe' \in [Places -> Seq(Commands)] /\ leasePipe'[p] = t
      /\ \A q \in Places : q # p => leasePipe'[q] = leasePipe[q]
  BY <1>1, <1>2, <1>4
<1>6. \A q \in Places : \A d : Has(leasePipe[q], d) <=> Has(leasePipe'[q], d) \/ (q = p /\ d = x)
  BY <1>2, <1>5 DEF s
<1>7. OfItsProcess'
  BY <1>6 DEF OfItsProcess, LInv
<1>8. \A q \in Places : InOrder(leasePipe[q])'
  <2> SUFFICES ASSUME NEW q \in Places PROVE InOrder(leasePipe'[q])
    BY DEF InOrder
  <2> QED
    BY <1>3, <1>5 DEF LInv
<1>9. x.call \in Holders /\ PlaceOf[x.call] = p /\ x = Leases!Command(x.op, x.call)
  BY <1>2 DEF LInv, OfItsProcess, Commands, Leases!Command, s
<1>10. \A d \in Holders, o \in {"try", "zrem"} :
         Sent(o, d) <=> Sent(o, d)' \/ x = Leases!Command(o, d)
  <2> SUFFICES ASSUME NEW d \in Holders, NEW o \in {"try", "zrem"}
      PROVE Sent(o, d) <=> Sent(o, d)' \/ x = Leases!Command(o, d)
    OBVIOUS
  <2>1. PlaceOf[d] \in Places
    BY DEF LeaseConstants
  <2>2. Sent(o, d)' <=> Has(leasePipe'[PlaceOf[d]], Leases!Command(o, d))
    BY DEF Sent, Leases!Command, Has
  <2>3. x = Leases!Command(o, d) => PlaceOf[d] = p
    BY <1>9 DEF Leases!Command
  <2> QED
    BY <1>6, <2>1, <2>2, <2>3 DEF Sent
<1>11. x.op \in {"try", "zrem"} => ~Sent("try", c)'
  <2>1. Sent("try", c)' <=> Has(t, Leases!Command("try", c))
    BY <1>0, <1>5, <1>9 DEF Sent, Leases!Command, Has
  <2> QED
    BY <1>0, <1>3, <1>9, <2>1
<1> QED
  BY <1>0, <1>2, <1>5, <1>7, <1>8, <1>9, <1>10, <1>11

(* The script that adds a lease keeps the limit.                            *)
LEMMA TriedFits ==
  ASSUME LeaseConstants, LInv, NEW c \in Holders
  PROVE  /\ Leases!Tried(c) \subseteq leases \cup {c}
         /\ Cardinality(Leases!Tried(c)) <= MaxLeases
<1> DEFINE L == leases \ leasesOver
<1>1. /\ IsFiniteSet(leases) /\ Cardinality(leases) \in Nat
      /\ Cardinality(leases) <= MaxLeases /\ MaxLeases \in Nat
  BY FS_Subset, FS_CardinalityType, LeasesCount DEF LInv, LeasesTyped,
     LeaseConstants, Leases!WithinLimit
<1>2. IsFiniteSet(L) /\ Cardinality(L) \in Nat /\ Cardinality(L) <= Cardinality(leases)
  BY <1>1, FS_Subset, FS_CardinalityType
<1>3. Leases!Tried(c) = IF Cardinality(L) < MaxLeases THEN L \cup {c} ELSE L
  BY LeasesCount DEF Leases!Tried
<1>4. L \subseteq leases
  OBVIOUS
<1> HIDE DEF L
<1>5. Cardinality(L \cup {c}) = IF c \in L THEN Cardinality(L) ELSE Cardinality(L) + 1
  BY <1>2, FS_AddElement
<1> QED
  BY <1>1, <1>2, <1>3, <1>4, <1>5

(* Redis executes a command, whether its caller still waits or not.         *)
LEMMA ExecuteKeeps ==
  LeaseConstants /\ LInv => \A p \in Places : Leases!Execute(p) => LInv'
<1> SUFFICES ASSUME LeaseConstants, LInv, NEW p \in Places, Leases!Execute(p) PROVE LInv'
  OBVIOUS
<1> SUFFICES ASSUME NEW x, NEW c, IsFirst(p, x, c) PROVE LInv'
  BY DEF IsFirst
<1> DEFINE after == CASE x.op = "try" -> Leases!Tried(c)
                      [] x.op = "renew" -> Leases!Renewed(c)
                      [] OTHER -> leases \ {c}
           z == leaseCall[c]
           y == CASE x.op = "try" /\ z.at = "asking" ->
                       IF c \in after THEN Leases!Runs([z EXCEPT !.lease = TRUE], "run")
                       ELSE Leases!At(z, "sleep")
                  [] x.op = "zrem" /\ z.at = "cleaning" ->
                       Leases!Cleaned([z EXCEPT !.cleaned = TRUE])
                  [] x.op = "zrem" /\ z.at = "leaving" ->
                       Leases!At([z EXCEPT !.cleaned = TRUE], "done")
                  [] OTHER -> z
<1>1. /\ leasePipe[p] # <<>> /\ leasePipe' = [leasePipe EXCEPT ![p] = Tail(@)]
      /\ leases' = after /\ UNCHANGED <<leaseKind, leaseFaults>>
      /\ leasesOver' = (IF x.op = "try" THEN {} ELSE leasesOver \ {c})
      /\ leaseCall' = [leaseCall EXCEPT ![c] = y]
  BY DEF Leases!Execute, IsFirst
<1>2. /\ x \in Commands
      /\ leasePipe' \in [Places -> Seq(Commands)]
      /\ OfItsProcess' /\ \A q \in Places : InOrder(leasePipe[q])'
      /\ \A d \in Holders, o \in {"try", "zrem"} :
           Sent(o, d) <=> Sent(o, d)' \/ x = Leases!Command(o, d)
      /\ x.op \in {"try", "zrem"} => ~Sent("try", c)'
  <2> HIDE DEF after, y, z
  <2>1. leasePipe[p] # <<>> /\ leasePipe' = [leasePipe EXCEPT ![p] = Tail(@)]
    BY <1>1
  <2> QED
    BY <2>1, TailEffect
<1>3. /\ c \in Holders /\ x.op \in {"try", "renew", "zrem"} /\ x = Leases!Command(x.op, c)
  BY <1>2 DEF Commands, Leases!Command, IsFirst
<1>4. /\ z \in LeaseCalls /\ CallFits(c) /\ CallSound(z) /\ leasesOver \subseteq leases
      /\ leaseCall \in [Holders -> LeaseCalls] /\ IsFiniteSet(leases)
      /\ Cardinality(leases) <= MaxLeases /\ Cardinality(leases) \in Nat /\ MaxLeases \in Nat
  BY <1>3, FS_Subset, FS_CardinalityType, LeasesCount DEF LInv, LeasesTyped,
     Leases!WithinLimit, LeaseConstants
<1>e. \A d, o : x = Leases!Command(o, d) <=> x.op = o /\ d = c
  BY <1>3 DEF Leases!Command
<1>5. \A d \in Holders \ {c} : /\ Sent("try", d)' <=> Sent("try", d)
                               /\ Sent("zrem", d)' <=> Sent("zrem", d)
  BY <1>2, <1>e
<1>6. /\ Sent("try", c) <=> Sent("try", c)' \/ x.op = "try"
      /\ Sent("zrem", c) <=> Sent("zrem", c)' \/ x.op = "zrem"
  BY <1>2, <1>3, <1>e
<1> HIDE DEF y, z, after
<1>7. /\ leaseCall'[c] = y /\ leaseCall[c] = z
  BY <1>1, <1>3, <1>4 DEF z
<1>8. /\ Fresh(z) => ~Sent("try", c) /\ ~Sent("zrem", c) /\ c \notin leases /\ ~z.cleaned
      /\ z.at = "asking" => ~Sent("zrem", c) /\ c \notin leases /\ ~z.cleaned
      /\ z.cleaned => c \notin leases /\ ~Sent("try", c)
      /\ leaseKind = "ytdlp" /\ (c \in leases \/ Sent("try", c)) =>
           z.at = "asking" \/ z.lease \/ z.lost \/ Sent("zrem", c)
  BY <1>4, <1>7 DEF CallFits, Leases!In
<1>9. (Fresh(leaseCall[c])' <=> Fresh(y)) /\ (Leases!In(c, {"asking"})' <=> y.at = "asking")
  BY <1>1, <1>7 DEF Fresh, Leases!In
<1>10. CASE x.op = "try"
  <2>1. after = Leases!Tried(c)
    BY <1>10 DEF after
  <2>2. /\ after \subseteq leases \cup {c} /\ Cardinality(after) <= MaxLeases
        /\ leasesOver' = {}
    BY <1>1, <1>3, <1>10, <2>1, TriedFits
  <2>3. ~Sent("try", c)' /\ Sent("try", c) /\ (Sent("zrem", c)' <=> Sent("zrem", c))
    BY <1>2, <1>6, <1>10
  <2>4. CASE z.at # "asking"
    <3>1. y = z
      BY <1>10, <2>4 DEF y
    <3>2. CallFits(c)'
      <4> HIDE DEF Sent
      <4> QED
        BY <1>1, <1>7, <1>8, <1>9, <2>3, <2>4, <3>1 DEF CallFits
    <3> QED
      BY <1>1, <1>2, <1>3, <1>4, <1>5, <1>7, <2>2, <3>1, <3>2, OneCall
  <2>5. CASE z.at = "asking" /\ c \in after
    <3> DEFINE w == [z EXCEPT !.lease = TRUE]
    <3>1. w \in LeaseCalls /\ w.lease /\ w.cleaned = z.cleaned /\ w.slot = z.slot
          /\ w.lost = z.lost /\ w.runs = z.runs /\ w.at = z.at
      BY <1>4 DEF LeaseCalls
    <3>2. y = Leases!Runs(w, "run")
      BY <1>10, <2>5 DEF y
    <3> HIDE DEF w
    <3>3. /\ y \in LeaseCalls /\ Beside(y, w)
          /\ \/ y.at = "ending" /\ y.runs = w.runs
             \/ y.at = "run" /\ y.runs = w.runs + 1
      BY <3>1, <3>2, RunsGives DEF Leases!Running
    <3>4. CallSound(y)
      BY <1>4, <2>5, <3>1, <3>3 DEF CallSound, Unrun, Beside, LeaseCalls
    <3>5. CallFits(c)'
      <4>1. ~Fresh(y) /\ y.at # "asking" /\ ~y.cleaned /\ y.lease
        BY <1>8, <2>5, <3>1, <3>3 DEF Fresh, Beside
      <4> HIDE DEF Sent
      <4> QED
        BY <1>7, <1>9, <4>1 DEF CallFits
    <3>6. y.slot => leaseCall[c].slot
      BY <1>7, <3>1, <3>3 DEF Beside
    <3> QED
      BY <1>1, <1>2, <1>3, <1>5, <2>2, <3>3, <3>4, <3>5, <3>6, OneCall
  <2>6. CASE z.at = "asking" /\ c \notin after
    <3>1. y = Leases!At(z, "sleep")
      BY <1>10, <2>6 DEF y
    <3>2. /\ y \in LeaseCalls /\ Beside(y, z) /\ y.at = "sleep" /\ y.runs = z.runs
      BY <1>4, <3>1, AtGives DEF Unrun
    <3>3. CallSound(y)
      BY <1>4, <2>6, <3>2 DEF CallSound, Unrun, Beside
    <3>4. CallFits(c)'
      <4>1. y.at = "sleep" /\ ~y.cleaned /\ ~Sent("zrem", c)' /\ c \notin leases'
        BY <1>1, <1>8, <2>3, <2>6, <3>2 DEF Beside
      <4> HIDE DEF Sent
      <4> QED
        BY <1>7, <1>9, <2>3, <4>1 DEF CallFits
    <3>5. y.slot => leaseCall[c].slot
      BY <1>7, <3>2 DEF Beside
    <3> QED
      BY <1>1, <1>2, <1>3, <1>5, <2>2, <3>2, <3>3, <3>4, <3>5, OneCall
  <2> QED
    BY <2>4, <2>5, <2>6
<1>11. CASE x.op = "renew"
  <2>1. after = leases /\ y = z /\ leasesOver' \subseteq leases
    BY <1>1, <1>4, <1>11 DEF after, Leases!Renewed, y
  <2>2. /\ Sent("try", c)' <=> Sent("try", c)
        /\ Sent("zrem", c)' <=> Sent("zrem", c)
    BY <1>6, <1>11
  <2>3. CallFits(c)'
    BY <1>1, <1>4, <1>7, <2>1, <2>2, KeepsFitting
  <2> QED
    BY <1>1, <1>2, <1>3, <1>4, <1>5, <1>7, <2>1, <2>3, OneCall
<1>12. CASE x.op = "zrem"
  <2>1. /\ after = leases \ {c} /\ leasesOver' = leasesOver \ {c}
        /\ leasesOver' \subseteq after
    BY <1>1, <1>4, <1>12 DEF after
  <2>2. Cardinality(after) <= MaxLeases
    <3>1. Cardinality(after) <= Cardinality(leases) /\ Cardinality(after) \in Nat
      BY <1>4, <2>1, FS_Subset, FS_CardinalityType
    <3> QED
      BY <1>4, <3>1
  <2>3. ~Sent("try", c)' /\ Sent("zrem", c) /\ c \notin leases'
    BY <1>1, <1>2, <1>6, <1>12, <2>1
  <2> DEFINE w == [z EXCEPT !.cleaned = TRUE]
  <2>4. w \in LeaseCalls /\ w.lease = z.lease /\ w.cleaned /\ w.slot = z.slot
        /\ w.lost = z.lost /\ w.runs = z.runs /\ w.at = z.at
    BY <1>4 DEF LeaseCalls
  <2>5. /\ y \in LeaseCalls /\ y.slot = z.slot /\ y.lease = z.lease
        /\ y.runs = z.runs
        /\ \/ y = z
           \/ z.at = "cleaning" /\ y.at \in {"local", "ending"}
           \/ z.at = "leaving" /\ y.at = "done"
    <3>1. CASE z.at = "cleaning"
      <4>1. y = Leases!At(w, IF w.aborted THEN "ending" ELSE "local")
        BY <1>12, <3>1 DEF y, Leases!Cleaned
      <4> HIDE DEF w
      <4> QED
        BY <2>4, <3>1, <4>1, AtGives DEF Beside, Unrun
    <3>2. CASE z.at = "leaving"
      <4>1. y = Leases!At(w, "done")
        BY <1>12, <3>2 DEF y
      <4> HIDE DEF w
      <4> QED
        BY <2>4, <3>2, <4>1, AtGives DEF Beside
    <3>3. CASE z.at \notin {"cleaning", "leaving"}
      BY <1>4, <1>12, <3>3 DEF y
    <3> QED
      BY <3>1, <3>2, <3>3
  <2> HIDE DEF w
  <2>6. CallSound(y)
    BY <1>4, <2>5 DEF CallSound, Unrun
  <2>7. leaseKind = "ytdlp" => leaseKind \notin Leases!LocalFirst
    BY DEF Leases!LocalFirst
  <2>8. ~Fresh(y) /\ y.at # "asking"
    <3>1. ~Fresh(z) /\ z.at # "asking"
      BY <1>8, <2>3
    <3> QED
      BY <1>4, <2>5, <2>7, <3>1 DEF Fresh, CallSound
  <2>9. CallFits(c)'
    <3> HIDE DEF Sent
    <3> QED
      BY <1>9, <2>3, <2>8 DEF CallFits
  <2>10. y.slot => leaseCall[c].slot /\ leases' \subseteq leases \cup {c}
    BY <1>1, <1>7, <2>1, <2>5
  <2> QED
    BY <1>1, <1>2, <1>3, <1>5, <1>7, <2>1, <2>2, <2>5, <2>6, <2>9, OneCall
<1> QED
  BY <1>3, <1>10, <1>11, <1>12

-----------------------------------------------------------------------------
(* What becomes of a call whose answer does not come.                       *)
LEMMA UnansweredGives ==
  ASSUME LeaseConstants, LeasesTyped, NEW x \in LeaseCalls, CallSound(x)
  PROVE  LET y == Leases!Unanswered(x)
         IN /\ y \in LeaseCalls /\ CallSound(y)
            /\ y.cleaned = x.cleaned /\ y.lease = x.lease /\ y.lost = x.lost
            /\ y.slot = x.slot
            /\ \/ y = x /\ x.at \notin {"asking", "cleaning", "leaving"}
               \/ /\ x.at \in {"asking", "cleaning", "leaving"}
                  /\ y.at # "asking" /\ ~Fresh(y)
            /\ (x.at = "asking" /\ leaseKind = "ytdlp") <=> y.at = "cleaning"
<1> DEFINE y == Leases!Unanswered(x)
<1>1. leaseKind \in {"ytdlp", "youtube", "rss", "worker"}
      /\ Leases!LocalFirst = {"youtube"}
  BY DEF LeaseConstants, LeasesTyped, Leases!LocalFirst
<1>2. CASE x.at = "asking" /\ leaseKind = "ytdlp"
  <2>1. y = Leases!At(x, "cleaning")
    BY <1>2 DEF Leases!Unanswered, Leases!Error
  <2> HIDE DEF y
  <2>2. y \in LeaseCalls /\ y.at = "cleaning" /\ Beside(y, x) /\ y.runs = x.runs
    BY <2>1, AtGives DEF Unrun
  <2> QED
    BY <1>1, <1>2, <2>2 DEF Beside, Fresh, CallSound, Unrun, Leases!Running, y
<1>3. CASE x.at = "asking" /\ leaseKind # "ytdlp"
  <2>1. y = Leases!At(x, "ending") \/ y = Leases!Runs(x, "fall")
    BY <1>3 DEF Leases!Unanswered, Leases!Error
  <2>2. /\ y \in LeaseCalls /\ Beside(y, x)
        /\ \/ y.at = "ending" /\ y.runs = x.runs
           \/ y.at = "fall" /\ y.runs = x.runs + 1
    <3> HIDE DEF y
    <3> QED
      BY <2>1, AtGives, RunsGives DEF Leases!Running
  <2> HIDE DEF y
  <2> QED
    BY <1>1, <1>3, <2>2 DEF Beside, Fresh, CallSound, Unrun, Leases!Running, y
<1>4. CASE x.at = "cleaning"
  <2>1. y = Leases!At(x, IF x.aborted THEN "ending" ELSE "local") /\ leaseKind = "ytdlp"
    BY <1>4 DEF Leases!Unanswered, Leases!Cleaned, CallSound
  <2> HIDE DEF y
  <2>2. y \in LeaseCalls /\ y.at \in {"ending", "local"} /\ Beside(y, x) /\ y.runs = x.runs
    BY <2>1, AtGives DEF Unrun
  <2> QED
    BY <1>1, <1>4, <2>1, <2>2 DEF Beside, Fresh, CallSound, Unrun,
       Leases!Running, y
<1>5. CASE x.at = "leaving"
  <2>1. y = Leases!At(x, "done")
    BY <1>5 DEF Leases!Unanswered
  <2> HIDE DEF y
  <2>2. y \in LeaseCalls /\ y.at = "done" /\ Beside(y, x) /\ y.runs = x.runs
    BY <2>1, AtGives
  <2> QED
    BY <1>1, <1>5, <2>2 DEF Beside, Fresh, CallSound, Unrun, Leases!Running, y
<1>6. CASE x.at \notin {"asking", "cleaning", "leaving"}
  <2>1. y = x
    BY <1>6 DEF Leases!Unanswered
  <2>2. y.at = "cleaning" <=> FALSE
    BY <1>6, <2>1
  <2> HIDE DEF y
  <2> QED
    BY <1>6, <2>1, <2>2 DEF y
<1> QED
  BY <1>2, <1>3, <1>4, <1>5, <1>6

(* What such a call knows still fits.                                       *)
LEMMA UnansweredFits ==
  ASSUME LeaseConstants, LInv, NEW c \in Holders, NEW y,
         leaseCall'[c] = y, leaseKind' = leaseKind, leases' = leases,
         y.cleaned = leaseCall[c].cleaned, y.lease = leaseCall[c].lease,
         leaseCall[c].lost => y.lost,
         \/ y.at = leaseCall[c].at /\ leaseCall[c].at \notin {"asking", "cleaning", "leaving"}
         \/ y.at # "asking" /\ ~Fresh(y),
         Sent("try", c)' => Sent("try", c),
         Sent("zrem", c)' => Sent("zrem", c) \/ Leases!In(c, {"asking"}),
         Sent("zrem", c) => Sent("zrem", c)' \/ y.lost,
         leaseKind = "ytdlp" /\ Leases!In(c, {"asking"}) => Sent("zrem", c)'
  PROVE  CallFits(c)'
<1>1. CallFits(c)
  BY DEF LInv
<1>2. /\ Fresh(leaseCall[c])' <=> Fresh(y)
      /\ Fresh(y) => Fresh(leaseCall[c]) /\ ~Leases!In(c, {"asking"})
      /\ Leases!In(c, {"asking"})' => FALSE
  BY DEF Fresh, Leases!In
<1> HIDE DEF Sent
<1> QED
  BY <1>1, <1>2 DEF CallFits

(* A caller stops waiting for an answer.                                    *)
LEMMA UnansweredKeeps ==
  LeaseConstants /\ LInv => \A c \in Holders : Leases!CommandTimesOut(c) => LInv'
<1> SUFFICES ASSUME LeaseConstants, LInv, NEW c \in Holders, Leases!CommandTimesOut(c)
    PROVE LInv'
  OBVIOUS
<1> DEFINE y == Leases!Unanswered(leaseCall[c])
           h == PlaceOf[c]
           r == Leases!Removals({c})
<1>1. /\ Leases!In(c, {"asking", "cleaning", "leaving"})
      /\ leaseCall' = [leaseCall EXCEPT ![c] = y]
      /\ leasePipe' = [leasePipe EXCEPT ![h] = @ \o r]
      /\ UNCHANGED <<leaseKind, leases, leasesOver>>
  BY DEF Leases!CommandTimesOut
<1>2. /\ leaseCall[c] \in LeaseCalls /\ CallFits(c) /\ CallSound(leaseCall[c]) /\ LeasesTyped
      /\ leaseCall \in [Holders -> LeaseCalls] /\ leasePipe \in [Places -> Seq(Commands)]
      /\ leasesOver \subseteq leases /\ Cardinality(leases) <= MaxLeases /\ h \in Places
  BY LeasesCount DEF LInv, LeasesTyped, Leases!WithinLimit, LeaseConstants
<1>3. /\ y \in LeaseCalls /\ CallSound(y)
      /\ y.cleaned = leaseCall[c].cleaned /\ y.lease = leaseCall[c].lease
      /\ y.lost = leaseCall[c].lost /\ y.slot = leaseCall[c].slot
      /\ y.at # "asking" /\ ~Fresh(y)
  BY <1>1, <1>2, UnansweredGives DEF Leases!In
<1>4. /\ r \in Seq(Commands) /\ \A i \in 1 .. Len(r) : r[i].op = "zrem"
      /\ \A d : Has(r, d) <=>
           Leases!In(c, {"asking"}) /\ leaseKind = "ytdlp" /\ d = Leases!Command("zrem", c)
  BY <1>2, RemovalsOf
<1> HIDE DEF y, r
<1> DEFINE s == leasePipe[h]
           q == s \o r
<1>5. s \in Seq(Commands) /\ InOrder(s)
  BY <1>2 DEF LInv
<1>6. /\ q \in Seq(Commands) /\ InOrder(q)
      /\ \A d : Has(q, d) <=> Has(s, d) \/ Has(r, d)
  <2> HIDE DEF s
  <2> QED
    BY <1>4, <1>5, HasConcat, OrderConcat
<1>7. leasePipe' = [leasePipe EXCEPT ![h] = q]
  BY <1>1
<1> HIDE DEF q
<1>8. leasePipe' \in [Places -> Seq(Commands)] /\ leasePipe'[h] = q
      /\ \A p \in Places : p # h => leasePipe'[p] = leasePipe[p]
  BY <1>2, <1>6, <1>7
<1>9. \A p \in Places : \A d : Has(leasePipe'[p], d) <=> Has(leasePipe[p], d) \/ (p = h /\ Has(r, d))
  BY <1>6, <1>8
<1>10. OfItsProcess'
  <2> SUFFICES ASSUME NEW p \in Places, NEW d \in Commands, Has(leasePipe'[p], d)
      PROVE PlaceOf[d.call] = p
    BY DEF OfItsProcess
  <2>1. CASE Has(leasePipe[p], d)
    BY <2>1 DEF LInv, OfItsProcess
  <2>2. CASE p = h /\ Has(r, d)
    BY <1>4, <2>2 DEF Leases!Command
  <2> QED
    BY <1>9, <2>1, <2>2
<1>11. \A p \in Places : InOrder(leasePipe[p])'
  <2> SUFFICES ASSUME NEW p \in Places PROVE InOrder(leasePipe'[p])
    BY DEF InOrder
  <2> QED
    BY <1>6, <1>8 DEF LInv
<1>12. \A d \in Holders :
         /\ Sent("try", d)' <=> Sent("try", d)
         /\ Sent("zrem", d)' <=>
              Sent("zrem", d) \/ (d = c /\ Leases!In(c, {"asking"}) /\ leaseKind = "ytdlp")
  <2> SUFFICES ASSUME NEW d \in Holders, NEW o \in {"try", "zrem"}
      PROVE Sent(o, d)' <=> Sent(o, d) \/
              (d = c /\ Leases!In(c, {"asking"}) /\ leaseKind = "ytdlp" /\ o = "zrem")
    OBVIOUS
  <2>1. PlaceOf[d] \in Places
    BY DEF LeaseConstants
  <2>2. Sent(o, d)' <=> Has(leasePipe'[PlaceOf[d]], Leases!Command(o, d))
    BY DEF Sent, Leases!Command, Has
  <2>3. Has(r, Leases!Command(o, d)) <=>
          Leases!In(c, {"asking"}) /\ leaseKind = "ytdlp" /\ d = c /\ o = "zrem"
    BY <1>4 DEF Leases!Command
  <2> QED
    BY <1>9, <2>1, <2>2, <2>3 DEF Sent
<1>13. leaseCall'[c] = y
  BY <1>1, <1>2
<1>14. CallFits(c)'
  <2> HIDE DEF Sent
  <2> QED
    BY <1>1, <1>3, <1>12, <1>13, UnansweredFits
<1>15. leases' \subseteq leases \cup {c} /\ leasesOver' \subseteq leases'
       /\ Cardinality(leases') <= MaxLeases /\ leaseKind' = leaseKind
  BY <1>1, <1>2
<1> QED
  BY <1>1, <1>3, <1>8, <1>10, <1>11, <1>12, <1>14, <1>15, OneCall

(* A connection breaks with all that was under way.                         *)
LEMMA BreakKeeps ==
  LeaseConstants /\ LInv => \A p \in Places : Leases!ConnectionBreaks(p) => LInv'
<1> SUFFICES ASSUME LeaseConstants, LInv, NEW p \in Places, Leases!ConnectionBreaks(p)
    PROVE LInv'
  OBVIOUS
<1> DEFINE sent == {leasePipe[p][i].call : i \in 1 .. Len(leasePipe[p])}
           lost(c) == \E i \in 1 .. Len(leasePipe[p]) : leasePipe[p][i] = Leases!Command("zrem", c)
           y(c) == [Leases!Unanswered(leaseCall[c]) EXCEPT !.lost = @ \/ lost(c)]
           r == Leases!Removals(sent)
<1>1. /\ leaseCall' = [c \in Holders |-> IF c \in sent THEN y(c) ELSE leaseCall[c]]
      /\ leasePipe' = [leasePipe EXCEPT ![p] = r]
      /\ UNCHANGED <<leaseKind, leases, leasesOver>>
  BY DEF Leases!ConnectionBreaks
<1>2. /\ LeasesTyped /\ OfItsProcess
      /\ leaseCall \in [Holders -> LeaseCalls] /\ leasePipe \in [Places -> Seq(Commands)]
      /\ leasePipe[p] \in Seq(Commands)
  BY DEF LInv, LeasesTyped
<1>3. /\ sent \subseteq Holders /\ \A c \in sent : PlaceOf[c] = p
      /\ \A c, o : Has(leasePipe[p], Leases!Command(o, c)) => c \in sent
  <2>1. \A i \in 1 .. Len(leasePipe[p]) : leasePipe[p][i] \in Commands /\ Has(leasePipe[p], leasePipe[p][i])
    BY <1>2, ElementOfSeq DEF Has
  <2>2. \A i \in 1 .. Len(leasePipe[p]) :
          leasePipe[p][i].call \in Holders /\ PlaceOf[leasePipe[p][i].call] = p
    BY <1>2, <2>1 DEF OfItsProcess, Commands
  <2> QED
    BY <2>2 DEF Has, Leases!Command
<1>4. \A c : lost(c) <=> Has(leasePipe[p], Leases!Command("zrem", c))
  BY DEF Has
<1> HIDE DEF sent, lost
<1>5. /\ r \in Seq(Commands) /\ \A i \in 1 .. Len(r) : r[i].op = "zrem"
      /\ \A d : Has(r, d) <=>
           \E c \in sent : Leases!In(c, {"asking"}) /\ leaseKind = "ytdlp" /\ d = Leases!Command("zrem", c)
  BY <1>2, <1>3, RemovalsOf
<1> HIDE DEF r
<1>6. leasePipe' \in [Places -> Seq(Commands)] /\ leasePipe'[p] = r
      /\ \A q \in Places : q # p => leasePipe'[q] = leasePipe[q]
  BY <1>1, <1>2, <1>5
<1>7. ASSUME NEW c \in sent
      PROVE  LET u == Leases!Unanswered(leaseCall[c])
             IN /\ y(c) \in LeaseCalls /\ CallSound(y(c))
                /\ y(c).cleaned = leaseCall[c].cleaned /\ y(c).lease = leaseCall[c].lease
                /\ y(c).lost = (leaseCall[c].lost \/ lost(c)) /\ y(c).slot = leaseCall[c].slot
                /\ \/ y(c).at = leaseCall[c].at
                      /\ leaseCall[c].at \notin {"asking", "cleaning", "leaving"}
                   \/ y(c).at # "asking" /\ ~Fresh(y(c))
  <2> DEFINE u == Leases!Unanswered(leaseCall[c])
             w == lost(c)
  <2>1. c \in Holders /\ leaseCall[c] \in LeaseCalls /\ CallSound(leaseCall[c])
    BY <1>2, <1>3 DEF LInv
  <2>2. /\ u \in LeaseCalls /\ CallSound(u)
        /\ u.cleaned = leaseCall[c].cleaned /\ u.lease = leaseCall[c].lease
        /\ u.lost = leaseCall[c].lost /\ u.slot = leaseCall[c].slot
        /\ \/ u.at = leaseCall[c].at /\ leaseCall[c].at \notin {"asking", "cleaning", "leaving"}
           \/ u.at # "asking" /\ ~Fresh(u)
    BY <1>2, <2>1, UnansweredGives
  <2>3. y(c) = [u EXCEPT !.lost = u.lost \/ w] /\ w \in BOOLEAN
    BY <1>4 DEF Has
  <2> HIDE DEF u, w
  <2>4. /\ y(c) \in LeaseCalls /\ y(c).at = u.at /\ y(c).cleaned = u.cleaned
        /\ y(c).lease = u.lease /\ y(c).slot = u.slot /\ y(c).runs = u.runs
        /\ y(c).lost = (u.lost \/ w)
    <3> HIDE DEF y
    <3> QED
      BY <2>2, <2>3 DEF LeaseCalls
  <2> HIDE DEF y
  <2>5. CallSound(y(c)) /\ (Fresh(y(c)) <=> Fresh(u))
    BY <2>2, <2>4 DEF CallSound, Fresh
  <2> QED
    BY <2>2, <2>4, <2>5 DEF w
<1> HIDE DEF y
<1>8. leaseCall' \in [Holders -> LeaseCalls]
      /\ \A c \in Holders : leaseCall'[c] = IF c \in sent THEN y(c) ELSE leaseCall[c]
  BY <1>1, <1>2, <1>7
<1>9. LeasesTyped'
  BY <1>1, <1>2, <1>6, <1>8 DEF LeasesTyped
<1>10. OfItsProcess'
  <2> SUFFICES ASSUME NEW q \in Places, NEW d \in Commands, Has(leasePipe'[q], d)
      PROVE PlaceOf[d.call] = q
    BY DEF OfItsProcess
  <2>1. CASE q # p
    BY <1>2, <1>6, <2>1 DEF OfItsProcess
  <2>2. CASE q = p
    <3>1. PICK c \in sent : d = Leases!Command("zrem", c)
      BY <1>5, <1>6, <2>2
    <3> QED
      BY <1>3, <2>2, <3>1 DEF Leases!Command
  <2> QED
    BY <2>1, <2>2
<1>11. \A q \in Places : InOrder(leasePipe[q])'
  <2> SUFFICES ASSUME NEW q \in Places PROVE InOrder(leasePipe'[q])
    BY DEF InOrder
  <2>1. InOrder(r)
    BY <1>5 DEF InOrder, Leases!Command
  <2> QED
    BY <1>6, <2>1 DEF LInv
<1>12. \A d \in Holders \ sent : /\ Sent("try", d)' <=> Sent("try", d)
                                 /\ Sent("zrem", d)' <=> Sent("zrem", d)
  <2> SUFFICES ASSUME NEW d \in Holders \ sent, NEW o \in {"try", "zrem"}
      PROVE Sent(o, d)' <=> Sent(o, d)
    OBVIOUS
  <2>1. PlaceOf[d] \in Places
    BY DEF LeaseConstants
  <2>2. Sent(o, d)' <=> Has(leasePipe'[PlaceOf[d]], Leases!Command(o, d))
    BY DEF Sent, Leases!Command, Has
  <2>3. ~Has(r, Leases!Command(o, d)) /\ ~Has(leasePipe[p], Leases!Command(o, d))
    BY <1>3, <1>5 DEF Leases!Command
  <2> QED
    BY <1>6, <2>1, <2>2, <2>3 DEF Sent
<1>13. \A d \in Holders : d \in sent =>
         /\ ~Sent("try", d)'
         /\ Sent("zrem", d)' <=> Leases!In(d, {"asking"}) /\ leaseKind = "ytdlp"
  <2> SUFFICES ASSUME NEW d \in Holders, d \in sent, NEW o \in {"try", "zrem"}
      PROVE Sent(o, d)' <=> Leases!In(d, {"asking"}) /\ leaseKind = "ytdlp" /\ o = "zrem"
    OBVIOUS
  <2>1. PlaceOf[d] = p
    BY <1>3
  <2>2. Sent(o, d)' <=> Has(r, Leases!Command(o, d))
    BY <1>6, <2>1 DEF Sent, Leases!Command, Has
  <2> QED
    BY <1>5, <2>2 DEF Leases!Command
<1>14. ASSUME NEW c \in Holders PROVE CallFits(c)' /\ CallSound(leaseCall[c])'
  <2>1. CallFits(c) /\ CallSound(leaseCall[c])
    BY DEF LInv
  <2>2. CASE c \notin sent
    <3>1. leaseCall'[c] = leaseCall[c]
      BY <1>8, <2>2
    <3> QED
      BY <1>1, <1>12, <2>1, <2>2, <3>1, KeepsFitting, SoundStays
  <2>3. CASE c \in sent
    <3>1. leaseCall'[c] = y(c)
      BY <1>8, <2>3
    <3>2. lost(c) <=> Sent("zrem", c)
      BY <1>3, <1>4, <2>3 DEF Sent
    <3>3. CallSound(leaseCall[c])'
      BY <1>1, <1>7, <2>3, <3>1 DEF CallSound
    <3>4. CallFits(c)'
      <4> DEFINE u == y(c)
      <4>1. /\ u.cleaned = leaseCall[c].cleaned /\ u.lease = leaseCall[c].lease
            /\ u.lost = (leaseCall[c].lost \/ Sent("zrem", c))
            /\ \/ /\ u.at = leaseCall[c].at
                  /\ leaseCall[c].at \notin {"asking", "cleaning", "leaving"}
               \/ u.at # "asking" /\ ~Fresh(u)
        BY <1>7, <2>3, <3>2
      <4>2. /\ ~Sent("try", c)'
            /\ Sent("zrem", c)' <=> Leases!In(c, {"asking"}) /\ leaseKind = "ytdlp"
        BY <1>13, <2>3
      <4>3. leaseCall'[c] = u /\ leaseKind' = leaseKind /\ leases' = leases
        BY <1>1, <3>1
      <4> HIDE DEF Sent, u
      <4> QED
        BY <4>1, <4>2, <4>3, UnansweredFits
    <3> QED
      BY <3>3, <3>4
  <2> QED
    BY <2>2, <2>3
<1>15. Leases!WithinLimit'
  <2>1. PICK c \in sent : TRUE
    <3>1. leasePipe[p] # <<>>
      BY DEF Leases!ConnectionBreaks
    <3>2. Len(leasePipe[p]) \in Nat \ {0}
      BY <1>2, <3>1, LenProperties, EmptySeq
    <3>3. 1 \in 1 .. Len(leasePipe[p])
      BY <3>2
    <3> QED
      BY <3>3 DEF sent
  <2>2. \A d \in Holders : leaseCall'[d].slot = leaseCall[d].slot
    BY <1>7, <1>8
  <2> QED
    BY <1>1, <1>3, <2>1, <2>2, LocalsKept, LeasesCount DEF LInv,
       Leases!WithinLimit
<1> QED
  BY <1>9, <1>10, <1>11, <1>14, <1>15 DEF LInv

-----------------------------------------------------------------------------
(* Every step keeps the invariant.                                          *)
LEMMA LNext == LeaseConstants /\ LInv /\ [Leases!Next]_(Leases!vars) => LInv'
<1> SUFFICES ASSUME LeaseConstants, LInv, [Leases!Next]_(Leases!vars) PROVE LInv'
  OBVIOUS
<1>1. CASE UNCHANGED Leases!vars
  <2>1. UNCHANGED <<leaseKind, leaseCall, leasePipe, leases, leasesOver>>
    BY <1>1 DEF Leases!vars
  <2>2. LeasesTyped' /\ OfItsProcess' /\ Leases!WithinLimit'
    BY <2>1, LeasesCount DEF LInv, LeasesTyped, OfItsProcess,
       Leases!WithinLimit, Leases!Locals, Has
  <2>3. \A p \in Places : InOrder(leasePipe[p])'
    BY <2>1 DEF LInv, InOrder
  <2>4. \A c \in Holders : CallFits(c)' /\ CallSound(leaseCall[c])'
    BY <2>1 DEF LInv, CallFits, CallSound, Fresh, Sent, Has, Leases!In
  <2> QED
    BY <2>2, <2>3, <2>4 DEF LInv
<1>2. ASSUME NEW c \in Holders, Leases!CallStep(c) PROVE LInv'
  BY <1>2, BeginKeeps, LocalKeeps, AskKeeps, MovesAreSafe, ReleaseKeeps DEF
     Leases!CallStep
<1>3. ASSUME NEW c \in Holders,
             Leases!TimesOut(c) \/ Leases!AbortCall(c) \/ Leases!CommandTimesOut(c) \/ Leases!Renew(c) \/ Leases!Lapses(c)
      PROVE LInv'
  BY <1>3, MovesAreSafe, AbortKeeps, UnansweredKeeps, RenewKeeps, LapseKeeps
<1>4. ASSUME NEW p \in Places, Leases!Execute(p) \/ Leases!ConnectionBreaks(p) PROVE LInv'
  BY <1>4, ExecuteKeeps, BreakKeeps
<1> QED
  BY <1>1, <1>2, <1>3, <1>4 DEF Leases!Next

(* The invariant implies what the run checks.                               *)
LEMMA LSafe == LInv => Leases!TypeOK /\ Leases!LeasesSafe
<1> SUFFICES ASSUME LInv PROVE Leases!TypeOK /\ Leases!LeasesSafe
  OBVIOUS
<1>1. \A c \in Holders : CallFits(c) /\ CallSound(leaseCall[c]) /\ leaseCall[c] \in LeaseCalls
  BY DEF LInv, LeasesTyped
<1>2. Leases!TypeOK
  BY <1>1 DEF Leases!TypeOK, LInv, LeasesTyped, LeaseCalls
<1>3. Leases!RunsOnce /\ Leases!RemovedForGood /\ Leases!NothingKept
  BY <1>1 DEF Leases!RunsOnce, Leases!RemovedForGood, Leases!NothingKept,
     CallSound, CallFits, Leases!In
<1>4. Leases!NoGhosts
  <2> SUFFICES ASSUME leaseKind = "ytdlp", NEW c \in leases, Leases!In(c, {"done", "failed"}),
                      ~leaseCall[c].lost
      PROVE Sent("zrem", c)
    BY DEF Leases!NoGhosts, Sent, Has
  <2>1. c \in Holders
    BY DEF LInv, LeasesTyped
  <2>2. ~Leases!In(c, {"asking"}) /\ ~leaseCall[c].lease
    BY <1>1, <2>1 DEF Leases!In, CallSound
  <2> QED
    BY <1>1, <2>1, <2>2 DEF CallFits
<1> QED
  BY <1>2, <1>3, <1>4 DEF Leases!LeasesSafe, LInv

(* For any number of callers, processes and faults: never more leases than  *)
(* the limit nor more tasks of a process under local slots; no task runs    *)
(* twice; a lease whose removal was confirmed does not come back; who ended *)
(* holds no slot; and yt-dlp leaves no lease that nobody knows of unless    *)
(* the removal itself was lost.                                             *)
THEOREM LeasesAreSafe ==
  ASSUME LeaseConstants PROVE Leases!Spec => [](Leases!TypeOK /\ Leases!LeasesSafe)
<1>1. Leases!Init => LInv
  BY LInit
<1>2. LInv /\ [Leases!Next]_(Leases!vars) => LInv'
  BY LNext
<1>3. LInv => Leases!TypeOK /\ Leases!LeasesSafe
  BY LSafe
<1> QED
  BY <1>1, <1>2, <1>3, PTL DEF Leases!Spec

(* The property of the run: for any number of requests, ranges, callers,    *)
(* limits and faults, the flights of media ranges strand nobody and keep    *)
(* their budget, and the leased slots are never too many, nor given twice.  *)
THEOREM FlightsAreSafe ==
  ASSUME SegmentConstants, LeaseConstants
  PROVE  Segments!Spec /\ Leases!Spec => []FlightsSafe
<1>1. Segments!Spec => []Segments!FlightsSafe
  BY SegmentFlightsAreSafe
<1>2. Leases!Spec => [](Leases!TypeOK /\ Leases!LeasesSafe)
  BY LeasesAreSafe
<1>3. Segments!FlightsSafe /\ Leases!TypeOK /\ Leases!LeasesSafe => FlightsSafe
  BY DEF FlightsSafe
<1> QED
  BY <1>1, <1>2, <1>3, PTL

-----------------------------------------------------------------------------
(***************************************************************************)
(* The pages of the Today feed.                                            *)
(***************************************************************************)

(* What the theorem supposes of the constants: "nobody" is not the name of  *)
(* a process.                                                               *)
TodayConstants ==
  /\ Today!Nobody \notin Web
  /\ MaxData \in Nat /\ MaxVersion \in Nat /\ MaxClock \in Nat

Pages == [data : Int, exp : Int]
Copies == [version : Nat, pages : [Today!Versions -> Pages], mark : Int]
Refreshing == {"no", "asking", "running", "arrived"}
CallStates == {"no", "building", "storing", "cold", "publishes", "done"}
PublishStates == {"no", "building", "versioning"}
CallRecords == [pc : CallStates, home : Web \cup {Today!Nobody}, key : Nat, got : Int,
                floor : Nat]
PublishRecords == [pc : PublishStates, got : Int, key : Nat]

TodayTypes ==
  /\ todayData \in Nat /\ todayData <= MaxData
  /\ todayShared \in Copies /\ todayShared.version \in Today!Versions
  /\ todayOwn \in [Web -> Copies]
  /\ todayBorn \in [0 .. todayShared.version -> Nat]
  /\ todayRefresh \in [Web -> Refreshing]
  /\ todayLate \in [Web -> Nat]
  /\ todayHolder \in Web \cup {Today!Nobody}
  /\ todayEdit \in [Web -> {"no", "written"}]
  /\ todayCall \in [Visits -> CallRecords]
  /\ todayPublish \in [Visits -> PublishRecords]
  /\ todayNow \in Nat
  /\ todayFloor \in [Web -> Nat]

(* The past is not newer than the present, and a process whose subscriptions *)
(* or feeds changed knows a version that is not older than the change.      *)
VersionsInOrder ==
  /\ \A v \in 0 .. todayShared.version : todayBorn[v] <= todayData
  /\ \A p \in Web : /\ todayOwn[p].version <= todayShared.version
                    /\ todayFloor[p] <= todayData
                    /\ todayOwn[p].version = 0 => todayFloor[p] = 0
                    /\ todayFloor[p] <= todayBorn[todayOwn[p].version]

(* A page is as new as its version, and a version to come has none.         *)
CopyHolds(entry) ==
  /\ \A v \in (0 .. todayShared.version) \ todayRaced :
       entry.pages[v].data >= 0 => entry.pages[v].data >= todayBorn[v]
  /\ \A v \in Today!Versions : v > todayShared.version => entry.pages[v].data = -1
PagesHold == CopyHolds(todayShared) /\ \A p \in Web : CopyHolds(todayOwn[p])

(* What a call has in hand: a page that is to be stored is as new as the    *)
(* version it was asked for under.                                          *)
InHand(c) ==
  /\ todayCall[c].pc # "no" =>
       /\ todayCall[c].home \in Web /\ todayCall[c].key <= todayShared.version
       /\ todayCall[c].floor <= todayData
  /\ todayCall[c].pc = "storing" => todayCall[c].got >= todayBorn[todayCall[c].key]
  /\ todayCall[c].pc \in {"storing", "cold", "publishes"} => todayCall[c].got >= todayCall[c].floor
  /\ todayCall[c].pc = "done" => todayCall[c].key \in todayRaced \/ todayCall[c].got >= todayCall[c].floor
  /\ todayPublish[c].pc # "no" => todayCall[c].pc \in {"publishes", "done"}
  /\ todayCall[c].pc = "publishes" /\ todayPublish[c].pc = "versioning"
       => todayPublish[c].got >= todayCall[c].floor

(* A change that no version stands for yet has somebody under way who will  *)
(* publish one.                                                             *)
UnderWay == \E p \in Web : todayRefresh[p] = "running" \/ todayLate[p] > 0 \/ todayEdit[p] # "no"
ChangeIsKnown == UnderWay \/ todayBorn[todayShared.version] = todayData

TInv == /\ TodayTypes /\ VersionsInOrder /\ PagesHold
        /\ \A c \in Visits : InHand(c)
        /\ Today!OneRefresh /\ ChangeIsKnown

LEMMA NewestIsShared == TodayTypes => Today!Newest = todayShared.version
<1> SUFFICES ASSUME TodayTypes PROVE Today!Newest = todayShared.version
  OBVIOUS
<1>1. todayShared.version \in Nat /\ DOMAIN todayBorn = 0 .. todayShared.version
  BY DEF TodayTypes, Copies
<1>2. \A w \in DOMAIN todayBorn : w <= todayShared.version
  BY <1>1
<1>3. todayShared.version \in DOMAIN todayBorn
  BY <1>1
<1>4. /\ Today!Newest \in DOMAIN todayBorn
      /\ \A w \in DOMAIN todayBorn : w <= Today!Newest
  BY <1>2, <1>3 DEF Today!Newest
<1> QED
  BY <1>1, <1>2, <1>3, <1>4

LEMMA TInvIsSafe ==
  ASSUME TodayConstants PROVE TInv => Today!TodaySafe
<1> SUFFICES ASSUME TInv PROVE Today!TodaySafe
  OBVIOUS
<1>1. /\ todayData \in Nat
      /\ todayData <= MaxData
      /\ todayHolder \in Web \cup {Today!Nobody}
      /\ todayShared.version \in 0 .. MaxVersion
      /\ DOMAIN todayBorn = 0 .. todayShared.version
  BY DEF TInv, TodayTypes, Today!Versions
<1>2. Today!TypeOK
  BY <1>1 DEF Today!TypeOK, Today!Versions, TodayConstants
<1>3. Today!NoOlderPage
  <2> SUFFICES ASSUME NEW v \in (DOMAIN todayBorn) \ todayRaced,
                      NEW page \in {todayShared.pages[v]} \cup {todayOwn[p].pages[v] : p \in Web},
                      page.data >= 0
               PROVE page.data >= todayBorn[v]
    BY DEF Today!NoOlderPage
  <2>1. v \in (0 .. todayShared.version) \ todayRaced
    BY <1>1
  <2>2. PagesHold
    BY DEF TInv
  <2> QED
    BY <2>1, <2>2 DEF PagesHold, CopyHolds
<1>4. Today!OwnChangesAreSeen
  BY DEF TInv, InHand, Today!OwnChangesAreSeen
<1>5. Today!NothingLeftBehind
  <2>1. Today!Newest = todayShared.version
    BY NewestIsShared DEF TInv
  <2> QED
    BY <2>1 DEF TInv, ChangeIsKnown, UnderWay, Today!NothingLeftBehind,
       TodayTypes
<1> QED
  BY <1>2, <1>3, <1>4, <1>5 DEF Today!TodaySafe, TInv

LEMMA FirstPagesHold ==
  ASSUME TodayConstants PROVE Today!Init => TInv
<1> SUFFICES ASSUME Today!Init PROVE TInv
  OBVIOUS
<1>1. Today!NoPage \in Pages
  BY DEF Today!NoPage, Pages
<1>2. /\ Today!Bare \in Copies
      /\ Today!Bare.version = 0
      /\ \A v \in Today!Versions : Today!Bare.pages[v].data = -1
  BY <1>1 DEF Today!Bare, Copies, Today!NoPage
<1>3. 0 \in Today!Versions
  BY DEF Today!Versions, TodayConstants
<1>4. 0 .. 0 = {0}
  OBVIOUS
<1>5. /\ todayShared = Today!Bare
      /\ todayOwn = [p \in Web |-> Today!Bare]
      /\ todayData = 0
      /\ todayBorn = [v \in 0 .. 0 |-> 0]
      /\ todayFloor = [p \in Web |-> 0]
      /\ todayRaced = {}
  BY <1>4 DEF Today!Init
<1>6. TodayTypes
  <2>1. /\ todayBorn \in [0 .. todayShared.version -> Nat]
        /\ todayData \in Nat
        /\ todayData <= MaxData
    BY <1>2, <1>5 DEF TodayConstants
  <2>2. /\ todayShared \in Copies
        /\ todayShared.version \in Today!Versions
        /\ todayOwn \in [Web -> Copies]
    BY <1>2, <1>3, <1>5
  <2> QED
    BY <2>1, <2>2 DEF Today!Init, TodayTypes, Refreshing, CallStates,
       PublishStates, CallRecords, PublishRecords
<1>7. VersionsInOrder
  <2>1. todayShared.version = 0 /\ \A p \in Web : todayOwn[p].version = 0 /\ todayFloor[p] = 0
    BY <1>2, <1>5
  <2> QED
    BY <2>1, <1>5 DEF VersionsInOrder
<1>8. PagesHold
  BY <1>2, <1>5, <1>3 DEF PagesHold, CopyHolds, Today!Versions
<1>9. \A c \in Visits : InHand(c)
  BY DEF Today!Init, InHand
<1>10. Today!OneRefresh
  BY DEF Today!Init, Today!OneRefresh
<1>11. ChangeIsKnown
  BY <1>2, <1>5 DEF ChangeIsKnown
<1> QED
  BY <1>6, <1>7, <1>8, <1>9, <1>10, <1>11 DEF TInv

(* What SetPage changes, here and in Redis: the page of one version.        *)
LEMMA SetPageFacts ==
  ASSUME TodayTypes, NEW p \in Web, NEW v \in Today!Versions, NEW got \in Int,
         Today!SetPage(p, v, got)
  PROVE  /\ todayShared' \in Copies
         /\ todayShared'.version = todayShared.version
         /\ \A w \in Today!Versions :
              todayShared'.pages[w].data = IF w = v THEN got ELSE todayShared.pages[w].data
         /\ todayOwn' \in [Web -> Copies]
         /\ \A q \in Web : todayOwn'[q].version = todayOwn[q].version
         /\ \A q \in Web, w \in Today!Versions :
              todayOwn'[q].pages[w].data
                = IF q = p /\ w = v THEN got ELSE todayOwn[q].pages[w].data
<1> DEFINE page == [data |-> got, exp |-> todayNow + Today!PageTtl]
<1>1. page \in Pages /\ page.data = got
  BY DEF Pages, Today!PageTtl, TodayTypes
<1> HIDE DEF page
<1>2. /\ todayOwn' = [todayOwn EXCEPT ![p].pages[v] = page]
      /\ todayShared' = [todayShared EXCEPT !.pages[v] = page]
  BY DEF Today!SetPage, page
<1>3. ASSUME NEW entry \in Copies
      PROVE  /\ [entry EXCEPT !.pages[v] = page] \in Copies
             /\ [entry EXCEPT !.pages[v] = page].version = entry.version
             /\ \A w \in Today!Versions :
                  [entry EXCEPT !.pages[v] = page].pages[w].data
                    = IF w = v THEN got ELSE entry.pages[w].data
  BY <1>1 DEF Copies
<1>4. todayShared \in Copies /\ todayOwn \in [Web -> Copies]
  BY DEF TodayTypes
<1>5. \A q \in Web : todayOwn'[q] = IF q = p THEN [todayOwn[q] EXCEPT !.pages[v] = page] ELSE todayOwn[q]
  BY <1>2, <1>4
<1>6. todayOwn' \in [Web -> Copies]
  <2>1. [todayOwn[p] EXCEPT !.pages[v] = page] \in Copies
    BY <1>3, <1>4
  <2>2. todayOwn' = [todayOwn EXCEPT ![p] = [todayOwn[p] EXCEPT !.pages[v] = page]]
    BY <1>2, <1>4
  <2> QED
    BY <2>1, <2>2, <1>4
<1>7. \A q \in Web : todayOwn'[q].version = todayOwn[q].version
  BY <1>5, <1>3, <1>4
<1>8. \A q \in Web, w \in Today!Versions :
        todayOwn'[q].pages[w].data
          = IF q = p /\ w = v THEN got ELSE todayOwn[q].pages[w].data
  <2> TAKE q \in Web, w \in Today!Versions
  <2>1. CASE q = p
    <3>1. /\ todayOwn'[q] = [todayOwn[q] EXCEPT !.pages[v] = page]
          /\ todayOwn[q] \in Copies
      BY <2>1, <1>5, <1>4
    <3>2. todayOwn'[q].pages[w].data = IF w = v THEN got ELSE todayOwn[q].pages[w].data
      BY <3>1, <1>3
    <3> QED
      BY <3>2, <2>1
  <2>2. CASE q # p
    BY <2>2, <1>5
  <2> QED
    BY <2>1, <2>2
<1>9. /\ todayShared' \in Copies /\ todayShared'.version = todayShared.version
      /\ \A w \in Today!Versions :
           todayShared'.pages[w].data = IF w = v THEN got ELSE todayShared.pages[w].data
  BY <1>2, <1>3, <1>4
<1> QED
  BY <1>6, <1>7, <1>8, <1>9

(* The version that a process works with.                                   *)
LEMMA VersionKnown ==
  ASSUME TodayConstants, TodayTypes, VersionsInOrder, NEW p \in Web
  PROVE  /\ Today!GetTodayCacheVersion(p) \in 0 .. todayShared.version
         /\ Today!GetTodayCacheVersion(p) \in Today!Versions
         /\ todayFloor[p] <= todayBorn[Today!GetTodayCacheVersion(p)]
<1>1. todayOwn[p].version \in Nat /\ todayShared.version \in Nat
  BY DEF TodayTypes, Copies
<1>2. Today!GetTodayCacheVersion(p) \in 0 .. todayShared.version
  BY <1>1 DEF Today!GetTodayCacheVersion, VersionsInOrder
<1>3. 0 .. todayShared.version \subseteq Today!Versions
  BY <1>1 DEF TodayTypes, Today!Versions, TodayConstants
<1>4. todayBorn[Today!GetTodayCacheVersion(p)] \in Nat
  BY <1>2 DEF TodayTypes
<1>5. todayFloor[p] <= todayBorn[Today!GetTodayCacheVersion(p)]
  <2>1. CASE todayOwn[p].version # 0
    BY <2>1 DEF Today!GetTodayCacheVersion, VersionsInOrder
  <2>2. CASE todayOwn[p].version = 0
    <3>1. todayFloor[p] = 0
      BY <2>2 DEF VersionsInOrder
    <3> QED
      BY <3>1, <1>4
  <2> QED
    BY <2>1, <2>2
<1> QED
  BY <1>2, <1>3, <1>5

(* The page that a call gets is of its version, or there is none.           *)
LEMMA PageGot ==
  ASSUME TodayConstants, TodayTypes, PagesHold, NEW p \in Web,
         NEW v \in 0 .. todayShared.version
  PROVE  /\ Today!GetPage(p, v) \in Pages
         /\ v \notin todayRaced /\ Today!GetPage(p, v).data >= 0 => Today!GetPage(p, v).data >= todayBorn[v]
<1>1. v \in Today!Versions
  BY DEF TodayTypes, Today!Versions, TodayConstants
<1>2. todayOwn[p].pages[v] \in Pages /\ todayShared.pages[v] \in Pages
  BY <1>1 DEF TodayTypes, Copies
<1>3. Today!GetPage(p, v) \in {todayOwn[p].pages[v], todayShared.pages[v]}
  BY DEF Today!GetPage
<1>4. v \notin todayRaced => v \in (0 .. todayShared.version) \ todayRaced
  OBVIOUS
<1> QED
  BY <1>2, <1>3, <1>4 DEF PagesHold, CopyHolds

(* The new version stands for the data of its birth, and no page is under   *)
(* it yet.  The marks of a refresh do not matter.                           *)
LEMMA BumpKeeps ==
  ASSUME TodayConstants, TInv, NEW p \in Web, Today!Newest < MaxVersion,
         Today!BumpTodayCacheVersion(p), todayData' = todayData, todayRaced' = todayRaced,
         todayOwn' \in [Web -> Copies], todayShared' \in Copies,
         todayShared'.version = Today!Newest + 1, todayShared'.pages = todayShared.pages,
         \A q \in Web : todayOwn'[q].pages = todayOwn[q].pages,
         \A q \in Web : todayOwn'[q].version = IF q = p THEN Today!Newest + 1 ELSE todayOwn[q].version
  PROVE  /\ todayShared'.version \in Today!Versions
         /\ todayBorn' \in [0 .. todayShared'.version -> Nat]
         /\ todayFloor' \in [Web -> Nat]
         /\ \A v \in 0 .. todayShared.version : v \in 0 .. todayShared'.version /\ todayBorn'[v] = todayBorn[v]
         /\ todayBorn'[todayShared'.version] = todayData'
         /\ todayShared.version <= todayShared'.version
         /\ VersionsInOrder' /\ PagesHold'
<1>1. Today!Newest = todayShared.version
  BY NewestIsShared DEF TInv
<1>2. /\ todayShared.version \in Nat
      /\ todayShared.version < MaxVersion
      /\ MaxVersion \in Nat
      /\ DOMAIN todayBorn = 0 .. todayShared.version /\ todayData \in Nat
      /\ \A v \in 0 .. todayShared.version : todayBorn[v] \in Nat
      /\ \A q \in Web : todayOwn[q].version \in Nat
      /\ todayFloor \in [Web -> Nat]
  <2>1. TodayTypes
    BY DEF TInv
  <2>2. /\ todayShared.version \in Nat
        /\ \A q \in Web : todayOwn[q].version \in Nat
    BY <2>1 DEF TodayTypes, Copies
  <2>3. todayShared.version < MaxVersion /\ MaxVersion \in Nat
    BY <1>1 DEF TodayConstants
  <2>4. /\ todayData \in Nat
        /\ todayFloor \in [Web -> Nat]
        /\ todayBorn \in [0 .. todayShared.version -> Nat]
    BY <2>1 DEF TodayTypes
  <2> QED
    BY <2>2, <2>3, <2>4
<1>3. todayShared'.version = todayShared.version + 1
  BY <1>1
<1>4. 0 .. todayShared'.version = (0 .. todayShared.version) \cup {todayShared.version + 1}
  BY <1>2, <1>3
<1>5. todayBorn' = [w \in 0 .. todayShared'.version |->
                 IF w = todayShared.version + 1 THEN todayData ELSE todayBorn[w]]
  BY <1>1, <1>2, <1>4 DEF Today!BumpTodayCacheVersion
<1>6. todayFloor' = [todayFloor EXCEPT ![p] = todayData]
  BY DEF Today!BumpTodayCacheVersion
<1>7. todayShared'.version \in Today!Versions
  BY <1>2, <1>3 DEF Today!Versions
<1>8. todayBorn' \in [0 .. todayShared'.version -> Nat]
  BY <1>2, <1>4, <1>5
<1>9. todayFloor' \in [Web -> Nat]
  BY <1>2, <1>6
<1>10. \A v \in 0 .. todayShared.version : v \in 0 .. todayShared'.version /\ todayBorn'[v] = todayBorn[v]
  BY <1>2, <1>4, <1>5
<1>11. todayBorn'[todayShared'.version] = todayData'
  BY <1>3, <1>4, <1>5
<1>12. VersionsInOrder'
  <2>0. VersionsInOrder
    BY DEF TInv
  <2>1. \A v \in 0 .. todayShared'.version : todayBorn'[v] <= todayData'
    BY <2>0, <1>2, <1>4, <1>10, <1>11, <1>3 DEF VersionsInOrder
  <2>2. ASSUME NEW q \in Web
        PROVE  /\ todayOwn'[q].version <= todayShared'.version
               /\ todayFloor'[q] <= todayData'
               /\ todayOwn'[q].version = 0 => todayFloor'[q] = 0
               /\ todayFloor'[q] <= todayBorn'[todayOwn'[q].version]
    <3>1. CASE q = p
      <4>1. /\ todayOwn'[q].version = todayShared'.version
            /\ todayFloor'[q] = todayData
        BY <3>1, <1>1, <1>3, <1>6, <1>2
      <4> QED
        BY <4>1, <1>2, <1>3, <1>11
    <3>2. CASE q # p
      <4>1. /\ todayOwn'[q].version = todayOwn[q].version
            /\ todayFloor'[q] = todayFloor[q]
        BY <3>2, <1>6, <1>2
      <4>2. /\ todayOwn[q].version <= todayShared.version
            /\ todayFloor[q] <= todayData
            /\ todayOwn[q].version = 0 => todayFloor[q] = 0
            /\ todayFloor[q] <= todayBorn[todayOwn[q].version]
        BY <2>0 DEF VersionsInOrder
      <4>3. todayOwn[q].version \in 0 .. todayShared.version
        BY <4>2, <1>2
      <4>4. todayBorn'[todayOwn[q].version] = todayBorn[todayOwn[q].version]
        BY <4>3, <1>10
      <4> QED
        BY <4>1, <4>2, <4>4, <1>2, <1>3
    <3> QED
      BY <3>1, <3>2
  <2> QED
    BY <2>1, <2>2 DEF VersionsInOrder
<1>13. PagesHold'
  <2>1. ASSUME NEW entry, NEW pages, pages = entry.pages, CopyHolds(entry)
        PROVE  /\ \A v \in (0 .. todayShared'.version) \ todayRaced :
                    pages[v].data >= 0 => pages[v].data >= todayBorn'[v]
               /\ \A v \in Today!Versions : v > todayShared'.version => pages[v].data = -1
    <3>1. \A v \in Today!Versions : v > todayShared'.version => pages[v].data = -1
      BY <2>1, <1>2, <1>3 DEF CopyHolds, Today!Versions
    <3>2. pages[todayShared.version + 1].data = -1
      BY <2>1, <1>2, <1>3, <1>7 DEF CopyHolds
    <3>3. \A v \in (0 .. todayShared.version) \ todayRaced :
            pages[v].data >= 0 => pages[v].data >= todayBorn'[v]
      BY <2>1, <1>10 DEF CopyHolds
    <3> QED
      BY <3>1, <3>2, <3>3, <1>4
  <2>2. CopyHolds(todayShared) /\ \A q \in Web : CopyHolds(todayOwn[q])
    BY DEF TInv, PagesHold
  <2>3. CopyHolds(todayShared)'
    BY <2>1, <2>2 DEF CopyHolds
  <2>4. ASSUME NEW q \in Web PROVE CopyHolds(todayOwn[q])'
    <3>1. todayOwn'[q].pages = todayOwn[q].pages
      OBVIOUS
    <3> QED
      BY <2>1, <2>2, <3>1 DEF CopyHolds
  <2> QED
    BY <2>3, <2>4 DEF PagesHold
<1> QED
  BY <1>2, <1>3, <1>7, <1>8, <1>9, <1>10, <1>11, <1>12, <1>13

(* What a call has in hand stays as good: the library only grows, and no    *)
(* version loses the data of its birth.                                     *)
LEMMA InHandKept ==
  ASSUME TodayTypes, todayData <= todayData', todayData' \in Nat, todayRaced \subseteq todayRaced',
         todayShared.version <= todayShared'.version, todayShared'.version \in Nat,
         \A v \in 0 .. todayShared.version : todayBorn'[v] = todayBorn[v],
         NEW c \in Visits, InHand(c), todayCall'[c] = todayCall[c], todayPublish'[c] = todayPublish[c]
  PROVE  InHand(c)'
<1>1. /\ todayData \in Nat /\ todayShared.version \in Nat
      /\ todayCall[c].key \in Nat /\ todayCall[c].floor \in Nat
  BY DEF TodayTypes, Copies, CallRecords, PublishRecords
<1>2. InHand(c)
  OBVIOUS
<1>3. todayCall[c].pc # "no" => todayCall[c].key \in 0 .. todayShared.version
  BY <1>1, <1>2 DEF InHand
<1>4. todayCall[c].pc = "storing" => todayBorn'[todayCall[c].key] = todayBorn[todayCall[c].key]
  BY <1>3
<1>5. todayCall[c].pc # "no" =>
        /\ todayCall[c].home \in Web /\ todayCall[c].key <= todayShared'.version
        /\ todayCall[c].floor <= todayData'
  BY <1>1, <1>2 DEF InHand
<1>6. todayCall[c].pc = "storing" => todayCall[c].got >= todayBorn'[todayCall[c].key]
  BY <1>2, <1>4 DEF InHand
<1> QED
  BY <1>2, <1>5, <1>6 DEF InHand

(* The library grows, and nothing else changes of versions and pages.       *)
LEMMA DataGrows ==
  ASSUME TodayTypes, VersionsInOrder, PagesHold, todayData <= todayData', todayData' \in Nat,
         UNCHANGED <<todayBorn, todayShared, todayOwn, todayFloor, todayRaced>>
  PROVE  VersionsInOrder' /\ PagesHold'
<1>1. /\ \A v \in 0 .. todayShared.version : todayBorn[v] \in Nat
      /\ \A p \in Web : todayFloor[p] \in Nat
      /\ todayData \in Nat
  BY DEF TodayTypes
<1>2. VersionsInOrder'
  BY <1>1 DEF VersionsInOrder
<1>3. PagesHold'
  BY DEF PagesHold, CopyHolds
<1> QED
  BY <1>2, <1>3

(* A refresh that is asked for takes the lock.                              *)
LEMMA RefreshAsked ==
  ASSUME TodayConstants, TodayTypes, Today!OneRefresh, NEW p \in Web,
         Today!RefreshTodayFeedIfDue(p) \/ UNCHANGED <<todayRefresh, todayHolder>>
  PROVE  /\ todayRefresh' \in [Web -> Refreshing]
         /\ todayHolder' \in Web \cup {Today!Nobody}
         /\ Today!OneRefresh'
         /\ \A q \in Web : todayRefresh[q] = "running" => todayRefresh'[q] = "running"
<1>1. /\ todayRefresh \in [Web -> Refreshing]
      /\ todayHolder \in Web \cup {Today!Nobody}
  BY DEF TodayTypes
<1>2. CASE UNCHANGED <<todayRefresh, todayHolder>>
  BY <1>1, <1>2 DEF Today!OneRefresh
<1>3. CASE /\ todayRefresh[p] = "no" /\ todayHolder = Today!Nobody
           /\ todayRefresh' = [todayRefresh EXCEPT ![p] = "asking"]
           /\ todayHolder' = p
  <2>1. \A q \in Web : todayRefresh[q] = "no"
    BY <1>3 DEF Today!OneRefresh, TodayConstants
  <2> QED
    BY <1>1, <1>3, <2>1 DEF Today!OneRefresh, Refreshing
<1> QED
  BY <1>2, <1>3 DEF Today!RefreshTodayFeedIfDue

(* A step that leaves versions, pages and calls alone.                      *)
LEMMA ElsewhereKeeps ==
  ASSUME TInv, todayData <= todayData', todayData' \in Nat,
         UNCHANGED <<todayBorn, todayShared, todayOwn, todayFloor, todayRaced,
                      todayCall, todayPublish>>
  PROVE  VersionsInOrder' /\ PagesHold' /\ \A c \in Visits : InHand(c)'
<1>1. VersionsInOrder' /\ PagesHold'
  BY DataGrows DEF TInv
<1>2. ASSUME NEW c \in Visits PROVE InHand(c)'
  <2>1. TodayTypes /\ InHand(c)
    BY DEF TInv
  <2>2. todayShared.version \in Nat
    BY <2>1 DEF TodayTypes, Copies
  <2>3. /\ todayShared' = todayShared
        /\ todayBorn' = todayBorn
        /\ todayCall' = todayCall
        /\ todayPublish' = todayPublish
    OBVIOUS
  <2>4. /\ todayShared.version <= todayShared'.version
        /\ todayShared'.version \in Nat
    BY <2>2, <2>3
  <2> QED
    BY <2>1, <2>3, <2>4, InHandKept
<1> QED
  BY <1>1, <1>2

LEMMA FindsStaleFeedsKeeps ==
  ASSUME TodayConstants, TInv, Today!FindsStaleFeeds PROVE TInv'
<1> PICK p \in Web :
      /\ todayRefresh[p] = "asking"
      /\ todayRefresh' = [todayRefresh EXCEPT ![p] = "running"]
      /\ UNCHANGED <<todayData, todayBorn, todayShared, todayOwn, todayLate,
                      todayHolder, todayEdit, todayCall, todayPublish,
                     todayNow, todayFloor, todayRaced>>
  BY DEF Today!FindsStaleFeeds
<1>1. TodayTypes
  BY DEF TInv
<1>2. todayRefresh' \in [Web -> Refreshing]
  BY <1>1 DEF TodayTypes, Refreshing
<1>3. TodayTypes'
  BY <1>1, <1>2 DEF TodayTypes
<1>4. VersionsInOrder' /\ PagesHold' /\ \A c \in Visits : InHand(c)'
  BY <1>1, ElsewhereKeeps DEF TodayTypes
<1>5. Today!OneRefresh'
  BY <1>1 DEF TInv, Today!OneRefresh, TodayTypes
<1>6. ChangeIsKnown'
  <2>1. todayRefresh'[p] = "running"
    BY <1>1 DEF TodayTypes
  <2> QED
    BY <2>1 DEF ChangeIsKnown, UnderWay
<1> QED
  BY <1>3, <1>4, <1>5, <1>6 DEF TInv

LEMMA FeedArrivesKeeps ==
  ASSUME TodayConstants, TInv, Today!FeedArrives PROVE TInv'
<1> PICK p \in Web :
      /\ todayRefresh[p] = "running" \/ todayLate[p] > 0
      /\ todayData < MaxData /\ todayData' = todayData + 1
      /\ UNCHANGED <<todayBorn, todayShared, todayOwn, todayRefresh,
                      todayLate, todayHolder, todayEdit, todayCall,
                     todayPublish, todayNow, todayFloor, todayRaced>>
  BY DEF Today!FeedArrives
<1>1. TodayTypes
  BY DEF TInv
<1>2. /\ todayData \in Nat
      /\ todayData' \in Nat
      /\ todayData <= todayData'
      /\ todayData' <= MaxData
  BY <1>1 DEF TodayTypes, TodayConstants
<1>3. TodayTypes'
  BY <1>1, <1>2 DEF TodayTypes
<1>4. VersionsInOrder' /\ PagesHold' /\ \A c \in Visits : InHand(c)'
  BY <1>2, ElsewhereKeeps
<1>5. Today!OneRefresh'
  BY DEF TInv, Today!OneRefresh
<1>6. ChangeIsKnown'
  BY DEF ChangeIsKnown, UnderWay
<1> QED
  BY <1>3, <1>4, <1>5, <1>6 DEF TInv

LEMMA UserSubscribesKeeps ==
  ASSUME TodayConstants, TInv, Today!UserSubscribes PROVE TInv'
<1> PICK p \in Web :
      /\ todayEdit[p] = "no"
      /\ todayData < MaxData
      /\ todayData' = todayData + 1
      /\ todayEdit' = [todayEdit EXCEPT ![p] = "written"]
      /\ UNCHANGED <<todayBorn, todayShared, todayOwn, todayRefresh,
                      todayLate, todayHolder, todayCall, todayPublish,
                     todayNow, todayFloor, todayRaced>>
  BY DEF Today!UserSubscribes
<1>1. TodayTypes
  BY DEF TInv
<1>2. /\ todayData \in Nat
      /\ todayData' \in Nat
      /\ todayData <= todayData'
      /\ todayData' <= MaxData
  BY <1>1 DEF TodayTypes, TodayConstants
<1>3. todayEdit' \in [Web -> {"no", "written"}] /\ todayEdit'[p] = "written"
  BY <1>1 DEF TodayTypes
<1>4. TodayTypes'
  BY <1>1, <1>2, <1>3 DEF TodayTypes
<1>5. VersionsInOrder' /\ PagesHold' /\ \A c \in Visits : InHand(c)'
  BY <1>2, ElsewhereKeeps
<1>6. Today!OneRefresh'
  BY DEF TInv, Today!OneRefresh
<1>7. ChangeIsKnown'
  BY <1>3 DEF ChangeIsKnown, UnderWay
<1> QED
  BY <1>4, <1>5, <1>6, <1>7 DEF TInv

LEMMA TimePassesKeeps ==
  ASSUME TodayConstants, TInv, Today!TimePasses PROVE TInv'
<1> USE DEF Today!TimePasses
<1>1. TodayTypes
  BY DEF TInv
<1>2. todayData \in Nat /\ todayNow' \in Nat
  BY <1>1 DEF TodayTypes
<1>3. TodayTypes'
  BY <1>1, <1>2 DEF TodayTypes
<1>4. VersionsInOrder' /\ PagesHold' /\ \A c \in Visits : InHand(c)'
  BY <1>2, ElsewhereKeeps
<1>5. Today!OneRefresh'
  BY DEF TInv, Today!OneRefresh
<1>6. ChangeIsKnown'
  BY DEF TInv, ChangeIsKnown, UnderWay
<1> QED
  BY <1>3, <1>4, <1>5, <1>6 DEF TInv

(* A new version, with or without the mark of a refresh.                    *)
LEMMA NewVersionKeeps ==
  ASSUME TodayConstants, TInv, NEW p \in Web, Today!Newest < MaxVersion,
         Today!BumpTodayCacheVersion(p),
         UNCHANGED <<todayData, todayRaced, todayCall, todayPublish,
                      todayHolder, todayNow>>,
         \/ /\ todayOwn' = [todayOwn EXCEPT ![p] = Today!BumpedIn(@)]
            /\ todayShared' = Today!BumpedIn(todayShared)
         \/ /\ todayOwn' = [todayOwn EXCEPT ![p] = [Today!BumpedIn(@) EXCEPT !.mark = 0]]
            /\ todayShared' = [Today!BumpedIn(todayShared) EXCEPT !.mark = 0],
         todayRefresh' \in [Web -> Refreshing], Today!OneRefresh',
         todayLate' \in [Web -> Nat], todayEdit' \in [Web -> {"no", "written"}]
  PROVE  TInv'
<1>1. TodayTypes /\ Today!Newest = todayShared.version
  BY NewestIsShared DEF TInv
<1>2. /\ todayShared \in Copies
      /\ todayOwn \in [Web -> Copies]
      /\ Today!Newest + 1 \in Nat
  BY <1>1 DEF TodayTypes, Copies
<1>3. ASSUME NEW entry \in Copies
      PROVE  /\ Today!BumpedIn(entry) \in Copies
             /\ Today!BumpedIn(entry).version = Today!Newest + 1
             /\ Today!BumpedIn(entry).pages = entry.pages
             /\ [Today!BumpedIn(entry) EXCEPT !.mark = 0] \in Copies
             /\ [Today!BumpedIn(entry) EXCEPT !.mark = 0].version = Today!Newest + 1
             /\ [Today!BumpedIn(entry) EXCEPT !.mark = 0].pages = entry.pages
  <2>1. /\ Today!BumpedIn(entry) \in Copies
        /\ Today!BumpedIn(entry).version = Today!Newest + 1
        /\ Today!BumpedIn(entry).pages = entry.pages
    BY <1>2 DEF Today!BumpedIn, Copies
  <2>2. ASSUME NEW bumped \in Copies
        PROVE  /\ [bumped EXCEPT !.mark = 0] \in Copies
               /\ [bumped EXCEPT !.mark = 0].version = bumped.version
               /\ [bumped EXCEPT !.mark = 0].pages = bumped.pages
    BY DEF Copies
  <2> HIDE DEF Today!BumpedIn
  <2> QED
    BY <2>1, <2>2
<1>4. /\ todayShared' \in Copies
      /\ todayShared'.version = Today!Newest + 1
      /\ todayShared'.pages = todayShared.pages
      /\ todayOwn' \in [Web -> Copies]
      /\ \A q \in Web : todayOwn'[q].pages = todayOwn[q].pages
      /\ \A q \in Web : todayOwn'[q].version = IF q = p THEN Today!Newest + 1 ELSE todayOwn[q].version
  <2>1. CASE todayOwn' = [todayOwn EXCEPT ![p] = Today!BumpedIn(@)] /\ todayShared' = Today!BumpedIn(todayShared)
    <3>1. Today!BumpedIn(todayOwn[p]) \in Copies
      BY <1>2, <1>3
    <3>2. todayOwn' = [todayOwn EXCEPT ![p] = Today!BumpedIn(todayOwn[p])]
      BY <2>1
    <3>3. todayOwn' \in [Web -> Copies]
      BY <3>1, <3>2, <1>2
    <3>4. \A q \in Web : todayOwn'[q] = IF q = p THEN Today!BumpedIn(todayOwn[p]) ELSE todayOwn[q]
      BY <3>2, <1>2
    <3>5. \A q \in Web :
            /\ todayOwn'[q].pages = todayOwn[q].pages
            /\ todayOwn'[q].version = IF q = p THEN Today!Newest + 1 ELSE todayOwn[q].version
      <4> TAKE q \in Web
      <4>1. CASE q = p
        <5>1. /\ todayOwn'[q] = Today!BumpedIn(todayOwn[q])
              /\ todayOwn[q] \in Copies
          BY <4>1, <3>4, <1>2
        <5>2. /\ Today!BumpedIn(todayOwn[q]).version = Today!Newest + 1
              /\ Today!BumpedIn(todayOwn[q]).pages = todayOwn[q].pages
          BY <5>1, <1>3
        <5> QED
          BY <5>1, <5>2, <4>1
      <4>2. CASE q # p
        BY <4>2, <3>4
      <4> QED
        BY <4>1, <4>2
    <3>6. /\ todayShared' \in Copies
          /\ todayShared'.version = Today!Newest + 1
          /\ todayShared'.pages = todayShared.pages
      BY <1>2, <1>3, <2>1
    <3> QED
      BY <3>3, <3>5, <3>6
  <2>2. CASE /\ todayOwn' = [todayOwn EXCEPT ![p] = [Today!BumpedIn(@) EXCEPT !.mark = 0]]
             /\ todayShared' = [Today!BumpedIn(todayShared) EXCEPT !.mark = 0]
    <3> DEFINE Due(entry) == [Today!BumpedIn(entry) EXCEPT !.mark = 0]
    <3>0. ASSUME NEW entry \in Copies
          PROVE  Due(entry) \in Copies /\ Due(entry).version = Today!Newest + 1
                 /\ Due(entry).pages = entry.pages
      BY <1>3
    <3>1. /\ todayOwn' = [todayOwn EXCEPT ![p] = Due(todayOwn[p])]
          /\ todayShared' = Due(todayShared)
      BY <2>2
    <3> HIDE DEF Due
    <3>2. Due(todayOwn[p]) \in Copies
      BY <1>2, <3>0
    <3>3. todayOwn' \in [Web -> Copies]
      BY <3>1, <3>2, <1>2
    <3>4. \A q \in Web : todayOwn'[q] = IF q = p THEN Due(todayOwn[p]) ELSE todayOwn[q]
      BY <3>1, <1>2
    <3>5. /\ \A q \in Web : todayOwn'[q].pages = todayOwn[q].pages
          /\ \A q \in Web : todayOwn'[q].version = IF q = p THEN Today!Newest + 1 ELSE todayOwn[q].version
      BY <3>4, <1>2, <3>0
    <3>6. /\ todayShared' \in Copies
          /\ todayShared'.version = Today!Newest + 1
          /\ todayShared'.pages = todayShared.pages
      BY <1>2, <3>0, <3>1
    <3> QED
      BY <3>3, <3>5, <3>6
  <2> QED
    BY <2>1, <2>2
<1>7. /\ todayShared'.version \in Today!Versions
      /\ todayBorn' \in [0 .. todayShared'.version -> Nat]
      /\ todayFloor' \in [Web -> Nat]
      /\ \A v \in 0 .. todayShared.version : v \in 0 .. todayShared'.version /\ todayBorn'[v] = todayBorn[v]
      /\ todayBorn'[todayShared'.version] = todayData'
      /\ todayShared.version <= todayShared'.version
      /\ VersionsInOrder' /\ PagesHold'
  BY <1>4, BumpKeeps
<1>8. TodayTypes'
  BY <1>1, <1>4, <1>7 DEF TodayTypes
<1>9. ASSUME NEW c \in Visits PROVE InHand(c)'
  <2>1. InHand(c) /\ todayData \in Nat /\ todayShared'.version \in Nat
    BY <1>1, <1>4 DEF TInv, TodayTypes, Copies
  <2> QED
    BY <2>1, <1>1, <1>7, InHandKept
<1>10. ChangeIsKnown'
  BY <1>7 DEF ChangeIsKnown
<1> QED
  BY <1>7, <1>8, <1>9, <1>10 DEF TInv

LEMMA FeedsAreRefreshedKeeps ==
  ASSUME TodayConstants, TInv, Today!FeedsAreRefreshed PROVE TInv'
<1> PICK p \in Web :
      \/ /\ todayRefresh[p] = "running" /\ Today!Completes(p, FALSE)
         /\ todayRefresh' = [todayRefresh EXCEPT ![p] = "arrived"]
         /\ UNCHANGED todayLate
      \/ /\ todayLate[p] > 0 /\ Today!Completes(p, TRUE)
         /\ todayLate' = [todayLate EXCEPT ![p] = @ - 1]
         /\ UNCHANGED todayRefresh
  BY DEF Today!FeedsAreRefreshed
<1>1. /\ todayRefresh \in [Web -> Refreshing] /\ todayLate \in [Web -> Nat]
      /\ todayEdit \in [Web -> {"no", "written"}] /\ Today!OneRefresh
  BY DEF TInv, TodayTypes
<1>2. /\ Today!Newest < MaxVersion
      /\ UNCHANGED todayData
      /\ Today!BumpTodayCacheVersion(p)
      /\ todayOwn' = [todayOwn EXCEPT ![p] = Today!BumpedIn(@)]
      /\ todayShared' = Today!BumpedIn(todayShared)
      /\ UNCHANGED <<todayHolder, todayEdit, todayCall, todayPublish,
                      todayNow, todayRaced>>
  BY DEF Today!Completes, Today!PublishesVersion
<1>3. todayRefresh' \in [Web -> Refreshing] /\ todayLate' \in [Web -> Nat]
  <2>1. CASE todayRefresh' = [todayRefresh EXCEPT ![p] = "arrived"] /\ UNCHANGED todayLate
    BY <2>1, <1>1 DEF Refreshing
  <2>2. CASE todayLate[p] > 0 /\ todayLate' = [todayLate EXCEPT ![p] = @ - 1] /\ UNCHANGED todayRefresh
    <3>1. todayLate[p] - 1 \in Nat
      BY <2>2, <1>1
    <3> QED
      BY <2>2, <3>1, <1>1
  <2> QED
    BY <2>1, <2>2
<1>4. Today!OneRefresh'
  BY <1>1, <1>2 DEF Today!OneRefresh
<1> QED
  BY <1>1, <1>2, <1>3, <1>4, NewVersionKeeps

LEMMA InvalidateTodayCacheKeeps ==
  ASSUME TodayConstants, TInv, Today!InvalidateTodayCache PROVE TInv'
<1> PICK p \in Web :
      /\ todayEdit[p] = "written" /\ todayEdit' = [todayEdit EXCEPT ![p] = "no"]
      /\ Today!Newest < MaxVersion
      /\ UNCHANGED todayData
      /\ Today!BumpTodayCacheVersion(p)
      /\ todayOwn' = [todayOwn EXCEPT ![p] = [Today!BumpedIn(@) EXCEPT !.mark = 0]]
      /\ todayShared' = [Today!BumpedIn(todayShared) EXCEPT !.mark = 0]
      /\ UNCHANGED <<todayRefresh, todayLate, todayHolder, todayCall,
                      todayPublish, todayNow, todayRaced>>
  BY DEF Today!InvalidateTodayCache
<1>1. /\ todayRefresh \in [Web -> Refreshing] /\ todayLate \in [Web -> Nat]
      /\ todayEdit \in [Web -> {"no", "written"}] /\ Today!OneRefresh
  BY DEF TInv, TodayTypes
<1>2. todayEdit' \in [Web -> {"no", "written"}]
  BY <1>1
<1>3. Today!OneRefresh'
  BY <1>1 DEF Today!OneRefresh
<1> QED
  BY <1>1, <1>2, <1>3, NewVersionKeeps

(* Copies of which neither the version nor a page changed.                  *)
LEMMA SameCopies ==
  ASSUME TInv, UNCHANGED <<todayData, todayBorn, todayFloor, todayRaced>>,
         todayShared'.version = todayShared.version, todayShared'.pages = todayShared.pages,
         \A q \in Web : todayOwn'[q].version = todayOwn[q].version
                        /\ todayOwn'[q].pages = todayOwn[q].pages
  PROVE  VersionsInOrder' /\ PagesHold'
<1>1. VersionsInOrder'
  BY DEF TInv, VersionsInOrder
<1>2. PagesHold'
  BY DEF TInv, PagesHold, CopyHolds
<1> QED
  BY <1>1, <1>2

LEMMA RefreshReturnsKeeps ==
  ASSUME TodayConstants, TInv, Today!RefreshReturns PROVE TInv'
<1> PICK p \in Web :
      /\ todayRefresh[p] # "no"
      /\ todayRefresh' = [todayRefresh EXCEPT ![p] = "no"]
      /\ todayLate' = [todayLate EXCEPT ![p] = IF todayRefresh[p] = "running" THEN @ + 1 ELSE @]
      /\ todayHolder' = Today!Nobody
      /\ todayOwn' = [todayOwn EXCEPT ![p] = Today!Mark(@)]
      /\ todayShared' = Today!Mark(todayShared)
      /\ todayCall' = [c \in Visits |->
           IF todayCall[c].home # p \/ todayCall[c].pc # "cold" THEN todayCall[c]
           ELSE [todayCall[c] EXCEPT !.pc = IF todayRefresh[p] # "asking" THEN "publishes" ELSE "done"]]
      /\ todayPublish' = [c \in Visits |->
           IF todayCall'[c].pc = "publishes" /\ todayCall[c].pc = "cold"
           THEN [todayPublish[c] EXCEPT !.pc = "building"] ELSE todayPublish[c]]
      /\ UNCHANGED <<todayData, todayBorn, todayEdit, todayNow, todayFloor,
                      todayRaced>>
  BY DEF Today!RefreshReturns
<1>1. TodayTypes
  BY DEF TInv
<1>2. ASSUME NEW entry \in Copies
      PROVE  /\ Today!Mark(entry) \in Copies
             /\ Today!Mark(entry).version = entry.version
             /\ Today!Mark(entry).pages = entry.pages
  <2>1. todayNow + Today!PageTtl \in Int
    BY <1>1 DEF TodayTypes, Today!PageTtl
  <2> QED
    BY <2>1 DEF Today!Mark, Copies
<1>3. todayShared \in Copies /\ todayOwn \in [Web -> Copies]
  BY <1>1 DEF TodayTypes
<1>4. /\ todayShared' \in Copies
      /\ todayShared'.version = todayShared.version
      /\ todayShared'.pages = todayShared.pages
  BY <1>2, <1>3
<1>5. todayOwn' \in [Web -> Copies]
  <2>1. /\ Today!Mark(todayOwn[p]) \in Copies
        /\ todayOwn' = [todayOwn EXCEPT ![p] = Today!Mark(todayOwn[p])]
    BY <1>2, <1>3
  <2> QED
    BY <2>1, <1>3
<1>6. ASSUME NEW q \in Web
      PROVE  /\ todayOwn'[q].version = todayOwn[q].version
             /\ todayOwn'[q].pages = todayOwn[q].pages
  <2>1. CASE q = p
    <3>1. todayOwn'[q] = Today!Mark(todayOwn[q]) /\ todayOwn[q] \in Copies
      BY <2>1, <1>3
    <3> QED
      BY <3>1, <1>2
  <2>2. CASE q # p
    BY <2>2, <1>3
  <2> QED
    BY <2>1, <2>2
<1>7. VersionsInOrder' /\ PagesHold'
  BY <1>4, <1>6, SameCopies
<1>8. /\ todayRefresh' \in [Web -> Refreshing] /\ todayLate' \in [Web -> Nat]
      /\ \A q \in Web : todayRefresh'[q] = IF q = p THEN "no" ELSE todayRefresh[q]
      /\ \A q \in Web : todayLate'[q] >= todayLate[q]
      /\ todayRefresh[p] = "running" => todayLate'[p] > 0
  BY <1>1 DEF TodayTypes, Refreshing
<1>9. ASSUME NEW c \in Visits, todayCall[c].home = p, todayCall[c].pc = "cold"
      PROVE  /\ todayCall'[c] = [todayCall[c] EXCEPT !.pc =
                              IF todayRefresh[p] # "asking" THEN "publishes" ELSE "done"]
             /\ todayPublish'[c] = IF todayRefresh[p] # "asking"
                              THEN [todayPublish[c] EXCEPT !.pc = "building"] ELSE todayPublish[c]
  BY <1>9, <1>1 DEF TodayTypes
<1>10. ASSUME NEW c \in Visits, ~(todayCall[c].home = p /\ todayCall[c].pc = "cold")
       PROVE  todayCall'[c] = todayCall[c] /\ todayPublish'[c] = todayPublish[c]
  BY <1>10
<1>11. todayCall' \in [Visits -> CallRecords]
  <2>1. ASSUME NEW c \in Visits
        PROVE  todayCall'[c] \in CallRecords
    <3>1. todayCall[c] \in CallRecords
      BY <1>1 DEF TodayTypes
    <3>2. CASE todayCall[c].home = p /\ todayCall[c].pc = "cold"
      BY <3>1, <3>2, <1>9 DEF CallStates, CallRecords
    <3>3. CASE ~(todayCall[c].home = p /\ todayCall[c].pc = "cold")
      BY <3>1, <3>3, <1>10
    <3> QED
      BY <3>2, <3>3
  <2> QED
    BY <2>1
<1>12. todayPublish' \in [Visits -> PublishRecords]
  <2>1. ASSUME NEW c \in Visits
        PROVE  todayPublish'[c] \in PublishRecords
    BY <1>1, <1>9, <1>10 DEF TodayTypes, PublishStates, CallRecords,
       PublishRecords
  <2> QED
    BY <2>1
<1>13. TodayTypes'
  BY <1>1, <1>4, <1>5, <1>8, <1>11, <1>12 DEF TodayTypes
<1>14. ASSUME NEW c \in Visits PROVE InHand(c)'
  <2>1. InHand(c) /\ todayData \in Nat /\ todayShared.version \in Nat
    BY <1>1 DEF TInv, TodayTypes, Copies
  <2>2. CASE todayCall[c].home = p /\ todayCall[c].pc = "cold"
    <3>1. /\ todayCall[c].home \in Web
          /\ todayCall[c].key <= todayShared.version
          /\ todayCall[c].floor <= todayData
          /\ todayCall[c].got >= todayCall[c].floor
          /\ todayPublish[c].pc = "no"
      BY <2>1, <2>2 DEF InHand
    <3>2. /\ todayCall'[c].home = todayCall[c].home
          /\ todayCall'[c].key = todayCall[c].key
          /\ todayCall'[c].floor = todayCall[c].floor
          /\ todayCall'[c].got = todayCall[c].got
          /\ todayCall'[c].pc = IF todayRefresh[p] # "asking" THEN "publishes" ELSE "done"
          /\ todayPublish'[c].pc = IF todayRefresh[p] # "asking" THEN "building" ELSE "no"
      BY <2>2, <1>9, <3>1, <1>1 DEF TodayTypes
    <3> QED
      BY <3>1, <3>2, <1>4 DEF InHand
  <2>3. CASE ~(todayCall[c].home = p /\ todayCall[c].pc = "cold")
    <3>1. todayCall'[c] = todayCall[c] /\ todayPublish'[c] = todayPublish[c]
      BY <2>3, <1>10
    <3>2. /\ todayShared.version <= todayShared'.version
          /\ todayShared'.version \in Nat
      BY <2>1, <1>4
    <3> QED
      BY <2>1, <3>1, <3>2, <1>1, InHandKept
  <2> QED
    BY <2>2, <2>3
<1>15. Today!OneRefresh'
  <2>1. todayHolder = p
    BY DEF TInv, Today!OneRefresh
  <2>2. \A q \in Web : q # p => todayRefresh[q] = "no"
    BY <2>1 DEF TInv, Today!OneRefresh
  <2> QED
    BY <2>2, <1>8 DEF Today!OneRefresh
<1>16. ChangeIsKnown'
  <2>1. CASE UnderWay
    <3>1. PICK q \in Web : todayRefresh[q] = "running" \/ todayLate[q] > 0 \/ todayEdit[q] # "no"
      BY <2>1 DEF UnderWay
    <3>2. todayLate \in [Web -> Nat] /\ todayLate'[q] \in Nat
      BY <1>1, <1>8 DEF TodayTypes
    <3>3. todayRefresh'[q] = "running" \/ todayLate'[q] > 0 \/ todayEdit'[q] # "no"
      BY <3>1, <3>2, <1>8
    <3> QED
      BY <3>3 DEF ChangeIsKnown, UnderWay
  <2>2. CASE todayBorn[todayShared.version] = todayData
    BY <2>2, <1>4 DEF ChangeIsKnown
  <2> QED
    BY <2>1, <2>2 DEF TInv, ChangeIsKnown
<1> QED
  BY <1>7, <1>13, <1>14, <1>15, <1>16 DEF TInv

(* Besides the call that acts, every call keeps what it has in hand.        *)
LEMMA OtherCallsKeep ==
  ASSUME TInv, NEW c \in Visits,
         UNCHANGED <<todayData, todayBorn>>, todayShared'.version =
                      todayShared.version,
         todayRaced \subseteq todayRaced',
         \A d \in Visits : d # c => todayCall'[d] = todayCall[d] /\ todayPublish'[d] = todayPublish[d],
         InHand(c)'
  PROVE  \A d \in Visits : InHand(d)'
<1> SUFFICES ASSUME NEW d \in Visits, d # c PROVE InHand(d)'
  OBVIOUS
<1>1. TodayTypes /\ InHand(d)
  BY DEF TInv
<1>2. todayData \in Nat /\ todayShared.version \in Nat
  BY <1>1 DEF TodayTypes, Copies
<1>3. /\ todayData <= todayData'
      /\ todayShared.version <= todayShared'.version
      /\ todayShared'.version \in Nat
      /\ todayData' \in Nat
  BY <1>2
<1> QED
  BY <1>1, <1>3, InHandKept

(* A page that is stored is as new as its version, or the version is among  *)
(* those that got an older page.                                            *)
LEMMA StoredPageHolds ==
  ASSUME TodayConstants, TInv, NEW p \in Web, NEW v \in 0 .. todayShared.version,
         NEW got \in Int, Today!SetPage(p, v, got), UNCHANGED <<todayData, todayBorn, todayFloor>>,
         todayRaced \subseteq todayRaced', v \in todayRaced' \/ got >= todayBorn[v]
  PROVE  /\ todayShared' \in Copies
         /\ todayShared'.version = todayShared.version
         /\ todayOwn' \in [Web -> Copies]
         /\ VersionsInOrder' /\ PagesHold'
<1>1. TodayTypes
  BY DEF TInv
<1>2. /\ todayShared.version \in Nat
      /\ 0 .. todayShared.version \subseteq Today!Versions
  BY <1>1 DEF TodayTypes, Copies, Today!Versions, TodayConstants
<1>3. /\ todayShared' \in Copies /\ todayShared'.version = todayShared.version
      /\ \A w \in Today!Versions :
           todayShared'.pages[w].data = IF w = v THEN got ELSE todayShared.pages[w].data
      /\ todayOwn' \in [Web -> Copies]
      /\ \A q \in Web : todayOwn'[q].version = todayOwn[q].version
      /\ \A q \in Web, w \in Today!Versions :
           todayOwn'[q].pages[w].data
             = IF q = p /\ w = v THEN got ELSE todayOwn[q].pages[w].data
  BY <1>1, <1>2, SetPageFacts
<1>4. VersionsInOrder'
  BY <1>3 DEF TInv, VersionsInOrder
<1>5. ASSUME NEW entry, NEW after, CopyHolds(entry),
             \A w \in Today!Versions :
               \/ after[w].data = entry.pages[w].data
               \/ w = v /\ after[w].data = got
      PROVE  /\ \A w \in (0 .. todayShared'.version) \ todayRaced' :
                  after[w].data >= 0 => after[w].data >= todayBorn'[w]
             /\ \A w \in Today!Versions : w > todayShared'.version => after[w].data = -1
  BY <1>2, <1>3, <1>5 DEF CopyHolds
<1>6. CopyHolds(todayShared) /\ \A q \in Web : CopyHolds(todayOwn[q])
  BY DEF TInv, PagesHold
<1>7. CopyHolds(todayShared)'
  <2> DEFINE after == todayShared'.pages
  <2>1. \A w \in Today!Versions :
          \/ after[w].data = todayShared.pages[w].data
          \/ w = v /\ after[w].data = got
    BY <1>3
  <2> HIDE DEF after
  <2>2. /\ \A w \in (0 .. todayShared'.version) \ todayRaced' :
             after[w].data >= 0 => after[w].data >= todayBorn'[w]
        /\ \A w \in Today!Versions : w > todayShared'.version => after[w].data = -1
    BY <2>1, <1>5, <1>6
  <2> QED
    BY <2>2 DEF CopyHolds, after
<1>8. ASSUME NEW q \in Web PROVE CopyHolds(todayOwn[q])'
  <2> DEFINE after == todayOwn'[q].pages
  <2>1. \A w \in Today!Versions :
          \/ after[w].data = todayOwn[q].pages[w].data
          \/ w = v /\ after[w].data = got
    BY <1>3
  <2> HIDE DEF after
  <2>2. /\ \A w \in (0 .. todayShared'.version) \ todayRaced' :
             after[w].data >= 0 => after[w].data >= todayBorn'[w]
        /\ \A w \in Today!Versions : w > todayShared'.version => after[w].data = -1
    BY <2>1, <1>5, <1>6
  <2> QED
    BY <2>2 DEF CopyHolds, after
<1> QED
  BY <1>3, <1>4, <1>7, <1>8 DEF PagesHold

LEMMA StoresPageKeeps ==
  ASSUME TodayConstants, TInv, Today!StoresPage PROVE TInv'
<1> PICK c \in Visits :
      /\ todayCall[c].pc = "storing"
      /\ Today!SetPage(todayCall[c].home, Today!TodayPageCacheKey(c), todayCall[c].got)
      /\ todayCall' = [todayCall EXCEPT ![c].pc = "done"]
      /\ Today!RefreshTodayFeedIfDue(todayCall[c].home)
      /\ UNCHANGED <<todayData, todayBorn, todayLate, todayEdit, todayPublish,
                      todayNow, todayFloor, todayRaced>>
  BY DEF Today!StoresPage
<1> DEFINE p == todayCall[c].home
           v == todayCall[c].key
           got == todayCall[c].got
<1>1. TodayTypes /\ InHand(c) /\ Today!OneRefresh
  BY DEF TInv
<1>2. /\ p \in Web /\ v \in Nat /\ v <= todayShared.version /\ got \in Int
      /\ todayCall[c].floor \in Nat /\ todayCall[c].floor <= todayData
      /\ got >= todayBorn[v]
      /\ got >= todayCall[c].floor
      /\ todayPublish[c].pc = "no"
  BY <1>1 DEF InHand, TodayTypes, CallRecords, PublishRecords
<1>3. v \in 0 .. todayShared.version
  BY <1>1, <1>2 DEF TodayTypes, Copies
<1>4. Today!SetPage(p, v, got)
  BY DEF Today!TodayPageCacheKey
<1> HIDE DEF p, v, got
<1>5. /\ todayShared' \in Copies /\ todayShared'.version = todayShared.version
      /\ todayOwn' \in [Web -> Copies]
      /\ VersionsInOrder' /\ PagesHold'
  BY <1>2, <1>3, <1>4, StoredPageHolds
<1>6. /\ todayRefresh' \in [Web -> Refreshing]
      /\ todayHolder' \in Web \cup {Today!Nobody}
      /\ Today!OneRefresh'
      /\ \A q \in Web : todayRefresh[q] = "running" => todayRefresh'[q] = "running"
  BY <1>1, <1>2, RefreshAsked DEF p
<1>7. todayCall' \in [Visits -> CallRecords]
  BY <1>1 DEF TodayTypes, CallStates, CallRecords, PublishRecords
<1>8. TodayTypes'
  BY <1>1, <1>5, <1>6, <1>7 DEF TodayTypes
<1>9. /\ todayCall'[c] = [todayCall[c] EXCEPT !.pc = "done"]
      /\ \A d \in Visits : d # c => todayCall'[d] = todayCall[d]
  BY <1>1 DEF TodayTypes
<1>10. InHand(c)'
  <2>1. /\ todayCall'[c].pc = "done"
        /\ todayCall'[c].home = p
        /\ todayCall'[c].key = v
        /\ todayCall'[c].floor = todayCall[c].floor /\ todayCall'[c].got = got
    BY <1>1, <1>9 DEF TodayTypes, p, v, got
  <2> QED
    BY <2>1, <1>2, <1>5 DEF InHand
<1>11. \A d \in Visits : InHand(d)'
  BY <1>5, <1>9, <1>10, OtherCallsKeep
<1>12. ChangeIsKnown'
  BY <1>5, <1>6 DEF TInv, ChangeIsKnown, UnderWay
<1> QED
  BY <1>5, <1>6, <1>8, <1>11, <1>12 DEF TInv

LEMMA BuildTodayPageFromDbKeeps ==
  ASSUME TodayConstants, TInv, Today!BuildTodayPageFromDb PROVE TInv'
<1>0. PICK c \in Visits :
      /\ todayCall[c].pc = "building"
      /\ todayCall' = [todayCall EXCEPT ![c].got = todayData,
                              ![c].pc = IF todayData > 0 THEN "storing" ELSE "cold"]
      /\ IF todayData > 0 THEN UNCHANGED <<todayRefresh, todayHolder>>
         ELSE Today!RefreshTodayFeedIfDue(todayCall[c].home)
      /\ UNCHANGED <<todayData, todayBorn, todayShared, todayOwn, todayLate,
                      todayEdit, todayPublish, todayNow, todayFloor,
                     todayRaced>>
  BY DEF Today!BuildTodayPageFromDb
<1>1. TodayTypes /\ InHand(c) /\ Today!OneRefresh
  BY DEF TInv
<1>2. /\ todayCall[c].home \in Web
      /\ todayCall[c].key \in Nat
      /\ todayCall[c].key <= todayShared.version
      /\ todayData \in Nat
      /\ todayCall[c].floor \in Nat
      /\ todayCall[c].floor <= todayData
      /\ todayPublish[c].pc = "no"
  BY <1>0, <1>1 DEF InHand, TodayTypes, CallRecords, PublishRecords
<1>3. todayBorn[todayCall[c].key] <= todayData
  <2>1. todayCall[c].key \in 0 .. todayShared.version
    BY <1>1, <1>2 DEF TodayTypes, Copies
  <2> QED
    BY <2>1 DEF TInv, VersionsInOrder
<1>4. VersionsInOrder' /\ PagesHold'
  BY <1>0, <1>1, <1>2, DataGrows DEF TInv
<1>5. /\ todayRefresh' \in [Web -> Refreshing]
      /\ todayHolder' \in Web \cup {Today!Nobody}
      /\ Today!OneRefresh'
      /\ \A q \in Web : todayRefresh[q] = "running" => todayRefresh'[q] = "running"
  <2>1. Today!RefreshTodayFeedIfDue(todayCall[c].home) \/ UNCHANGED <<todayRefresh, todayHolder>>
    BY <1>0
  <2> QED
    BY <2>1, <1>1, <1>2, RefreshAsked
<1>6. /\ todayCall'[c] = [todayCall[c] EXCEPT !.got = todayData,
                                    !.pc = IF todayData > 0 THEN "storing" ELSE "cold"]
      /\ \A d \in Visits : d # c => todayCall'[d] = todayCall[d]
  BY <1>0, <1>1 DEF TodayTypes
<1>7. todayCall' \in [Visits -> CallRecords]
  <2>1. todayCall[c] \in CallRecords /\ (IF todayData > 0 THEN "storing" ELSE "cold") \in CallStates
    BY <1>1 DEF TodayTypes, CallStates
  <2>2. todayCall'[c] \in CallRecords
    <3> DEFINE mid == [todayCall[c] EXCEPT !.got = todayData]
               next == IF todayData > 0 THEN "storing" ELSE "cold"
    <3>1. mid \in CallRecords
      BY <2>1, <1>2 DEF CallRecords
    <3>2. todayCall'[c] = [mid EXCEPT !.pc = next] /\ next \in CallStates
      BY <1>6, <2>1
    <3> HIDE DEF mid, next
    <3> QED
      BY <3>1, <3>2 DEF CallRecords
  <2> QED
    BY <1>0, <2>2, <1>1, <1>6 DEF TodayTypes
<1>8. TodayTypes'
  BY <1>0, <1>1, <1>5, <1>7 DEF TodayTypes
<1>9. InHand(c)'
  <2>1. /\ todayCall'[c].pc = IF todayData > 0 THEN "storing" ELSE "cold"
        /\ todayCall'[c].home = todayCall[c].home
        /\ todayCall'[c].key = todayCall[c].key
        /\ todayCall'[c].floor = todayCall[c].floor
        /\ todayCall'[c].got = todayData
    BY <1>1, <1>6 DEF TodayTypes
  <2> QED
    BY <1>0, <2>1, <1>2, <1>3 DEF InHand
<1>10. \A d \in Visits : InHand(d)'
  BY <1>0, <1>6, <1>9, OtherCallsKeep
<1>11. ChangeIsKnown'
  BY <1>0, <1>5 DEF TInv, ChangeIsKnown, UnderWay
<1> QED
  BY <1>4, <1>5, <1>8, <1>10, <1>11 DEF TInv

LEMMA ColdStartEndsKeeps ==
  ASSUME TodayConstants, TInv, Today!ColdStartEnds PROVE TInv'
<1> PICK c \in Visits :
      /\ todayCall[c].pc = "cold" \/ (todayCall[c].pc = "publishes" /\ todayPublish[c].pc # "no")
      /\ todayCall' = [todayCall EXCEPT ![c].pc = "done"]
      /\ UNCHANGED <<todayData, todayBorn, todayShared, todayOwn,
                      todayRefresh, todayLate, todayHolder, todayEdit,
                     todayPublish, todayNow, todayFloor, todayRaced>>
  BY DEF Today!ColdStartEnds
<1>1. TodayTypes /\ InHand(c)
  BY DEF TInv
<1>2. /\ todayCall'[c] = [todayCall[c] EXCEPT !.pc = "done"]
      /\ \A d \in Visits : d # c => todayCall'[d] = todayCall[d]
  BY <1>1 DEF TodayTypes
<1>3. todayCall' \in [Visits -> CallRecords]
  BY <1>1 DEF TodayTypes, CallStates, CallRecords, PublishRecords
<1>4. TodayTypes'
  BY <1>1, <1>3 DEF TodayTypes
<1>5. VersionsInOrder' /\ PagesHold'
  BY <1>1, DataGrows DEF TInv, TodayTypes
<1>6. InHand(c)'
  <2>1. /\ todayCall'[c].pc = "done" /\ todayCall'[c].home = todayCall[c].home
        /\ todayCall'[c].key = todayCall[c].key
        /\ todayCall'[c].floor = todayCall[c].floor
        /\ todayCall'[c].got = todayCall[c].got
    BY <1>1, <1>2 DEF TodayTypes
  <2> QED
    BY <2>1, <1>1 DEF InHand
<1>7. \A d \in Visits : InHand(d)'
  BY <1>2, <1>6, OtherCallsKeep
<1>8. Today!OneRefresh' /\ ChangeIsKnown'
  BY DEF TInv, Today!OneRefresh, ChangeIsKnown, UnderWay
<1> QED
  BY <1>4, <1>5, <1>7, <1>8 DEF TInv

LEMMA PublishBuildsKeeps ==
  ASSUME TodayConstants, TInv, Today!PublishBuilds PROVE TInv'
<1>0. PICK c \in Visits :
      /\ todayPublish[c].pc = "building"
      /\ todayPublish' = [todayPublish EXCEPT ![c].pc = "versioning", ![c].got = todayData]
      /\ UNCHANGED <<todayData, todayBorn, todayShared, todayOwn,
                      todayRefresh, todayLate, todayHolder, todayEdit,
                      todayCall,
                     todayNow, todayFloor, todayRaced>>
  BY DEF Today!PublishBuilds
<1>1. TodayTypes /\ InHand(c) /\ todayData \in Nat
  BY DEF TInv, TodayTypes
<1>2. /\ todayPublish'[c] = [todayPublish[c] EXCEPT !.pc = "versioning", !.got = todayData]
      /\ \A d \in Visits : d # c => todayPublish'[d] = todayPublish[d]
  BY <1>0, <1>1 DEF TodayTypes
<1>3. todayPublish' \in [Visits -> PublishRecords]
  <2>1. todayPublish[c] \in PublishRecords /\ "versioning" \in PublishStates
    BY <1>1 DEF TodayTypes, PublishStates
  <2>2. todayPublish'[c] \in PublishRecords
    <3> DEFINE mid == [todayPublish[c] EXCEPT !.pc = "versioning"]
    <3>1. mid \in PublishRecords
      BY <2>1 DEF PublishRecords
    <3>2. todayPublish'[c] = [mid EXCEPT !.got = todayData]
      BY <1>2
    <3> HIDE DEF mid
    <3> QED
      BY <3>1, <3>2, <1>1 DEF PublishRecords
  <2> QED
    BY <1>0, <2>2, <1>1, <1>2 DEF TodayTypes
<1>4. TodayTypes'
  BY <1>0, <1>1, <1>3 DEF TodayTypes
<1>5. VersionsInOrder' /\ PagesHold'
  BY <1>0, <1>1, DataGrows DEF TInv
<1>6. InHand(c)'
  <2>1. todayPublish'[c].pc = "versioning" /\ todayPublish'[c].got = todayData
    BY <1>1, <1>2 DEF TodayTypes
  <2>2. /\ todayCall[c].pc \in {"publishes", "done"}
        /\ todayCall[c].floor <= todayData
    BY <1>0, <1>1 DEF InHand
  <2>3. todayCall'[c] = todayCall[c] /\ todayCall[c].floor \in Nat
    BY <1>0, <1>1 DEF TodayTypes, CallRecords, PublishRecords
  <2> QED
    BY <1>0, <2>1, <2>2, <2>3, <1>1 DEF InHand
<1>7. \A d \in Visits : InHand(d)'
  BY <1>0, <1>2, <1>6, OtherCallsKeep
<1>8. Today!OneRefresh' /\ ChangeIsKnown'
  BY <1>0 DEF TInv, Today!OneRefresh, ChangeIsKnown, UnderWay
<1> QED
  BY <1>4, <1>5, <1>7, <1>8 DEF TInv

LEMMA PublishTodayPageKeeps ==
  ASSUME TodayConstants, TInv, Today!PublishTodayPage PROVE TInv'
<1>0. PICK c \in Visits :
      /\ todayPublish[c].pc = "versioning"
      /\ todayPublish' = [todayPublish EXCEPT ![c].pc = "no"]
      /\ Today!SetPage(todayCall[c].home, Today!GetTodayCacheVersion(todayCall[c].home), todayPublish[c].got)
      /\ todayRaced' = IF todayPublish[c].got < todayBorn[Today!GetTodayCacheVersion(todayCall[c].home)]
                  THEN todayRaced \cup {Today!GetTodayCacheVersion(todayCall[c].home)} ELSE todayRaced
      /\ todayCall' = IF todayCall[c].pc = "publishes"
                 THEN [todayCall EXCEPT ![c].pc = "done", ![c].got = todayPublish[c].got]
                 ELSE todayCall
      /\ UNCHANGED <<todayData, todayBorn, todayRefresh, todayLate,
                      todayHolder, todayEdit, todayNow, todayFloor>>
  BY DEF Today!PublishTodayPage
<1> DEFINE p == todayCall[c].home
           v == Today!GetTodayCacheVersion(p)
           got == todayPublish[c].got
<1>1. TodayTypes /\ InHand(c) /\ VersionsInOrder
  BY DEF TInv
<1>2. /\ p \in Web /\ got \in Int /\ todayCall[c].pc \in {"publishes", "done"}
      /\ todayCall[c].floor \in Nat /\ todayCall[c].floor <= todayData
      /\ todayCall[c].key <= todayShared.version
      /\ todayCall[c].pc = "publishes" => got >= todayCall[c].floor
      /\ todayCall[c].pc = "done" => todayCall[c].key \in todayRaced \/ todayCall[c].got >= todayCall[c].floor
  BY <1>0, <1>1 DEF InHand, TodayTypes, CallRecords, PublishRecords
<1>3. v \in 0 .. todayShared.version
  BY <1>1, <1>2, VersionKnown
<1>4. /\ Today!SetPage(p, v, got)
      /\ todayRaced' = IF got < todayBorn[v] THEN todayRaced \cup {v} ELSE todayRaced
  BY <1>0
<1>5. todayBorn[v] \in Nat
  BY <1>1, <1>3 DEF TodayTypes
<1> HIDE DEF p, v, got
<1>6. todayRaced \subseteq todayRaced' /\ (v \in todayRaced' \/ got >= todayBorn[v])
  BY <1>2, <1>4, <1>5
<1>7. /\ todayShared' \in Copies /\ todayShared'.version = todayShared.version
      /\ todayOwn' \in [Web -> Copies]
      /\ VersionsInOrder' /\ PagesHold'
  BY <1>0, <1>2, <1>3, <1>4, <1>6, StoredPageHolds
<1>8. /\ todayPublish'[c] = [todayPublish[c] EXCEPT !.pc = "no"]
      /\ \A d \in Visits : d # c => todayPublish'[d] = todayPublish[d]
      /\ todayPublish' \in [Visits -> PublishRecords]
  BY <1>0, <1>1 DEF TodayTypes, PublishStates, CallRecords, PublishRecords
<1>9. /\ todayCall'[c] = IF todayCall[c].pc = "publishes"
                    THEN [todayCall[c] EXCEPT !.pc = "done", !.got = got] ELSE todayCall[c]
      /\ \A d \in Visits : d # c => todayCall'[d] = todayCall[d]
  BY <1>0, <1>1 DEF TodayTypes, got
<1>10. todayCall' \in [Visits -> CallRecords]
  <2>1. todayCall[c] \in CallRecords /\ "done" \in CallStates
    BY <1>1 DEF TodayTypes, CallStates
  <2>2. CASE todayCall[c].pc = "publishes"
    <3>1. /\ todayCall'[c] = [todayCall[c] EXCEPT !.pc = "done", !.got = got]
          /\ got \in Int
      BY <2>2, <1>2, <1>9
    <3>2. todayCall'[c] \in CallRecords
      <4> DEFINE mid == [todayCall[c] EXCEPT !.pc = "done"]
      <4>1. mid \in CallRecords
        BY <2>1 DEF CallRecords
      <4>2. todayCall'[c] = [mid EXCEPT !.got = got]
        BY <3>1
      <4> HIDE DEF mid
      <4> QED
        BY <4>1, <4>2, <3>1 DEF CallRecords
    <3> QED
      BY <1>0, <3>2, <1>1, <1>9 DEF TodayTypes
  <2>3. CASE todayCall[c].pc # "publishes"
    BY <1>0, <2>1, <2>3, <1>1, <1>9 DEF TodayTypes
  <2> QED
    BY <2>2, <2>3
<1>11. TodayTypes'
  BY <1>0, <1>1, <1>7, <1>8, <1>10 DEF TodayTypes
<1>12. InHand(c)'
  <2>1. todayPublish'[c].pc = "no"
    BY <1>1, <1>8 DEF TodayTypes
  <2>2. /\ todayCall'[c].pc = "done" /\ todayCall'[c].home = p
        /\ todayCall'[c].key = todayCall[c].key
        /\ todayCall'[c].floor = todayCall[c].floor
        /\ todayCall'[c].got = IF todayCall[c].pc = "publishes" THEN got ELSE todayCall[c].got
    <3>1. todayCall[c] \in CallRecords /\ "done" \in CallStates
      BY <1>1 DEF TodayTypes, CallStates
    <3>2. CASE todayCall[c].pc = "publishes"
      <4>1. /\ todayCall'[c] = [todayCall[c] EXCEPT !.pc = "done", !.got = got]
            /\ got \in Int
        BY <3>2, <1>2, <1>9
      <4>2. /\ todayCall'[c].pc = "done" /\ todayCall'[c].got = got
            /\ todayCall'[c].home = todayCall[c].home
            /\ todayCall'[c].key = todayCall[c].key
            /\ todayCall'[c].floor = todayCall[c].floor
        <5> DEFINE mid == [todayCall[c] EXCEPT !.pc = "done"]
        <5>1. /\ mid \in CallRecords
              /\ mid.pc = "done"
              /\ mid.home = todayCall[c].home
              /\ mid.key = todayCall[c].key /\ mid.floor = todayCall[c].floor
          BY <3>1 DEF CallRecords
        <5>2. todayCall'[c] = [mid EXCEPT !.got = got]
          BY <4>1
        <5> HIDE DEF mid
        <5> QED
          BY <5>1, <5>2 DEF CallRecords
      <4> QED
        BY <3>2, <4>2 DEF p
    <3>3. CASE todayCall[c].pc # "publishes"
      BY <3>3, <1>2, <1>9 DEF p
    <3> QED
      BY <3>2, <3>3
  <2>3. todayCall'[c].key \in todayRaced' \/ todayCall'[c].got >= todayCall'[c].floor
    BY <2>2, <1>2, <1>6
  <2> QED
    BY <1>0, <2>1, <2>2, <2>3, <1>2, <1>7 DEF InHand
<1>13. \A d \in Visits : InHand(d)'
  BY <1>0, <1>6, <1>7, <1>8, <1>9, <1>12, OtherCallsKeep
<1>14. Today!OneRefresh' /\ ChangeIsKnown'
  BY <1>0, <1>7 DEF TInv, Today!OneRefresh, ChangeIsKnown, UnderWay
<1> QED
  BY <1>7, <1>11, <1>13, <1>14 DEF TInv

LEMMA GetTodayVideosPageKeeps ==
  ASSUME TodayConstants, TInv, Today!GetTodayVideosPage PROVE TInv'
<1>0. PICK c \in Visits, p \in Web :
      /\ todayCall[c].pc = "no"
      /\ todayOwn' = [todayOwn EXCEPT
           ![p].version = Today!GetTodayCacheVersion(p),
           ![p].pages[Today!GetTodayCacheVersion(p)] =
             IF Today!GetPage(p, Today!GetTodayCacheVersion(p)).data >= 0
             THEN Today!GetPage(p, Today!GetTodayCacheVersion(p)) ELSE @]
      /\ todayCall' = [todayCall EXCEPT ![c] =
           [pc |-> IF Today!GetPage(p, Today!GetTodayCacheVersion(p)).data >= 0
                   THEN "done" ELSE "building", home |-> p,
            key |-> Today!GetTodayCacheVersion(p),
            got |-> Today!GetPage(p, Today!GetTodayCacheVersion(p)).data, floor |-> todayFloor[p]]]
      /\ IF \/ Today!GetPage(p, Today!GetTodayCacheVersion(p)).data < 0
            \/ Today!Fresh(Today!GetPage(p, Today!GetTodayCacheVersion(p)))
         THEN UNCHANGED <<todayPublish, todayRefresh, todayHolder>>
         ELSE /\ todayPublish' = [todayPublish EXCEPT ![c].pc = "building"]
              /\ Today!RefreshTodayFeedIfDue(p)
      /\ UNCHANGED <<todayData, todayBorn, todayShared, todayLate, todayEdit,
                      todayNow, todayFloor, todayRaced>>
  BY DEF Today!GetTodayVideosPage
<1> DEFINE v == Today!GetTodayCacheVersion(p)
           page == Today!GetPage(p, v)
<1>1. /\ TodayTypes
      /\ InHand(c)
      /\ VersionsInOrder
      /\ PagesHold
      /\ Today!OneRefresh
  BY DEF TInv
<1>2. /\ v \in 0 .. todayShared.version
      /\ v \in Today!Versions
      /\ todayFloor[p] <= todayBorn[v]
  BY <1>1, VersionKnown
<1>3. /\ page \in Pages
      /\ v \notin todayRaced /\ page.data >= 0 => page.data >= todayBorn[v]
  BY <1>1, <1>2, PageGot
<1>4. /\ todayBorn[v] \in Nat
      /\ todayFloor[p] \in Nat
      /\ todayFloor[p] <= todayData
      /\ todayData \in Nat
      /\ todayOwn[p] \in Copies /\ todayShared.version \in Nat /\ v \in Nat
      /\ todayOwn[p].version \in Nat
  BY <1>1, <1>2 DEF TodayTypes, VersionsInOrder, Copies
<1>5. v = IF todayOwn[p].version # 0 THEN todayOwn[p].version ELSE todayShared.version
  BY DEF Today!GetTodayCacheVersion
<1>6. /\ todayCall[c].pc = "no"
      /\ UNCHANGED <<todayData, todayBorn, todayShared, todayLate, todayEdit, todayNow, todayFloor, todayRaced>>
      /\ todayOwn' = [todayOwn EXCEPT ![p].version = v,
                            ![p].pages[v] = IF page.data >= 0 THEN page ELSE @]
      /\ todayCall' = [todayCall EXCEPT ![c] =
           [pc |-> IF page.data >= 0 THEN "done" ELSE "building", home |-> p,
            key |-> v, got |-> page.data, floor |-> todayFloor[p]]]
      /\ IF page.data < 0 \/ Today!Fresh(page)
         THEN UNCHANGED <<todayPublish, todayRefresh, todayHolder>>
         ELSE /\ todayPublish' = [todayPublish EXCEPT ![c].pc = "building"]
              /\ Today!RefreshTodayFeedIfDue(p)
  BY <1>0
<1> HIDE DEF v, page
<1> DEFINE after == [todayOwn[p].pages EXCEPT ![v] = IF page.data >= 0 THEN page ELSE @]
<1>7. after \in [Today!Versions -> Pages]
  BY <1>2, <1>3, <1>4 DEF Copies
<1>8. /\ todayOwn'[p] \in Copies
      /\ todayOwn'[p].version = v
      /\ todayOwn'[p].pages = after
  <2> DEFINE mid == [todayOwn EXCEPT ![p].version = v]
             entry == [todayOwn[p] EXCEPT !.version = v]
  <2>1. entry \in Copies /\ entry.version = v /\ entry.pages = todayOwn[p].pages
    BY <1>4 DEF Copies
  <2>2. mid \in [Web -> Copies] /\ mid[p] = entry
    BY <1>1, <2>1 DEF TodayTypes
  <2>3. todayOwn' = [mid EXCEPT ![p].pages[v] = IF page.data >= 0 THEN page ELSE @]
    BY <1>6
  <2> HIDE DEF mid, entry
  <2>4. todayOwn'[p] = [entry EXCEPT !.pages = after]
    BY <2>1, <2>2, <2>3
  <2> HIDE DEF after
  <2> QED
    BY <2>1, <2>4, <1>7 DEF Copies
<1>9. \A q \in Web : q # p => todayOwn'[q] = todayOwn[q]
  BY <1>6, <1>1 DEF TodayTypes
<1>10. \A w \in Today!Versions :
         \/ after[w] = todayOwn[p].pages[w]
         \/ w = v /\ page.data >= 0 /\ after[w] = page
  BY <1>2, <1>4 DEF Copies
<1> HIDE DEF after
<1>11. todayOwn' \in [Web -> Copies]
  <2>1. \A q \in Web : todayOwn'[q] \in Copies
    BY <1>8, <1>9, <1>1 DEF TodayTypes
  <2>2. todayOwn' = [q \in Web |-> todayOwn'[q]]
    <3> DEFINE mid == [todayOwn EXCEPT ![p].version = v]
    <3>1. todayOwn' = [mid EXCEPT ![p].pages[v] = IF page.data >= 0 THEN page ELSE @]
      BY <1>6
    <3>2. mid \in [Web -> {mid[q] : q \in Web}]
      BY <1>1 DEF TodayTypes
    <3> HIDE DEF mid
    <3> QED
      BY <3>1, <3>2
  <2> QED
    BY <2>1, <2>2
<1>12. VersionsInOrder'
  <2>1. ASSUME NEW q \in Web
        PROVE  /\ todayOwn'[q].version <= todayShared.version
               /\ todayFloor[q] <= todayData
               /\ todayOwn'[q].version = 0 => todayFloor[q] = 0
               /\ todayFloor[q] <= todayBorn[todayOwn'[q].version]
    <3>1. CASE q = p
      <4>1. todayOwn'[q].version = v
        BY <3>1, <1>8
      <4>2. v = 0 => todayFloor[p] = 0
        BY <1>1, <1>5 DEF VersionsInOrder
      <4> QED
        BY <4>1, <4>2, <3>1, <1>2, <1>4
    <3>2. CASE q # p
      BY <3>2, <1>9, <1>1 DEF VersionsInOrder
    <3> QED
      BY <3>1, <3>2
  <2> QED
    BY <2>1, <1>1, <1>6 DEF VersionsInOrder
<1>13. PagesHold'
  <2>1. CopyHolds(todayShared)' /\ \A q \in Web : CopyHolds(todayOwn[q])
    BY <1>1, <1>6 DEF PagesHold, CopyHolds
  <2>2. ASSUME NEW q \in Web, q # p PROVE CopyHolds(todayOwn[q])'
    BY <2>1, <2>2, <1>6, <1>9 DEF CopyHolds
  <2>3. CopyHolds(todayOwn[p])'
    <3>1. \A w \in (0 .. todayShared.version) \ todayRaced :
            after[w].data >= 0 => after[w].data >= todayBorn[w]
      <4>1. 0 .. todayShared.version \subseteq Today!Versions
        BY <1>1 DEF TodayTypes, Today!Versions, TodayConstants
      <4> QED
        BY <4>1, <2>1, <1>3, <1>10 DEF CopyHolds
    <3>2. \A w \in Today!Versions : w > todayShared.version => after[w].data = -1
      BY <2>1, <1>2, <1>4, <1>10 DEF CopyHolds
    <3>3. todayOwn'[p].pages = after
      BY <1>8
    <3> QED
      BY <3>1, <3>2, <3>3, <1>6 DEF CopyHolds
  <2> QED
    BY <2>1, <2>2, <2>3 DEF PagesHold
<1>14. /\ todayRefresh' \in [Web -> Refreshing]
       /\ todayHolder' \in Web \cup {Today!Nobody}
       /\ Today!OneRefresh'
       /\ \A q \in Web : todayRefresh[q] = "running" => todayRefresh'[q] = "running"
  <2>1. Today!RefreshTodayFeedIfDue(p) \/ UNCHANGED <<todayRefresh, todayHolder>>
    BY <1>6
  <2> QED
    BY <2>1, <1>1, RefreshAsked
<1>15. /\ todayCall'[c] = [pc |-> IF page.data >= 0 THEN "done" ELSE "building",
                      home |-> p, key |-> v, got |-> page.data, floor |-> todayFloor[p]]
       /\ \A d \in Visits : d # c => todayCall'[d] = todayCall[d]
  BY <1>6, <1>1 DEF TodayTypes
<1>16. todayCall' \in [Visits -> CallRecords]
  <2>1. todayCall'[c] \in CallRecords
    BY <1>15, <1>3, <1>4 DEF CallStates, Pages, CallRecords
  <2> QED
    BY <2>1, <1>1, <1>6 DEF TodayTypes
<1>17. /\ todayPublish' \in [Visits -> PublishRecords]
       /\ \A d \in Visits : d # c => todayPublish'[d] = todayPublish[d]
       /\ todayPublish'[c].pc \in {todayPublish[c].pc, "building"}
       /\ page.data < 0 => todayPublish'[c].pc = todayPublish[c].pc
  <2>1. CASE todayPublish' = todayPublish
    BY <2>1, <1>1 DEF TodayTypes
  <2>2. CASE todayPublish' = [todayPublish EXCEPT ![c].pc = "building"] /\ ~(page.data < 0)
    BY <2>2, <1>1 DEF TodayTypes, PublishStates, CallRecords, PublishRecords
  <2> QED
    BY <2>1, <2>2, <1>6
<1>18. TodayTypes'
  BY <1>1, <1>6, <1>11, <1>14, <1>16, <1>17 DEF TodayTypes
<1>19. InHand(c)'
  <2>1. /\ todayPublish[c].pc = "no"
        /\ UNCHANGED <<todayData, todayBorn, todayShared, todayRaced>>
    BY <1>1, <1>6 DEF InHand
  <2>2. page.data \in Int
    BY <1>3 DEF Pages
  <2>3. CASE page.data >= 0
    <3>1. todayCall'[c].pc = "done"
      BY <2>3, <1>15
    <3>2. v \in todayRaced \/ page.data >= todayFloor[p]
      BY <2>2, <2>3, <1>2, <1>3, <1>4
    <3>3. todayPublish'[c].pc # "versioning"
      BY <2>1, <1>17
    <3> QED
      BY <2>1, <3>1, <3>2, <3>3, <1>2, <1>4, <1>15 DEF InHand
  <2>4. CASE page.data < 0
    <3>1. todayCall'[c].pc = "building" /\ todayPublish'[c].pc = "no"
      BY <2>1, <2>2, <2>4, <1>15, <1>17
    <3> QED
      BY <2>1, <3>1, <1>2, <1>4, <1>15 DEF InHand
  <2> QED
    BY <2>2, <2>3, <2>4
<1>20. \A d \in Visits : InHand(d)'
  BY <1>6, <1>15, <1>17, <1>19, OtherCallsKeep
<1>21. ChangeIsKnown'
  BY <1>6, <1>14 DEF TInv, ChangeIsKnown, UnderWay
<1> QED
  BY <1>12, <1>13, <1>14, <1>18, <1>20, <1>21 DEF TInv

(* For any number of processes, calls, changes and versions: no page from   *)
(* before a version is under it but those that publishTodayPage raced with, *)
(* who changed the subscriptions sees the change, one refresh at a time     *)
(* runs within its budget, and when all is quiet the newest version stands  *)
(* for all that is in the library.                                          *)
THEOREM TodayIsSafe ==
  ASSUME TodayConstants
  PROVE  Today!Spec => []TodaySafe
<1>1. Today!Init => TInv
  BY FirstPagesHold
<1>2. TInv /\ [Today!Next]_(Today!vars) => TInv'
  <2> SUFFICES ASSUME TInv, [Today!Next]_(Today!vars) PROVE TInv'
    OBVIOUS
  <2>1. CASE UNCHANGED Today!vars
    BY <2>1 DEF Today!vars, TInv, TodayTypes, VersionsInOrder, PagesHold,
       CopyHolds, InHand, Today!OneRefresh, ChangeIsKnown, UnderWay
  <2>2. CASE Today!Next
    BY <2>2, FindsStaleFeedsKeeps, FeedArrivesKeeps, FeedsAreRefreshedKeeps,
       RefreshReturnsKeeps, UserSubscribesKeeps, InvalidateTodayCacheKeeps,
       GetTodayVideosPageKeeps, BuildTodayPageFromDbKeeps, StoresPageKeeps,
       ColdStartEndsKeeps, PublishBuildsKeeps, PublishTodayPageKeeps,
       TimePassesKeeps DEF Today!Next
  <2> QED
    BY <2>1, <2>2
<1>3. TInv => TodaySafe
  BY TInvIsSafe DEF TodaySafe
<1> QED
  BY <1>1, <1>2, <1>3, PTL DEF Today!Spec
=============================================================================
