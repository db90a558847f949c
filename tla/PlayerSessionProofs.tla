------------------------- MODULE PlayerSessionProofs -------------------------
(***************************************************************************)
(* What holds of a player session for every number of loads, seeks and     *)
(* outages, and every number of holds of a request.                        *)
(*                                                                         *)
(* The promises are about a load() that waits, so the proof must follow    *)
(* it from its start: which generations have begun (Begun), that a         *)
(* manifest is asked for by the load that waits for it (ManifestAsked),    *)
(* that an open startup transaction is the current generation's and has    *)
(* its deadline once attached (Startup), what a destroyed player has left  *)
(* (Gone) and what a failure settles (Announced).  SeekingMeansSeek is not *)
(* inductive: a provider that has not started yet may report a seek that   *)
(* is over, because its start will correct that (SeekTold).                *)
(***************************************************************************)
EXTENDS PlayerSession, TLAPS

Calls == {"none", "starting", "manifest", "provider", "waiting", "done",
          "failed", "aborted", "unavailable"}
Stages == {"none", "flight", "held", "rejected"}
States == {"idle", "loading", "buffering", "ready", "recovering", "seeking",
           "error", "destroyed"}
Promises == [Gens -> Calls]
Requests == [Gens -> [Kinds -> [st : Stages, holds : Nat]]]
Starts == [gen : 0..MaxGen, attached : BOOLEAN, settled : BOOLEAN,
           ready : BOOLEAN, timer : BOOLEAN]
Providers == [gen : 0..MaxGen, kind : {"none", "mse", "url"},
              quiesced : BOOLEAN, complete : BOOLEAN]
SeekOps == [count : Nat, active : Nat, buf : BOOLEAN, inter : BOOLEAN]

(* The types in two parts: what is written by many actions, and the flags. *)
DataTyped ==
  /\ gen \in 0..MaxGen /\ termGen \in 0..gen
  /\ call \in Promises /\ req \in Requests
  /\ txn \in Starts /\ provider \in Providers /\ seek \in SeekOps
  /\ readies \subseteq Gens /\ terminals \subseteq Gens

FlagsTyped ==
  /\ state \in States
  /\ recovering \in BOOLEAN /\ serverDown \in BOOLEAN
  /\ destroyed \in BOOLEAN /\ refresh \in BOOLEAN
  /\ probe \in {"none", "flight", "timer"}
  /\ downs \in Nat

Types == DataTyped /\ FlagsTyped

(* Nothing is known of a generation that has not begun.                    *)
Begun ==
  /\ \A g \in Gens : g > gen => call[g] = "none" /\ g \notin terminals
  /\ txn.gen <= gen /\ provider.gen <= gen
  /\ provider.kind # "none" => provider.gen > 0

(* A manifest is asked for by the load that waits for it.                  *)
ManifestAsked ==
  \A g \in Gens : req[g]["manifest"].st # "none" => call[g] = "manifest"

(* The startup transaction is open for the current generation only, with a *)
(* deadline from the moment it is attached.                                *)
Startup ==
  /\ ~txn.settled => txn.gen = gen /\ gen > 0
  /\ txn.timer => ~txn.settled
  /\ txn.attached /\ ~txn.settled => txn.timer
  /\ gen \in Gens /\ call[gen] \in {"starting", "manifest"} => ~txn.attached

(* A destroyed player has nothing to continue.                             *)
Gone ==
  destroyed =>
    /\ state = "destroyed" /\ txn.settled
    /\ provider.gen = 0
    /\ gen > 0 /\ call[gen] = "none"

(* What has failed is announced, and its start is over.                    *)
Announced ==
  /\ termGen > 0 => termGen \in terminals
  /\ gen \in terminals /\ txn.gen = gen => txn.settled

(* Before any outage: a player that reports a seek it does not have is     *)
(* about to start.                                                         *)
SeekTold ==
  downs = 0 =>
    /\ ~serverDown
    /\ (/\ provider.kind = "mse" /\ ~provider.quiesced /\ state = "seeking"
        /\ ~seek.buf /\ ~seek.inter) =>
         ~provider.complete /\ (txn.attached => Attachable)

SeekPending == seek.buf \/ seek.inter => seek.active > 0

Progress ==
  /\ Begun /\ ManifestAsked /\ Startup /\ Gone /\ Announced /\ SeekTold
  /\ SeekPending /\ NoStrandedRequest /\ EveryWaiterDecided /\ OutcomeAnnounced

SessionInv == Types /\ Progress

-----------------------------------------------------------------------------
(* What the helpers and assignments of the model make of typed values.     *)
LEMMA Bounds == MaxGen \in Nat /\ MaxHolds \in Nat /\ MaxSeeks \in Nat
<1> QED BY SessionAssumption

(* The names of calls and stages that the actions use.                     *)
LEMMA Names ==
  /\ "none" \in Calls /\ "starting" \in Calls /\ "manifest" \in Calls
  /\ "provider" \in Calls /\ "waiting" \in Calls /\ "done" \in Calls
  /\ "failed" \in Calls /\ "aborted" \in Calls /\ "unavailable" \in Calls
  /\ "none" \in Stages /\ "flight" \in Stages /\ "held" \in Stages
  /\ "rejected" \in Stages
<1> QED BY DEF Calls, Stages

FieldTypes ==
  /\ gen \in Nat /\ gen <= MaxGen /\ termGen \in Nat
  /\ txn.gen \in Nat /\ txn.attached \in BOOLEAN
  /\ txn.settled \in BOOLEAN /\ txn.timer \in BOOLEAN
  /\ provider.gen \in Nat /\ provider.kind \in {"none", "mse", "url"}
  /\ provider.quiesced \in BOOLEAN /\ provider.complete \in BOOLEAN
  /\ seek.count \in Nat /\ seek.active \in Nat
  /\ seek.buf \in BOOLEAN /\ seek.inter \in BOOLEAN

(* What the types say of each field.                                       *)
LEMMA Fields ==
  ASSUME Types
  PROVE  FieldTypes
<1>1. gen \in Nat /\ gen <= MaxGen /\ termGen \in Nat
  BY Bounds DEF Types, DataTyped
<1>2. /\ txn.gen \in Nat /\ txn.attached \in BOOLEAN
      /\ txn.settled \in BOOLEAN /\ txn.timer \in BOOLEAN
  BY Bounds DEF Types, DataTyped, Starts
<1>3. /\ provider.gen \in Nat /\ provider.kind \in {"none", "mse", "url"}
      /\ provider.quiesced \in BOOLEAN /\ provider.complete \in BOOLEAN
  BY Bounds DEF Types, DataTyped, Providers
<1>4. /\ seek.count \in Nat /\ seek.active \in Nat
      /\ seek.buf \in BOOLEAN /\ seek.inter \in BOOLEAN
  BY DEF Types, DataTyped, SeekOps
<1> QED BY <1>1, <1>2, <1>3, <1>4 DEF FieldTypes

(* A promise may be set to any stage of a call.                            *)
LEMMA PromisePut ==
  ASSUME NEW c \in Promises, NEW g, NEW v \in Calls
  PROVE  [c EXCEPT ![g] = v] \in Promises
<1> QED BY DEF Promises

(* A request may be moved to any stage, or be dropped.                     *)
LEMMA RequestPut ==
  ASSUME NEW r \in Requests, NEW g, NEW k, NEW s \in Stages
  PROVE  /\ [r EXCEPT ![g][k].st = s] \in Requests
         /\ [r EXCEPT ![g][k] = Idle] \in Requests
         /\ [r EXCEPT ![g][k] = [Idle EXCEPT !.st = s]] \in Requests
<1>1. Idle \in [st : Stages, holds : Nat]
  BY DEF Idle, Stages
<1>2. [Idle EXCEPT !.st = s] \in [st : Stages, holds : Nat]
  BY DEF Idle
<1>3. ASSUME NEW x \in [st : Stages, holds : Nat]
      PROVE  [r EXCEPT ![g][k] = x] \in Requests
  BY <1>3 DEF Requests
<1>4. ASSUME g \in Gens, k \in Kinds
      PROVE  [r EXCEPT ![g][k].st = s] \in Requests
  BY <1>4 DEF Requests
<1>5. ASSUME g \notin Gens \/ k \notin Kinds
      PROVE  [r EXCEPT ![g][k].st = s] \in Requests
  BY <1>5 DEF Requests
<1> QED BY <1>1, <1>2, <1>3, <1>4, <1>5

(* A request may be held once more.                                        *)
LEMMA RequestHeld ==
  ASSUME NEW r \in Requests, NEW g \in Gens, NEW k \in Kinds
  PROVE  [r EXCEPT ![g][k].st = "held", ![g][k].holds = @ + 1] \in Requests
<1> QED BY DEF Requests, Stages

(* Quiescing the requests keeps their types.                               *)
LEMMA QuiescedTyped ==
  ASSUME NEW r \in Requests, NEW clear \in BOOLEAN
  PROVE  Quiesced(r, clear) \in Requests
<1> QED BY DEF Quiesced, Aborts, Requests, Stages

(* So does releasing them when the server is back.                         *)
LEMMA ReleasedTyped ==
  ASSUME req \in Requests, ExitServerDown
  PROVE  req' \in Requests
<1>1. \A g \in Gens, k \in Kinds :
        req[g][k] \in [st : Stages, holds : Nat]
  BY DEF Requests
<1>2. \A g \in Gens, k \in Kinds :
        \A st \in {"flight", "rejected"} :
          [req[g][k] EXCEPT !.st = st] \in [st : Stages, holds : Nat]
  BY <1>1 DEF Stages
<1>3. \A g \in Gens, k \in Kinds :
        (IF req[g][k].st # "held" THEN req[g][k]
         ELSE [req[g][k] EXCEPT !.st = IF Owned(g, k) THEN "flight"
                                       ELSE "rejected"])
          \in [st : Stages, holds : Nat]
  BY <1>1, <1>2
<1> QED BY <1>3 DEF ExitServerDown, Requests

(* So does dropping them when the session is over.                         *)
LEMMA ClearedTyped ==
  ASSUME req \in Requests, AuthExpired
  PROVE  req' \in Requests
<1>1. CASE destroyed
  BY <1>1 DEF AuthExpired
<1>2. CASE ~destroyed
  <2>1. req' = [g \in Gens |-> [k \in Kinds |->
                  IF req[g][k].st = "held"
                  THEN [req[g][k] EXCEPT !.st = "rejected"] ELSE req[g][k]]]
    BY <1>2 DEF AuthExpired
  <2> QED BY <2>1 DEF Requests, Stages
<1> QED BY <1>1, <1>2

(* Failing or cancelling a waiter gives promises again.                    *)
LEMMA WaitersTyped ==
  ASSUME NEW c \in Promises
  PROVE  /\ FailWaiter(c) \in Promises
         /\ call \in Promises => CancelWaiter \in Promises
<1> QED BY DEF FailWaiter, CancelWaiter, Promises, Calls

(* The changes that the actions make to a startup transaction.             *)
LEMMA StartPut ==
  ASSUME NEW t \in Starts
  PROVE  /\ [t EXCEPT !.settled = TRUE, !.timer = FALSE] \in Starts
         /\ [t EXCEPT !.settled = TRUE, !.ready = TRUE, !.timer = FALSE]
              \in Starts
         /\ [t EXCEPT !.attached = TRUE, !.timer = TRUE] \in Starts
         /\ \A g \in 0..MaxGen : NewTxn(g) \in Starts
<1> QED BY DEF Starts, NewTxn, NoTxn

(* The changes that the actions make to a provider.                        *)
LEMMA ProviderPut ==
  ASSUME NEW q \in Providers
  PROVE  /\ [q EXCEPT !.quiesced = provider.gen # 0] \in Providers
         /\ [q EXCEPT !.complete = TRUE] \in Providers
         /\ NoProvider \in Providers
         /\ \A g \in 0..MaxGen, kind \in {"mse", "url"} :
              [NoProvider EXCEPT !.gen = g, !.kind = kind] \in Providers
<1>1. [q EXCEPT !.quiesced = provider.gen # 0] \in Providers
  <2>1. [q EXCEPT !.quiesced = TRUE] \in Providers
    BY DEF Providers
  <2>2. [q EXCEPT !.quiesced = FALSE] \in Providers
    BY DEF Providers
  <2>3. (provider.gen # 0) \in {TRUE, FALSE}
    OBVIOUS
  <2> QED BY <2>1, <2>2, <2>3
<1>2. NoProvider \in Providers
  BY Bounds DEF Providers, NoProvider
<1>3. ASSUME NEW g \in 0..MaxGen, NEW kind \in {"mse", "url"}
      PROVE  [NoProvider EXCEPT !.gen = g, !.kind = kind] \in Providers
  BY <1>2, <1>3 DEF Providers
<1> QED BY <1>1, <1>2, <1>3 DEF Providers

(* The changes that the actions make to a seek.                            *)
LEMMA SeekPut ==
  ASSUME NEW s \in SeekOps
  PROVE  /\ NoSeek \in SeekOps
         /\ [s EXCEPT !.active = 0, !.buf = FALSE, !.inter = FALSE] \in SeekOps
         /\ [s EXCEPT !.inter = TRUE] \in SeekOps
         /\ [s EXCEPT !.inter = FALSE] \in SeekOps
         /\ [s EXCEPT !.buf = FALSE] \in SeekOps
         /\ [count |-> s.count + 1, active |-> s.count + 1,
             buf |-> TRUE, inter |-> TRUE] \in SeekOps
<1>1. /\ NoSeek \in SeekOps
      /\ [s EXCEPT !.active = 0, !.buf = FALSE, !.inter = FALSE] \in SeekOps
  BY DEF SeekOps, NoSeek
<1>2. /\ [s EXCEPT !.inter = TRUE] \in SeekOps
      /\ [s EXCEPT !.inter = FALSE] \in SeekOps
      /\ [s EXCEPT !.buf = FALSE] \in SeekOps
  BY DEF SeekOps
<1>3. [count |-> s.count + 1, active |-> s.count + 1,
       buf |-> TRUE, inter |-> TRUE] \in SeekOps
  BY DEF SeekOps
<1> QED BY <1>1, <1>2, <1>3 DEF SeekOps

(* A terminal error.                                                       *)
LEMMA TerminalTyped ==
  ASSUME Types, NEW c \in Promises, NEW r \in Requests, Terminal(c, r),
         gen \in Gens, gen' = gen, readies' = readies
  PROVE  /\ DataTyped'
         /\ state' \in States /\ recovering' \in BOOLEAN
         /\ serverDown' \in BOOLEAN /\ probe' \in {"none", "flight", "timer"}
<1>1. call' \in Promises
  BY WaitersTyped DEF Terminal
<1>2. CASE termGen = gen
  BY <1>1, <1>2 DEF Terminal, Types, DataTyped, FlagsTyped
<1>3. ASSUME termGen # gen
      PROVE  /\ req' \in Requests /\ txn' \in Starts
             /\ provider' \in Providers /\ seek' \in SeekOps
  BY <1>3, QuiescedTyped, StartPut, ProviderPut, SeekPut
  DEF Terminal, Types, DataTyped, InvalidSeek
<1>4. ASSUME termGen # gen
      PROVE  /\ termGen' \in 0..gen' /\ terminals' \subseteq Gens
             /\ state' \in States /\ recovering' \in BOOLEAN
             /\ serverDown' \in BOOLEAN /\ probe' = "none"
  <2>1. /\ termGen' = gen /\ terminals' = terminals \cup {gen}
        /\ state' = "error" /\ recovering' = FALSE
        /\ serverDown' = FALSE /\ probe' = "none"
    BY <1>4 DEF Terminal, StopServerDown
  <2>2. termGen' \in 0..gen'
    BY <2>1, Bounds DEF Gens
  <2>3. terminals' \subseteq Gens
    BY <2>1 DEF Types, DataTyped
  <2>4. state' \in States
    BY <2>1 DEF States
  <2> QED BY <2>1, <2>2, <2>3, <2>4
<1>5. CASE termGen # gen
  BY <1>1, <1>3, <1>4, <1>5 DEF Types, DataTyped
<1> QED BY <1>2, <1>5

(* Only a generation that has begun has a start to miss or a provider.     *)
LEMMA OnlyBegunFails ==
  ASSUME Types, Begun, Startup, StartupTimeout \/ VideoError \/ RuntimeTerminal
  PROVE  gen \in Gens
<1> USE Fields DEF FieldTypes, Begun, Startup, Gens
<1>1. CASE StartupTimeout
  BY <1>1 DEF StartupTimeout
<1>2. CASE VideoError
  BY <1>2 DEF VideoError
<1>3. CASE RuntimeTerminal
  BY <1>3 DEF RuntimeTerminal
<1> QED BY <1>1, <1>2, <1>3


(* Every step keeps the types of calls, requests and transactions.         *)
LEMMA DataStaysTyped ==
  ASSUME Types, Begun, Startup, [Next]_sessionVars
  PROVE  DataTyped'
<1> USE DEF Types, DataTyped
<1>1. CASE Load
  <2>1. call' \in Promises
    BY <1>1, Names, WaitersTyped DEF Load, Promises
  <2>2. txn' \in Starts
    <3>1. gen + 1 \in 0..MaxGen
      BY <1>1, Bounds DEF Load
    <3> QED BY <1>1, <3>1, StartPut DEF Load
  <2> QED BY <1>1, Bounds, <2>1, <2>2
         DEF Load, Gens
<1>2. CASE Unload
  <2>1. call' \in Promises
    BY <1>2, WaitersTyped DEF Unload
  <2>2. req' \in Requests
    BY <1>2, QuiescedTyped DEF Unload
  <2>3. txn' \in Starts
    BY <1>2 DEF Unload, Starts
  <2>4. provider' \in Providers
    BY <1>2, ProviderPut DEF Unload
  <2>5. seek' \in SeekOps
    BY <1>2, SeekPut DEF Unload
  <2>6. gen' \in 0..MaxGen /\ termGen' \in 0..gen'
    BY <1>2, Bounds DEF Unload
  <2> QED BY <1>2, Bounds, <2>1, <2>2, <2>3, <2>4, <2>5, <2>6
         DEF Unload
<1>3. CASE Destroy
  <2>1. call' \in Promises
    BY <1>3, WaitersTyped DEF Destroy
  <2>2. req' \in Requests
    BY <1>3, QuiescedTyped DEF Destroy
  <2>3. txn' \in Starts
    BY <1>3 DEF Destroy, Starts
  <2>4. provider' \in Providers
    BY <1>3, ProviderPut DEF Destroy
  <2>5. seek' \in SeekOps
    BY <1>3, SeekPut DEF Destroy
  <2>6. gen' \in 0..MaxGen /\ termGen' \in 0..gen'
    BY <1>3, Bounds DEF Destroy
  <2> QED BY <1>3, Bounds, <2>1, <2>2, <2>3, <2>4, <2>5, <2>6
         DEF Destroy
<1>4. CASE Attach
  BY <1>4, StartPut DEF Attach, Attachable, netvars
<1>5. CASE BufferReady
  <2>1. call' \in Promises
    BY <1>5, Names DEF BufferReady, Promises
  <2>2. txn' \in Starts
    BY <1>5, StartPut DEF BufferReady
  <2>3. provider' \in Providers
    BY <1>5, ProviderPut DEF BufferReady
  <2>4. readies' \subseteq Gens
    BY <1>5, Fields DEF FieldTypes, BufferReady, Attachable, Startup, Gens
  <2> QED BY <1>5, Bounds, <2>1, <2>2, <2>3, <2>4
         DEF BufferReady, netvars
<1>6. CASE StartupTimeout
  BY <1>6, StartPut, OnlyBegunFails, TerminalTyped DEF StartupTimeout
<1>7. CASE VideoError
  BY <1>7, OnlyBegunFails, TerminalTyped DEF VideoError
<1>8. CASE RuntimeTerminal
  BY <1>8, OnlyBegunFails, TerminalTyped DEF RuntimeTerminal
<1>9. CASE Stall
  BY <1>9 DEF Stall, EnterServerDown, netvars
<1>10. ASSUME NEW g \in Gens, StartNative(g) PROVE DataTyped'
  <2>1. call' \in Promises
    BY <1>10, Names DEF StartNative, Promises
  <2>2. req' \in Requests
    <3>1. CASE req' = Quiesced(req, FALSE)
      BY <3>1, QuiescedTyped
    <3>2. CASE req' = [Quiesced(req, FALSE) EXCEPT
                         ![g]["manifest"].st = "flight"]
      <4> DEFINE r == Quiesced(req, FALSE)
      <4>1. r \in Requests
        BY QuiescedTyped
      <4> HIDE DEF r
      <4>2. [r EXCEPT ![g]["manifest"].st = "flight"] \in Requests
        BY <4>1, Names DEF Requests, Kinds
      <4> QED BY <3>2, <4>2 DEF r
    <3>3. CASE req' = req
      BY <3>3
    <3> QED BY <1>10, <3>1, <3>2, <3>3 DEF StartNative
  <2>3. provider' \in Providers
    BY <1>10, ProviderPut DEF StartNative, Gens
  <2>4. seek' \in SeekOps
    BY <1>10, SeekPut DEF StartNative
  <2> QED BY <1>10, Bounds, <2>1, <2>2, <2>3, <2>4
         DEF StartNative, netvars
<1>11. ASSUME NEW g \in Gens, ManifestArrives(g) PROVE DataTyped'
  <2>1. call' \in Promises
    BY <1>11, Names DEF ManifestArrives, Promises
  <2>2. req' \in Requests
    <3>1. req' = [req EXCEPT ![g]["manifest"].st = "none"]
      BY <1>11 DEF ManifestArrives
    <3> QED BY <3>1, Names DEF Requests, Kinds
  <2>3. provider' \in Providers
    <3>1. \/ provider' = provider
          \/ \E kind \in {"mse", "url"} :
               provider' = [NoProvider EXCEPT !.gen = g, !.kind = kind]
      BY <1>11 DEF ManifestArrives
    <3>2. g \in 0..MaxGen
      BY DEF Gens
    <3>3. ASSUME NEW kind \in {"mse", "url"},
                 provider' = [NoProvider EXCEPT !.gen = g, !.kind = kind]
          PROVE  provider' \in Providers
      BY <3>2, <3>3 DEF NoProvider, Providers
    <3> QED BY <3>1, <3>3
  <2>4. seek' \in SeekOps
    BY <1>11, SeekPut DEF ManifestArrives
  <2> QED BY <1>11, Bounds, <2>1, <2>2, <2>3, <2>4
         DEF ManifestArrives, netvars
<1>12. ASSUME NEW g \in Gens, ProviderLoaded(g) PROVE DataTyped'
  <2>1. [call EXCEPT ![g] = "failed"] \in Promises
    BY Names DEF Promises
  <2>2. CASE LoadFails(g, req) /\ g = gen
    BY <1>12, <2>1, <2>2, TerminalTyped DEF ProviderLoaded, LoadFails
  <2>3. CASE ~(LoadFails(g, req) /\ g = gen)
    <3>1. call' \in Promises
      BY <1>12, <2>3, Names DEF ProviderLoaded, Promises, LoadFails
    <3> QED BY <1>12, <2>3, <3>1 DEF ProviderLoaded, LoadFails
  <2> QED BY <2>2, <2>3
<1>13. ASSUME NEW g \in Gens, ProviderFails(g) PROVE DataTyped'
  <2>1. [call EXCEPT ![g] = "failed"] \in Promises
    BY Names DEF Promises
  <2>2. CASE LoadFails(g, req) /\ g = gen
    BY <1>13, <2>1, <2>2, TerminalTyped DEF ProviderFails, LoadFails
  <2>3. CASE ~(LoadFails(g, req) /\ g = gen)
    <3>1. call' \in Promises
      BY <1>13, <2>3, Names DEF ProviderFails, Promises, LoadFails
    <3> QED BY <1>13, <2>3, <3>1 DEF ProviderFails, LoadFails
  <2> QED BY <2>2, <2>3
<1>14. ASSUME NEW g \in Gens, NEW k \in Kinds, Fails(g, k) PROVE DataTyped'
  <2>1. req' \in Requests
    <3>1. CASE req' = [req EXCEPT ![g][k].st = "held", ![g][k].holds = @ + 1]
      BY <3>1, RequestHeld
    <3>2. CASE req' = [req EXCEPT ![g][k].st = "rejected"]
      BY <3>2, Names DEF Requests
    <3> QED BY <1>14, <3>1, <3>2 DEF Fails
  <2> QED BY <1>14, Bounds, <2>1
         DEF Fails, netvars
<1>15. ASSUME NEW g \in Gens, NEW k \in Kinds, Succeeds(g, k)
      PROVE  DataTyped'
  <2>1. req' \in Requests
    BY <1>15, Names DEF Succeeds, Requests, Idle
  <2> QED BY <1>15, Bounds, <2>1
         DEF Succeeds, netvars
<1>16. ASSUME NEW g \in Gens, NEW k \in Kinds, Rejected(g, k)
      PROVE  DataTyped'
  <2> DEFINE r == [req EXCEPT ![g][k] = Idle]
  <2>1. r \in Requests
    BY Names DEF Requests, Idle
  <2>2. [call EXCEPT ![g] = "failed"] \in Promises
    BY Names DEF Promises
  <2>3. ASSUME k = "manifest", g = gen PROVE DataTyped'
    <3> HIDE DEF r
    <3>1. Terminal([call EXCEPT ![g] = "failed"], r)
      BY <1>16, <2>3 DEF Rejected, LoadFails, r
    <3> QED BY <1>16, <2>1, <2>2, <2>3, <3>1, TerminalTyped DEF Rejected
  <2>4. ASSUME ~(k = "manifest" /\ g = gen) PROVE DataTyped'
    <3>1. call' \in Promises
      BY <1>16, <2>4, Names DEF Rejected, Promises, LoadFails
    <3>2. req' \in Requests
      BY <1>16, <2>1, <2>4 DEF Rejected, LoadFails
    <3> QED BY <1>16, <2>4, <3>1, <3>2 DEF Rejected, LoadFails
  <2> QED BY <2>3, <2>4
<1>17. ASSUME NEW k \in {"meta", "media"}, Issue(k) PROVE DataTyped'
  BY <1>17, Names, RequestPut DEF Issue, netvars
<1>18. CASE ProbeOk
  BY <1>18, ReleasedTyped DEF ProbeOk, rest
<1>19. CASE ProbeFails \/ ProbeAgain \/ TokenDeferred
  BY <1>19 DEF ProbeFails, ProbeAgain, TokenDeferred, rest
<1>20. CASE TokenRefreshed
  BY <1>20, ReleasedTyped DEF TokenRefreshed, rest
<1>21. CASE AuthExpired
  BY <1>21, ClearedTyped DEF AuthExpired, rest
<1>22. CASE BeginSeek
  BY <1>22, SeekPut DEF BeginSeek, SeekStep, netvars
<1>23. CASE SeekBuffered
  BY <1>23, SeekPut DEF SeekBuffered, SeekStep, FinalState, netvars
<1>24. CASE EndSeek
  BY <1>24, SeekPut DEF EndSeek, SeekStep, FinalState, netvars
<1>25. CASE CancelSeek
  BY <1>25, SeekPut DEF CancelSeek, SeekStep, InvalidSeek, netvars
<1>26. CASE UNCHANGED sessionVars
  BY <1>26 DEF sessionVars
<1> QED BY <1>1, <1>2, <1>3, <1>4, <1>5, <1>6, <1>7, <1>8, <1>9, <1>10,
           <1>11, <1>12, <1>13, <1>14, <1>15, <1>16, <1>17, <1>18, <1>19,
           <1>20, <1>21, <1>22, <1>23, <1>24, <1>25, <1>26 DEF Next

-----------------------------------------------------------------------------
(* What the larger steps do, field by field.                               *)
Answered(g, v) == call'[g] = v /\ \A h \in Gens : h # g => call'[h] = call[h]

(* A waiter of the generation that ends here has been told so.             *)
Superseded == \A h \in Gens : h <= gen =>
  call'[h] = IF h = gen /\ call[h] = "waiting" THEN "aborted" ELSE call[h]

(* Requests are at most rejected, a manifest only if it was held.          *)
AtMostRejected(r) ==
  \A h \in Gens, k \in Kinds :
    \/ req'[h][k].st = r[h][k].st
    \/ /\ req'[h][k].st = "rejected" /\ r[h][k].st \in {"flight", "held"}
       /\ k = "manifest" => r[h][k].st = "held"

NoneHeld == \A h \in Gens, k \in Kinds : req'[h][k].st # "held"

NoProviderNow ==
  /\ provider'.gen = 0 /\ provider'.kind = "none"
  /\ ~provider'.quiesced /\ ~provider'.complete

NoSeekNow == seek'.active = 0 /\ ~seek'.buf /\ ~seek'.inter

(* What quiescing may do to one request.                                   *)
LEMMA QuiescedEffect ==
  ASSUME NEW r \in Requests, NEW clear \in BOOLEAN, NEW h \in Gens,
         NEW k \in Kinds
  PROVE  LET s == Quiesced(r, clear)[h][k].st
         IN  \/ s = r[h][k].st /\ (clear => s # "held")
             \/ /\ s = "rejected" /\ r[h][k].st \in {"flight", "held"}
                /\ k = "manifest" => r[h][k].st = "held"
<1>1. Quiesced(r, clear)[h][k] =
        IF Aborts(r, h, k) \/ (clear /\ r[h][k].st = "held")
        THEN [r[h][k] EXCEPT !.st = "rejected"] ELSE r[h][k]
  BY DEF Quiesced
<1>2. r[h][k] \in [st : Stages, holds : Nat]
  BY DEF Requests
<1> QED BY <1>1, <1>2 DEF Aborts

(* So does a provider that quiesces with all requests.                     *)
LEMMA AllQuiesced ==
  ASSUME NEW r \in Requests, req' = Quiesced(r, TRUE)
  PROVE  AtMostRejected(r) /\ NoneHeld
<1>1. ASSUME NEW h \in Gens, NEW k \in Kinds
      PROVE  /\ req'[h][k].st # "held"
             /\ \/ req'[h][k].st = r[h][k].st
                \/ /\ req'[h][k].st = "rejected"
                   /\ r[h][k].st \in {"flight", "held"}
                   /\ k = "manifest" => r[h][k].st = "held"
  <2>1. req'[h][k] =
          IF Aborts(r, h, k) \/ r[h][k].st = "held"
          THEN [r[h][k] EXCEPT !.st = "rejected"] ELSE r[h][k]
    BY DEF Quiesced
  <2>2. r[h][k] \in [st : Stages, holds : Nat]
    BY DEF Requests
  <2> QED BY <2>1, <2>2 DEF Aborts
<1> QED BY <1>1 DEF AtMostRejected, NoneHeld

(* A new generation begins to load.                                       *)
Loads ==
  /\ gen' = gen + 1 /\ gen + 1 \in Gens /\ ~destroyed
  /\ txn'.gen = gen + 1 /\ ~txn'.attached /\ ~txn'.settled /\ ~txn'.timer
  /\ Superseded /\ call'[gen + 1] = "starting"
  /\ \A h \in Gens : h > gen + 1 => call'[h] = "none"
  /\ termGen' = 0 /\ state' = "loading"
  /\ UNCHANGED <<destroyed, provider, seek, req, serverDown, probe,
                 downs, readies, terminals>>

(* A load is one of the steps that Loads describes.                        *)
LEMMA LoadEffect ==
  ASSUME Types, Begun, Load
  PROVE  Loads
<1>1. gen + 1 \in Gens
  BY Fields, Bounds DEF FieldTypes, Load, Gens
<1>2. txn'.gen = gen + 1 /\ ~txn'.attached /\ ~txn'.settled /\ ~txn'.timer
  BY DEF Load, NewTxn, NoTxn
<1>3. CancelWaiter \in Promises
  BY WaitersTyped DEF Types, DataTyped
<1>4. \A h \in Gens : CancelWaiter[h] =
        IF h = gen /\ call[h] = "waiting" THEN "aborted" ELSE call[h]
  BY DEF CancelWaiter, Types, DataTyped, Promises
<1>5. \A h \in Gens :
        call'[h] = IF h = gen + 1 THEN "starting" ELSE CancelWaiter[h]
  BY <1>3 DEF Load, Promises
<1>6. gen + 1 # gen /\ \A h \in Gens : h \in Int
  BY Fields DEF FieldTypes, Gens
<1> QED BY <1>1, <1>2, <1>4, <1>5, <1>6, Fields
    DEF FieldTypes, Load, Superseded, Begun, Loads

(* A generation ends, with the player or without.                          *)
Closes ==
  /\ gen' = gen + 1 /\ gen + 1 \in Gens /\ ~destroyed
  /\ txn'.gen = txn.gen /\ txn'.settled /\ ~txn'.timer
  /\ Superseded /\ \A h \in Gens : h > gen => call'[h] = "none"
  /\ NoProviderNow /\ NoSeekNow
  /\ serverDown' = FALSE /\ probe' = "none"
  /\ AtMostRejected(req) /\ NoneHeld
  /\ UNCHANGED <<downs, readies, terminals>>
  /\ \/ termGen' = 0 /\ state' = "idle" /\ ~destroyed'
     \/ termGen' = termGen /\ state' = "destroyed" /\ destroyed'

(* Unload and destroy close the session.                                   *)
LEMMA CloseEffect ==
  ASSUME Types, Begun, Unload \/ Destroy
  PROVE  Closes
<1>1. gen + 1 \in Gens
  <2>1. gen < MaxGen
    BY DEF Unload, Destroy
  <2> QED BY <2>1, Fields, Bounds DEF FieldTypes, Gens
<1>2. txn'.gen = txn.gen /\ txn'.settled /\ ~txn'.timer
  BY DEF Unload, Destroy, Types, DataTyped, Starts
<1>3. NoProviderNow /\ NoSeekNow
  <2>1. provider' = NoProvider /\ seek' = NoSeek
    BY DEF Unload, Destroy
  <2> QED BY <2>1 DEF NoProviderNow, NoSeekNow, NoProvider, NoSeek
<1>4. \A h \in Gens : call'[h] =
        IF h = gen /\ call[h] = "waiting" THEN "aborted" ELSE call[h]
  BY DEF Unload, Destroy, CancelWaiter, Types, DataTyped, Promises
<1>5. req' = Quiesced(req, TRUE)
  BY DEF Unload, Destroy
<1>6. AtMostRejected(req) /\ NoneHeld
  BY <1>5, AllQuiesced DEF Types, DataTyped
<1>7. Superseded /\ \A h \in Gens : h > gen => call'[h] = "none"
  BY <1>4, Fields DEF FieldTypes, Superseded, Begun, Gens
<1>8. CASE Unload
  BY <1>1, <1>2, <1>3, <1>6, <1>7, <1>8 DEF Unload, StopServerDown, Closes
<1>9. CASE Destroy
  BY <1>1, <1>2, <1>3, <1>6, <1>7, <1>9 DEF Destroy, StopServerDown, Closes
<1> QED BY <1>8, <1>9

(* A terminal error of the current generation: the first one settles all,  *)
(* the next one nothing.                                                   *)
Over(r) ==
  /\ AtMostRejected(r) /\ termGen' = gen
  /\ txn'.gen = txn.gen /\ txn'.attached = txn.attached
  /\ provider'.gen = provider.gen /\ provider'.kind = provider.kind
  /\ provider'.complete = provider.complete
  /\ \/ /\ termGen = gen /\ req' = r
        /\ UNCHANGED <<state, serverDown, txn, provider, seek, probe,
                       terminals>>
     \/ /\ termGen # gen /\ terminals' = terminals \cup {gen} /\ NoneHeld
        /\ txn.settled \/ txn.gen = gen <=> txn'.settled
        /\ txn'.timer <=> txn.timer /\ txn.gen # gen
        /\ state' = "error" /\ serverDown' = FALSE /\ probe' = "none"
        /\ seek' = seek \/ NoSeekNow

(* A terminal failure ends the waiting call and its requests.              *)
LEMMA TerminalEffect ==
  ASSUME Types, NEW c \in Promises, NEW r \in Requests, Terminal(c, r)
  PROVE  /\ \A h \in Gens : call'[h] =
              IF h = gen /\ c[h] = "waiting" THEN "failed" ELSE c[h]
         /\ Over(r)
<1>1. \A h \in Gens : call'[h] =
        IF h = gen /\ c[h] = "waiting" THEN "failed" ELSE c[h]
  BY DEF Terminal, FailWaiter
<1>2. CASE termGen = gen
  BY <1>1, <1>2 DEF Terminal, Over, AtMostRejected
<1>3. ASSUME termGen # gen
      PROVE  /\ txn'.gen = txn.gen /\ txn'.attached = txn.attached
             /\ txn.settled \/ txn.gen = gen <=> txn'.settled
             /\ txn'.timer <=> txn.timer /\ txn.gen # gen
  <2>1. CASE txn.gen = gen
    BY <1>3, <2>1 DEF Terminal, Types, DataTyped, Starts
  <2>2. CASE txn.gen # gen
    BY <1>3, <2>2, Fields DEF FieldTypes, Terminal
  <2> QED BY <2>1, <2>2
<1>4. ASSUME termGen # gen
      PROVE  /\ provider'.gen = provider.gen /\ provider'.kind = provider.kind
             /\ provider'.complete = provider.complete
  BY <1>4 DEF Terminal, Types, DataTyped, Providers
<1>5. ASSUME termGen # gen
      PROVE  seek' = seek \/ NoSeekNow
  BY <1>5 DEF Terminal, InvalidSeek, NoSeekNow, Types, DataTyped, SeekOps
<1>6. ASSUME termGen # gen
      PROVE  AtMostRejected(r) /\ NoneHeld
  <2>1. req' = Quiesced(r, TRUE)
    BY <1>6 DEF Terminal
  <2> QED BY <2>1, AllQuiesced
<1>7. CASE termGen # gen
  BY <1>1, <1>3, <1>4, <1>5, <1>6, <1>7 DEF Terminal, Over, StopServerDown
<1> QED BY <1>2, <1>7

(* A load that cannot go on.                                              *)
Fail(g, r) ==
  \/ /\ g # gen /\ Answered(g, "aborted") /\ req' = r
     /\ UNCHANGED <<state, serverDown, txn, termGen, provider, seek,
                    probe, terminals>>
  \/ g = gen /\ Answered(g, "failed") /\ Over(r)

(* A load that fails is a step that Fail describes.                        *)
LEMMA FailureEffect ==
  ASSUME Types, NEW g \in Gens, NEW r \in Requests, LoadFails(g, r)
  PROVE  Fail(g, r)
<1> USE DEF Fail
<1>1. [call EXCEPT ![g] = "failed"] \in Promises
  BY Names DEF Types, DataTyped, Promises
<1>2. CASE g # gen
  BY <1>2 DEF LoadFails, Answered, Types, DataTyped, Promises
<1>3. CASE g = gen
  <2> DEFINE c == [call EXCEPT ![g] = "failed"]
  <2>1. \A h \in Gens : c[h] = IF h = g THEN "failed" ELSE call[h]
    BY DEF Types, DataTyped, Promises
  <2>2. c \in Promises /\ Terminal(c, r)
    BY <1>1, <1>3 DEF LoadFails
  <2> HIDE DEF c
  <2>3. /\ \A h \in Gens : call'[h] =
             IF h = gen /\ c[h] = "waiting" THEN "failed" ELSE c[h]
        /\ Over(r)
    BY <2>2, TerminalEffect
  <2> QED BY <1>3, <2>1, <2>3 DEF Answered
<1> QED BY <1>2, <1>3

(* A load goes on to a media URL or to its manifest.                      *)
Opens(g) ==
  /\ call[g] = "starting"
  /\ UNCHANGED <<gen, state, destroyed, txn, termGen, serverDown, probe,
                 downs, readies, terminals>>
  /\ \/ /\ g # gen /\ Answered(g, "aborted")
        /\ UNCHANGED <<provider, seek, req>>
     \/ /\ g = gen /\ NoSeekNow
        /\ ~provider'.quiesced /\ ~provider'.complete
        /\ \A h \in Gens, k \in Kinds :
             req'[h][k].st = "held" => req[h][k].st = "held"
        /\ \A h \in Gens : h # g =>
             req'[h]["manifest"].st = req[h]["manifest"].st
        /\ \/ /\ Answered(g, "manifest")
              /\ provider'.kind = "none" /\ provider'.gen = 0
           \/ /\ Answered(g, "provider")
              /\ provider'.kind = "url" /\ provider'.gen = g
              /\ req'[g]["manifest"].st = req[g]["manifest"].st

(* Starting a native source opens a provider.                              *)
LEMMA NativeEffect ==
  ASSUME Types, NEW g \in Gens, StartNative(g)
  PROVE  Opens(g)
<1> USE DEF Opens
<1>1. /\ call[g] = "starting"
      /\ UNCHANGED <<gen, state, destroyed, txn, termGen, serverDown, probe,
                     downs, readies, terminals>>
  BY DEF StartNative, netvars
<1>2. ASSUME NEW v, call' = [call EXCEPT ![g] = v]
      PROVE  Answered(g, v)
  BY <1>2 DEF Answered, Types, DataTyped, Promises
<1>3. CASE g # gen
  BY <1>1, <1>2, <1>3 DEF StartNative
<1> DEFINE r == Quiesced(req, FALSE)
<1>4. /\ r \in Requests
      /\ \A h \in Gens, k \in Kinds :
           r[h][k].st = "held" => req[h][k].st = "held"
  <2>1. req \in Requests
    BY DEF Types, DataTyped
  <2>2. r \in Requests
    BY <2>1, QuiescedTyped
  <2>3. ASSUME NEW h \in Gens, NEW k \in Kinds, r[h][k].st = "held"
        PROVE  req[h][k].st = "held"
    BY <2>1, <2>3, QuiescedEffect
  <2> QED BY <2>2, <2>3
<1>5. \A h \in Gens : r[h]["manifest"].st = req[h]["manifest"].st
  BY DEF Quiesced, Aborts, Kinds
<1> HIDE DEF r
<1>6. CASE /\ g = gen /\ call' = [call EXCEPT ![g] = "manifest"]
           /\ provider' = NoProvider /\ seek' = NoSeek
           /\ req' = [r EXCEPT ![g]["manifest"].st = "flight"]
  <2>1. /\ \A h \in Gens, k \in Kinds : h # g \/ k # "manifest" =>
             req'[h][k].st = r[h][k].st
        /\ req'[g]["manifest"].st = "flight"
    BY <1>4, <1>6 DEF Requests, Kinds
  <2>2. /\ \A h \in Gens, k \in Kinds :
             req'[h][k].st = "held" => req[h][k].st = "held"
        /\ \A h \in Gens : h # g =>
             req'[h]["manifest"].st = req[h]["manifest"].st
    BY <1>4, <1>5, <2>1 DEF Kinds
  <2>3. /\ provider'.kind = "none" /\ provider'.gen = 0 /\ NoSeekNow
        /\ ~provider'.quiesced /\ ~provider'.complete
    BY <1>6 DEF NoProvider, NoSeek, NoSeekNow
  <2> QED BY <1>1, <1>2, <1>6, <2>2, <2>3
<1>7. CASE /\ g = gen /\ call' = [call EXCEPT ![g] = "provider"]
           /\ seek' = NoSeek /\ req' = r
           /\ provider' = [NoProvider EXCEPT !.gen = g, !.kind = "url"]
  BY <1>1, <1>2, <1>4, <1>5, <1>7 DEF NoProvider, NoSeek, NoSeekNow
<1> QED BY <1>3, <1>6, <1>7 DEF StartNative, r

(* The manifest of a load is answered.                                    *)
Parses(g) ==
  /\ req[g]["manifest"].st = "flight"
  /\ UNCHANGED <<gen, state, destroyed, txn, termGen, serverDown, probe,
                 downs, readies, terminals>>
  /\ req'[g]["manifest"].st = "none"
  /\ \A h \in Gens, k \in Kinds : h # g \/ k # "manifest" =>
       req'[h][k].st = req[h][k].st
  /\ \/ /\ g # gen /\ Answered(g, "aborted")
        /\ UNCHANGED <<provider, seek>>
     \/ /\ g = gen /\ Answered(g, "provider") /\ NoSeekNow
        /\ provider'.gen = g /\ provider'.kind \in {"mse", "url"}
        /\ ~provider'.quiesced /\ ~provider'.complete
     \/ /\ g = gen /\ Answered(g, "unavailable")
        /\ UNCHANGED <<provider, seek>>

(* A manifest that arrives is parsed or ignored.                           *)
LEMMA ManifestEffect ==
  ASSUME Types, NEW g \in Gens, ManifestArrives(g)
  PROVE  Parses(g)
<1>1. /\ req[g]["manifest"].st = "flight"
      /\ UNCHANGED <<gen, state, destroyed, txn, termGen, serverDown, probe,
                     downs, readies, terminals>>
      /\ req' = [req EXCEPT ![g]["manifest"].st = "none"]
  BY DEF ManifestArrives, netvars
<1>2. /\ req'[g]["manifest"].st = "none"
      /\ \A h \in Gens, k \in Kinds : h # g \/ k # "manifest" =>
           req'[h][k].st = req[h][k].st
  BY <1>1 DEF Types, DataTyped, Requests, Kinds
<1>3. ASSUME NEW v, call' = [call EXCEPT ![g] = v]
      PROVE  Answered(g, v)
  BY <1>3 DEF Answered, Types, DataTyped, Promises
<1>4. \/ g # gen /\ Answered(g, "aborted") /\ UNCHANGED <<provider, seek>>
      \/ /\ g = gen /\ Answered(g, "provider") /\ seek' = NoSeek
         /\ \E kind \in {"mse", "url"} :
              provider' = [NoProvider EXCEPT !.gen = g, !.kind = kind]
      \/ g = gen /\ Answered(g, "unavailable") /\ UNCHANGED <<provider, seek>>
  BY <1>3 DEF ManifestArrives
<1>5. ASSUME NEW kind, provider' = [NoProvider EXCEPT !.gen = g, !.kind = kind]
      PROVE  /\ provider'.gen = g /\ provider'.kind = kind
             /\ ~provider'.quiesced /\ ~provider'.complete
  BY <1>5 DEF NoProvider
<1>6. seek' = NoSeek => NoSeekNow
  BY DEF NoSeek, NoSeekNow
<1> QED BY <1>1, <1>2, <1>4, <1>5, <1>6 DEF Parses

(* The provider of a load has answered.                                   *)
Settles(g) ==
  /\ call[g] = "provider" /\ UNCHANGED <<gen, destroyed, downs, readies>>
  /\ \/ /\ \/ g # gen /\ Answered(g, "aborted")
           \/ provider.gen # g /\ Answered(g, "aborted")
           \/ provider.quiesced /\ Answered(g, "aborted")
           \/ g = gen /\ g \in readies /\ Answered(g, "done")
           \/ /\ g = gen /\ txn.attached /\ ~txn.settled
              /\ Answered(g, "waiting")
        /\ UNCHANGED <<state, serverDown, txn, termGen, provider, seek,
                       req, probe, terminals>>
     \/ g = gen /\ Answered(g, "failed") /\ Over(req)

(* A provider's answer settles its call.                                   *)
LEMMA ProviderEffect ==
  ASSUME Types, NEW g \in Gens, ProviderLoaded(g) \/ ProviderFails(g)
  PROVE  Settles(g)
<1> USE DEF Settles
<1>1. ASSUME NEW v, call' = [call EXCEPT ![g] = v]
      PROVE  Answered(g, v)
  BY <1>1 DEF Answered, Types, DataTyped, Promises
<1>2. req \in Requests
  BY DEF Types, DataTyped
<1>3. CASE LoadFails(g, req)
  BY <1>2, <1>3, FailureEffect
  DEF ProviderLoaded, ProviderFails, Fail
<1>4. CASE ~LoadFails(g, req)
  BY <1>1, <1>4, Fields DEF FieldTypes, ProviderLoaded, ProviderFails
<1> QED BY <1>3, <1>4

(* The server is seen going down, unless it is known to be.                *)
Goes ==
  \/ UNCHANGED <<serverDown, probe, downs>>
  \/ /\ ~destroyed /\ serverDown' /\ probe' = "flight"
     /\ downs' = downs + 1 /\ downs' # 0

(* An outage changes the outage's variables only.                          *)
LEMMA DownEffect ==
  ASSUME Types, EnterServerDown
  PROVE  /\ Goes /\ (~destroyed => serverDown')
         /\ serverDown' \in BOOLEAN /\ downs' \in Nat
         /\ probe' \in {"none", "flight", "timer"}
<1>1. CASE serverDown \/ destroyed
  BY <1>1 DEF EnterServerDown, netvars, Types, FlagsTyped, Goes
<1>2. ASSUME ~(serverDown \/ destroyed)
      PROVE  /\ downs' = downs + 1 /\ downs' \in Nat /\ downs' # 0
             /\ serverDown' = TRUE /\ probe' = "flight"
  BY <1>2 DEF EnterServerDown, Types, FlagsTyped
<1> QED BY <1>1, <1>2 DEF Goes

Stalls ==
  /\ UNCHANGED <<gen, state, destroyed, txn, termGen, provider, seek, call,
                 req, readies, terminals>>
  /\ ~destroyed /\ Goes

(* A stall is one of the steps that Stalls describes.                      *)
LEMMA StallEffect ==
  ASSUME Types, Stall
  PROVE  Stalls
<1> QED BY DownEffect DEF Stall, Stalls

(* A rejected request is reacted to.                                       *)
Reacts(g, k) ==
  /\ UNCHANGED <<gen, destroyed, readies>>
  /\ req[g][k].st = "rejected" /\ req'[g][k].st = "none"
  /\ \A h \in Gens, l \in Kinds : h # g \/ l # k =>
       \/ req'[h][l].st = req[h][l].st
       \/ /\ req'[h][l].st = "rejected"
          /\ l = "manifest" => req[h][l].st = "held"
  /\ \/ /\ k # "manifest"
        /\ UNCHANGED <<state, txn, termGen, provider, seek, call,
                       terminals>>
        /\ Goes
     \/ /\ k = "manifest" /\ g # gen /\ Answered(g, "aborted")
        /\ UNCHANGED <<state, serverDown, txn, termGen, provider, seek,
                       probe, terminals, downs>>
     \/ /\ k = "manifest" /\ g = gen /\ Answered(g, "failed")
        /\ downs' = downs /\ \E r \in Requests : Over(r)

(* A request that is rejected is reacted to by its own generation.         *)
LEMMA RejectedEffect ==
  ASSUME Types, NEW g \in Gens, NEW k \in Kinds, Rejected(g, k)
  PROVE  Reacts(g, k)
<1> DEFINE r == [req EXCEPT ![g][k] = Idle]
<1>1. /\ r \in Requests /\ r[g][k].st = "none"
      /\ \A h \in Gens, l \in Kinds : h # g \/ l # k =>
           r[h][l].st = req[h][l].st
  BY Names DEF Types, DataTyped, Requests, Idle
<1>2. /\ UNCHANGED <<gen, destroyed, readies>>
      /\ req[g][k].st = "rejected"
      /\ \/ k = "manifest" /\ LoadFails(g, r) /\ UNCHANGED downs
         \/ /\ k # "manifest" /\ req' = r
            /\ UNCHANGED <<state, txn, termGen, provider, seek, call,
                           terminals>>
            /\ Goes
  BY DownEffect DEF Rejected, netvars, Goes
<1> HIDE DEF r
<1>3. AtMostRejected(r)
  BY <1>1, <1>2, FailureEffect DEF AtMostRejected, Over, Fail
<1>4. /\ req'[g][k].st = "none"
      /\ \A h \in Gens, l \in Kinds : h # g \/ l # k =>
           \/ req'[h][l].st = req[h][l].st
           \/ /\ req'[h][l].st = "rejected"
              /\ l = "manifest" => req[h][l].st = "held"
  BY <1>1, <1>3 DEF AtMostRejected
<1>5. LoadFails(g, r) => Fail(g, r)
  BY <1>1, FailureEffect
<1> QED BY <1>1, <1>2, <1>4, <1>5 DEF Reacts, Fail

(* The server has answered, or is asked again.                             *)
Asks ==
  /\ UNCHANGED rest
  /\ \/ /\ serverDown' = FALSE /\ probe' = "none" /\ NoneHeld
        /\ \A h \in Gens, k \in Kinds :
             req[h][k].st = "none" => req'[h][k].st = "none"
     \/ /\ UNCHANGED <<serverDown, req>>
        /\ probe # "none" <=> probe' # "none"

(* The probe and the token change no call of a load.                       *)
LEMMA ServerEffect ==
  ASSUME Types,
         \/ ProbeOk \/ ProbeFails \/ ProbeAgain
         \/ TokenRefreshed \/ TokenDeferred \/ AuthExpired
  PROVE  Asks
<1> USE DEF Asks
<1>1. ASSUME ExitServerDown
      PROVE  /\ serverDown' = FALSE /\ probe' = "none" /\ NoneHeld
             /\ \A h \in Gens, k \in Kinds :
                  req[h][k].st = "none" => req'[h][k].st = "none"
  BY <1>1 DEF ExitServerDown, StopServerDown, NoneHeld, Types, DataTyped,
     Requests
<1>2. CASE AuthExpired
  <2>1. CASE destroyed
    BY <1>2, <2>1 DEF AuthExpired
  <2>2. CASE ~destroyed
    <3>1. /\ serverDown' = FALSE /\ probe' = "none" /\ UNCHANGED rest
          /\ req' = [g \in Gens |-> [k \in Kinds |->
                       IF req[g][k].st = "held"
                       THEN [req[g][k] EXCEPT !.st = "rejected"]
                       ELSE req[g][k]]]
      BY <1>2, <2>2 DEF AuthExpired, StopServerDown
    <3>2. NoneHeld /\ \A h \in Gens, k \in Kinds :
            req[h][k].st = "none" => req'[h][k].st = "none"
      BY <3>1 DEF NoneHeld, Types, DataTyped, Requests
    <3> QED BY <3>1, <3>2
  <2> QED BY <2>1, <2>2
<1>3. CASE ProbeOk \/ TokenRefreshed
  BY <1>1, <1>3 DEF ProbeOk, TokenRefreshed
<1>4. CASE ProbeFails \/ ProbeAgain \/ TokenDeferred
  BY <1>4 DEF ProbeFails, ProbeAgain, TokenDeferred
<1> QED BY <1>2, <1>3, <1>4

(* The start or the playback of the current generation fails.             *)
Breaks ==
  /\ gen \in Gens /\ UNCHANGED <<gen, destroyed, downs, readies>>
  /\ txn.timer \/ provider.gen # 0
  /\ \/ /\ \A h \in Gens : call'[h] =
             IF h = gen /\ call[h] = "waiting" THEN "failed" ELSE call[h]
        /\ Over(req)
     \/ /\ call[gen] # "waiting" /\ state' = "recovering"
        /\ txn'.gen = txn.gen /\ txn'.attached = txn.attached
        /\ txn'.settled /\ ~txn'.timer
        /\ UNCHANGED <<call, serverDown, termGen, provider, seek, req,
                       probe, terminals>>
     \/ /\ state' \in {"ready", "buffering"}
        /\ UNCHANGED <<call, serverDown, txn, termGen, provider, seek,
                       req, probe, terminals>>

(* A failure at run time breaks the current provider only.                 *)
LEMMA FailEffect ==
  ASSUME Types, Begun, Startup, StartupTimeout \/ VideoError \/ RuntimeTerminal
  PROVE  Breaks
<1> USE DEF Breaks
<1>1. gen \in Gens
  BY OnlyBegunFails
<1>2. /\ UNCHANGED <<gen, destroyed, downs, readies>>
      /\ txn.timer \/ provider.gen # 0
  BY Fields DEF FieldTypes, StartupTimeout, VideoError, RuntimeTerminal, Begun
<1>3. call \in Promises /\ req \in Requests
  BY DEF Types, DataTyped
<1>4. CASE Terminal(call, req)
  BY <1>1, <1>2, <1>3, <1>4, TerminalEffect
<1>5. ASSUME ~Terminal(call, req), StartupTimeout
      PROVE  /\ call[gen] # "waiting" /\ state' = "recovering"
             /\ txn'.gen = txn.gen /\ txn'.attached = txn.attached
             /\ txn'.settled /\ ~txn'.timer
             /\ UNCHANGED <<call, serverDown, termGen, provider, seek, req,
                            probe, terminals>>
  BY <1>5 DEF StartupTimeout, Types, DataTyped, Starts
<1>6. ASSUME ~Terminal(call, req), VideoError \/ RuntimeTerminal
      PROVE  /\ state' \in {"ready", "buffering"}
             /\ UNCHANGED <<call, serverDown, txn, termGen, provider, seek,
                            req, probe, terminals>>
  BY <1>6 DEF VideoError, RuntimeTerminal
<1> QED BY <1>1, <1>2, <1>4, <1>5, <1>6

(* A request fails for now.                                                *)
Waits(g, k) ==
  /\ req[g][k].st = "flight"
  /\ UNCHANGED <<gen, state, destroyed, txn, termGen, provider, seek,
                 call, readies, terminals>>
  /\ \A h \in Gens, l \in Kinds : h # g \/ l # k =>
       req'[h][l].st = req[h][l].st
  /\ \/ req'[g][k].st = "held" /\ Goes /\ serverDown' /\ ~destroyed
     \/ req'[g][k].st = "rejected" /\ UNCHANGED <<serverDown, probe, downs>>

(* A request that fails is held or rejected.                               *)
LEMMA FailsEffect ==
  ASSUME Types, NEW g \in Gens, NEW k \in Kinds, Fails(g, k)
  PROVE  Waits(g, k)
<1>1. /\ req[g][k].st = "flight"
      /\ UNCHANGED <<gen, state, destroyed, txn, termGen, provider, seek,
                     call, readies, terminals>>
      /\ \/ /\ req' = [req EXCEPT ![g][k].st = "held", ![g][k].holds = @ + 1]
            /\ Goes /\ serverDown' /\ ~destroyed
         \/ /\ req' = [req EXCEPT ![g][k].st = "rejected"]
            /\ UNCHANGED <<serverDown, probe, downs>>
  <2>1. EnterServerDown => Goes /\ (~destroyed => serverDown')
    BY DownEffect
  <2> QED BY <2>1 DEF Fails, netvars
<1>2. ASSUME req' = [req EXCEPT ![g][k].st = "held", ![g][k].holds = @ + 1]
      PROVE  /\ req'[g][k].st = "held"
             /\ \A h \in Gens, l \in Kinds : h # g \/ l # k =>
                  req'[h][l].st = req[h][l].st
  BY <1>2 DEF Types, DataTyped, Requests
<1>3. ASSUME req' = [req EXCEPT ![g][k].st = "rejected"]
      PROVE  /\ req'[g][k].st = "rejected"
             /\ \A h \in Gens, l \in Kinds : h # g \/ l # k =>
                  req'[h][l].st = req[h][l].st
  BY <1>3 DEF Types, DataTyped, Requests
<1> QED BY <1>1, <1>2, <1>3 DEF Waits

(* Requests of a provider come and go.                                     *)
Passes ==
  /\ UNCHANGED <<gen, state, destroyed, txn, termGen, provider, seek,
                 call, readies, terminals, serverDown, probe, downs>>
  /\ \A h \in Gens, l \in Kinds :
       \/ req'[h][l].st = req[h][l].st
       \/ req'[h][l].st \in {"none", "flight"} /\ l # "manifest"

(* A request that succeeds or is issued passes.                            *)
LEMMA TrafficEffect ==
  ASSUME Types, \/ \E g \in Gens, k \in Kinds : Succeeds(g, k)
                \/ \E k \in {"meta", "media"} : Issue(k)
  PROVE  Passes
<1>1. ASSUME NEW g \in Gens, NEW k \in Kinds, Succeeds(g, k)
      PROVE  \A h \in Gens, l \in Kinds :
               \/ req'[h][l].st = req[h][l].st
               \/ req'[h][l].st \in {"none", "flight"} /\ l # "manifest"
  BY <1>1 DEF Succeeds, Idle, Types, DataTyped, Requests
<1>2. ASSUME NEW k \in {"meta", "media"}, Issue(k)
      PROVE  \A h \in Gens, l \in Kinds :
               \/ req'[h][l].st = req[h][l].st
               \/ req'[h][l].st \in {"none", "flight"} /\ l # "manifest"
  BY <1>2 DEF Issue, Idle, Types, DataTyped, Requests
<1> QED BY <1>1, <1>2 DEF Succeeds, Issue, netvars, Passes

(* A start is attached to its provider.                                    *)
Attaches ==
  /\ Attachable /\ provider.gen # 0 /\ ~provider.quiesced
  /\ gen \in Gens => call[gen] = "provider"
  /\ txn'.gen = txn.gen /\ txn'.attached /\ txn'.timer /\ ~txn'.settled
  /\ state' = IF state = "loading" THEN "buffering" ELSE state
  /\ UNCHANGED <<gen, destroyed, termGen, provider, seek, call, req,
                 readies, terminals, serverDown, probe, downs>>

(* Attaching starts the transaction's timer.                               *)
LEMMA AttachEffect ==
  ASSUME Types, Attach
  PROVE  Attaches
<1>1. txn'.gen = txn.gen /\ txn'.attached /\ txn'.timer /\ ~txn'.settled
  BY Fields DEF FieldTypes, Attach, Attachable, Types, DataTyped, Starts
<1> QED BY <1>1 DEF Attach, Attachable, netvars, Attaches

(* The buffer of a provider is ready.                                      *)
Plays ==
  /\ provider'.gen = provider.gen /\ provider'.kind = provider.kind
  /\ ~provider.quiesced /\ ~provider'.quiesced /\ provider'.complete
  /\ ~provider.complete /\ txn.attached
  /\ UNCHANGED <<gen, destroyed, termGen, seek, req, terminals,
                 serverDown, probe, downs>>
  /\ \/ /\ Attachable /\ gen \in Gens
        /\ txn'.gen = txn.gen /\ txn'.settled /\ ~txn'.timer
        /\ txn'.attached
        /\ state' = IF serverDown \/ seek.buf \/ seek.inter
                    THEN state ELSE "ready"
        /\ readies' = readies \cup {gen}
        /\ \A h \in Gens : call'[h] =
             IF h = gen /\ call[h] = "waiting" THEN "done" ELSE call[h]
     \/ ~Attachable /\ UNCHANGED <<txn, state, readies, call>>

(* A buffer that is ready lets its own transaction play.                   *)
LEMMA ReadyEffect ==
  ASSUME Types, Begun, BufferReady
  PROVE  Plays
<1>1. /\ provider'.gen = provider.gen /\ provider'.kind = provider.kind
      /\ ~provider.quiesced /\ ~provider'.quiesced /\ provider'.complete
      /\ ~provider.complete /\ txn.attached
      /\ UNCHANGED <<gen, destroyed, termGen, seek, req, terminals,
                     serverDown, probe, downs>>
  BY DEF BufferReady, netvars, Types, DataTyped, Providers
<1>2. ASSUME Attachable
      PROVE  /\ gen \in Gens
             /\ txn'.gen = txn.gen /\ txn'.settled /\ ~txn'.timer
             /\ txn'.attached
             /\ state' = IF serverDown \/ seek.buf \/ seek.inter
                         THEN state ELSE "ready"
             /\ readies' = readies \cup {gen}
             /\ \A h \in Gens : call'[h] =
                  IF h = gen /\ call[h] = "waiting" THEN "done" ELSE call[h]
  <2>1. gen \in Gens
    BY <1>2, Fields DEF FieldTypes, BufferReady, Attachable, Gens
  <2>2. txn'.gen = txn.gen /\ txn'.settled /\ ~txn'.timer /\ txn'.attached
    BY <1>1, <1>2 DEF BufferReady, Types, DataTyped, Starts
  <2>3. \A h \in Gens : call'[h] =
          IF h = gen /\ call[h] = "waiting" THEN "done" ELSE call[h]
    BY <1>2 DEF BufferReady, Types, DataTyped, Promises
  <2> QED BY <1>2, <2>1, <2>2, <2>3 DEF BufferReady
<1> QED BY <1>1, <1>2 DEF BufferReady, Plays

(* A step of a seek operation.                                             *)
Seeks ==
  /\ UNCHANGED <<gen, destroyed, txn, termGen, provider, call, req,
                 readies, terminals, serverDown, probe, downs>>
  /\ ~destroyed \/ provider.kind = "mse"
  /\ \/ provider.kind # "mse" /\ seek' = seek
     \/ /\ seek'.buf \/ seek'.inter => seek'.active > 0
        /\ ~seek'.buf /\ ~seek'.inter /\ ~provider.quiesced /\ ~serverDown
             => state' # "seeking"

(* The steps of a seek change the seek only.                               *)
LEMMA SeekEffect ==
  ASSUME Types, BeginSeek \/ SeekBuffered \/ EndSeek \/ CancelSeek
  PROVE  Seeks
<1> USE DEF Seeks
<1>1. CASE BeginSeek
  BY <1>1, Fields
  DEF FieldTypes, BeginSeek, SeekStep, netvars, Types, DataTyped, SeekOps
<1>2. CASE SeekBuffered
  BY <1>2, Fields
  DEF FieldTypes, SeekBuffered, SeekStep, FinalState, netvars, Types, DataTyped,
      SeekOps
<1>3. CASE EndSeek
  BY <1>3, Fields
  DEF FieldTypes, EndSeek, SeekStep, FinalState, netvars, Types, DataTyped,
      SeekOps
<1>4. CASE CancelSeek
  BY <1>4, Fields
  DEF FieldTypes, CancelSeek, SeekStep, InvalidSeek, netvars, Types, DataTyped,
      SeekOps
<1> QED BY <1>1, <1>2, <1>3, <1>4

-----------------------------------------------------------------------------
(* Each step keeps each part of the invariant.                             *)
LEMMA LoadKeeps ==
  ASSUME SessionInv,
         Load
  PROVE  Progress'
<1>1. Loads /\ FieldTypes
  BY LoadEffect, Fields DEF SessionInv, Progress
<1> USE <1>1 DEF SessionInv, Progress, FieldTypes, Loads
<1>2. Begun'
  BY DEF Begun, Gens
<1>3. ManifestAsked'
  BY DEF ManifestAsked, Begun, Gens, Kinds, Superseded
<1>4. Startup' /\ Gone' /\ SeekTold' /\ SeekPending' /\ NoStrandedRequest'
  BY DEF Startup, Gone, SeekTold, SeekPending, NoStrandedRequest
<1>5. Announced'
  BY DEF Announced, Begun, Startup
<1>6. EveryWaiterDecided'
  BY DEF EveryWaiterDecided, Gens, Superseded
<1>7. OutcomeAnnounced'
  BY DEF OutcomeAnnounced, Gens, Superseded
<1> QED BY <1>2, <1>3, <1>4, <1>5, <1>6, <1>7

(* Closing keeps the invariant's second half.                              *)
LEMMA CloseKeeps ==
  ASSUME SessionInv,
         Unload \/ Destroy
  PROVE  Progress'
<1>1. Closes /\ FieldTypes
  BY CloseEffect, Fields DEF SessionInv, Progress
<1> USE <1>1 DEF SessionInv, Progress, FieldTypes, Closes
<1>2. Begun'
  BY DEF Begun, Gens, Superseded, NoProviderNow, NoSeekNow, AtMostRejected,
         NoneHeld
<1>3. ManifestAsked'
  BY DEF ManifestAsked, Begun, Gens, Kinds, Superseded, NoProviderNow,
         NoSeekNow, AtMostRejected, NoneHeld
<1>4. Startup' /\ Announced' /\ SeekTold'
  BY DEF Startup, Announced, SeekTold
<1>5. Gone'
  BY DEF Gone, Superseded, NoProviderNow, NoSeekNow, AtMostRejected,
         NoneHeld
<1>6. SeekPending'
  BY DEF SeekPending, Superseded, NoProviderNow, NoSeekNow, AtMostRejected,
         NoneHeld
<1>7. NoStrandedRequest'
  BY DEF NoStrandedRequest, Superseded, NoProviderNow, NoSeekNow,
         AtMostRejected, NoneHeld
<1>8. EveryWaiterDecided'
  BY DEF EveryWaiterDecided, Gens, Superseded, NoProviderNow, NoSeekNow,
         AtMostRejected, NoneHeld
<1>9. OutcomeAnnounced'
  BY DEF OutcomeAnnounced, Gens, Superseded, NoProviderNow, NoSeekNow,
         AtMostRejected, NoneHeld
<1> QED BY <1>2, <1>3, <1>4, <1>5, <1>6, <1>7, <1>8, <1>9

(* So does attaching.                                                      *)
LEMMA AttachKeeps ==
  ASSUME SessionInv,
         Attach
  PROVE  Progress'
<1>1. Attaches /\ FieldTypes
  BY AttachEffect, Fields DEF SessionInv, Progress
<1> USE <1>1 DEF SessionInv, Progress, FieldTypes, Attaches
<1>2. Begun' /\ ManifestAsked' /\ Gone' /\ SeekPending'
      /\ NoStrandedRequest' /\ EveryWaiterDecided' /\ OutcomeAnnounced'
  BY DEF Begun, ManifestAsked, Gone, SeekPending, NoStrandedRequest,
         EveryWaiterDecided, OutcomeAnnounced
<1>3. Startup'
  BY DEF Startup, Attachable
<1>4. Announced'
  BY DEF Announced, Attachable
<1>5. SeekTold'
  BY DEF SeekTold, Attachable
<1> QED BY <1>2, <1>3, <1>4, <1>5

(* So does a buffer that is ready.                                         *)
LEMMA ReadyKeeps ==
  ASSUME SessionInv,
         BufferReady
  PROVE  Progress'
<1>1. Plays /\ FieldTypes
  BY ReadyEffect, Fields DEF SessionInv, Progress
<1> USE <1>1 DEF SessionInv, Progress, FieldTypes, Plays
<1>2. Begun' /\ ManifestAsked' /\ Startup' /\ Announced' /\ SeekTold'
      /\ SeekPending' /\ NoStrandedRequest' /\ EveryWaiterDecided'
      /\ OutcomeAnnounced'
  BY DEF Begun, ManifestAsked, Startup, Announced, SeekTold, SeekPending,
         NoStrandedRequest, EveryWaiterDecided, OutcomeAnnounced
<1>3. Gone'
  BY DEF Gone, Attachable
<1> QED BY <1>2, <1>3

(* So does a failure at run time.                                          *)
LEMMA FailKeeps ==
  ASSUME SessionInv,
         StartupTimeout \/ VideoError \/ RuntimeTerminal
  PROVE  Progress'
<1>1. Breaks /\ FieldTypes
  BY FailEffect, Fields DEF SessionInv, Progress
<1> USE <1>1 DEF SessionInv, Progress, FieldTypes, Breaks
<1>2. Begun'
  BY DEF Begun, Over, NoSeekNow, AtMostRejected, NoneHeld
<1>3. ManifestAsked'
  BY DEF ManifestAsked, Gens, Kinds, Over, NoSeekNow, AtMostRejected,
         NoneHeld
<1>4. Startup'
  BY DEF Startup, Over, NoSeekNow, AtMostRejected, NoneHeld
<1>5. Gone'
  BY DEF Gone, Startup, Begun
<1>6. Announced'
  BY DEF Announced, Over, NoSeekNow, AtMostRejected, NoneHeld
<1>7. SeekTold'
  BY DEF SeekTold, Begun, Startup, Attachable, Announced, Over, NoSeekNow,
         AtMostRejected, NoneHeld
<1>8. SeekPending'
  BY DEF SeekPending, Over, NoSeekNow, AtMostRejected, NoneHeld
<1>9. NoStrandedRequest'
  BY DEF NoStrandedRequest, Over, NoSeekNow, AtMostRejected, NoneHeld
<1>10. EveryWaiterDecided'
  BY DEF EveryWaiterDecided
<1>11. OutcomeAnnounced'
  BY DEF OutcomeAnnounced, EveryWaiterDecided, Announced, Begun, Gens,
         Over, NoSeekNow, AtMostRejected, NoneHeld
<1> QED BY <1>2, <1>3, <1>4, <1>5, <1>6, <1>7, <1>8, <1>9, <1>10, <1>11

(* So does a stall.                                                        *)
LEMMA StallKeeps ==
  ASSUME SessionInv,
         Stall
  PROVE  Progress'
<1>1. Stalls /\ FieldTypes
  BY StallEffect, Fields DEF SessionInv, Progress
<1> USE <1>1 DEF SessionInv, Progress, FieldTypes, Stalls
<1>2. Begun' /\ ManifestAsked' /\ Startup' /\ Gone' /\ Announced'
      /\ SeekPending' /\ EveryWaiterDecided' /\ OutcomeAnnounced'
  BY DEF Begun, ManifestAsked, Startup, Gone, Announced, SeekPending,
         EveryWaiterDecided, OutcomeAnnounced
<1>3. SeekTold'
  BY DEF SeekTold, Begun, Startup, Attachable, Announced, Goes
<1>4. NoStrandedRequest'
  BY DEF NoStrandedRequest, Goes
<1> QED BY <1>2, <1>3, <1>4

(* So does starting a native source.                                       *)
LEMMA NativeKeeps ==
  ASSUME SessionInv, NEW g \in Gens,
         StartNative(g)
  PROVE  Progress'
<1>1. Opens(g) /\ FieldTypes
  BY NativeEffect, Fields DEF SessionInv, Progress
<1> USE <1>1 DEF SessionInv, Progress, FieldTypes, Opens
<1>2. Begun'
  BY DEF Begun, Gens, Answered, NoSeekNow
<1>3. ManifestAsked'
  BY DEF ManifestAsked, Answered, NoSeekNow
<1>4. Startup'
  BY DEF Startup, Answered, NoSeekNow
<1>5. Gone'
  BY DEF Gone, Gens, Answered, NoSeekNow
<1>6. Announced' /\ NoStrandedRequest'
  BY DEF Announced, NoStrandedRequest
<1>7. SeekTold'
  BY DEF SeekTold, Begun, Startup, Attachable, Announced
<1>8. SeekPending'
  BY DEF SeekPending, Answered, NoSeekNow
<1>9. EveryWaiterDecided'
  BY DEF EveryWaiterDecided, Answered, NoSeekNow
<1>10. OutcomeAnnounced'
  BY DEF OutcomeAnnounced, Answered, NoSeekNow
<1> QED BY <1>2, <1>3, <1>4, <1>5, <1>6, <1>7, <1>8, <1>9, <1>10

(* So does a manifest that arrives.                                        *)
LEMMA ManifestKeeps ==
  ASSUME SessionInv, NEW g \in Gens,
         ManifestArrives(g)
  PROVE  Progress'
<1>1. Parses(g) /\ FieldTypes
  BY ManifestEffect, Fields DEF SessionInv, Progress
<1> USE <1>1 DEF SessionInv, Progress, FieldTypes, Parses
<1>2. Begun'
  BY DEF Begun, Gens, ManifestAsked, Kinds, Answered, NoSeekNow
<1>3. ManifestAsked'
  BY DEF ManifestAsked, Gens, Kinds, Answered, NoSeekNow
<1>4. Startup'
  BY DEF Startup, Answered, NoSeekNow
<1>5. Gone'
  BY DEF Gone, Startup, Begun, Gens, ManifestAsked, Kinds, Answered,
         NoSeekNow
<1>6. Announced' /\ NoStrandedRequest'
  BY DEF Announced, NoStrandedRequest
<1>7. SeekTold'
  BY DEF SeekTold, Begun, Startup, Attachable, Announced, ManifestAsked
<1>8. SeekPending'
  BY DEF SeekPending, Answered, NoSeekNow
<1>9. EveryWaiterDecided'
  BY DEF EveryWaiterDecided, Answered, NoSeekNow
<1>10. OutcomeAnnounced'
  BY DEF OutcomeAnnounced, Answered, NoSeekNow
<1> QED BY <1>2, <1>3, <1>4, <1>5, <1>6, <1>7, <1>8, <1>9, <1>10

(* So does a provider's answer.                                            *)
LEMMA ProviderKeeps ==
  ASSUME SessionInv, NEW g \in Gens,
         ProviderLoaded(g) \/ ProviderFails(g)
  PROVE  Progress'
<1>1. Settles(g) /\ FieldTypes
  BY ProviderEffect, Fields DEF SessionInv, Progress
<1> USE <1>1 DEF SessionInv, Progress, FieldTypes, Settles
<1>2. Begun'
  BY DEF Begun, Answered, Over, NoSeekNow, AtMostRejected, NoneHeld
<1>3. ManifestAsked'
  BY DEF ManifestAsked, Gens, Kinds, Answered, Over, NoSeekNow,
         AtMostRejected, NoneHeld
<1>4. Startup'
  BY DEF Startup, Answered, Over, NoSeekNow, AtMostRejected, NoneHeld
<1>5. Gone'
  BY DEF Gone, Gens, Answered, Over, NoSeekNow, AtMostRejected, NoneHeld
<1>6. Announced'
  BY DEF Announced, Answered, Over, NoSeekNow, AtMostRejected, NoneHeld
<1>7. SeekTold'
  BY DEF SeekTold, Begun, Startup, Attachable, Announced, Answered, Over,
         NoSeekNow, AtMostRejected, NoneHeld
<1>8. SeekPending'
  BY DEF SeekPending, Answered, Over, NoSeekNow, AtMostRejected, NoneHeld
<1>9. NoStrandedRequest'
  BY DEF NoStrandedRequest, Answered, Over, NoSeekNow, AtMostRejected,
         NoneHeld
<1>10. EveryWaiterDecided'
  BY DEF EveryWaiterDecided, Begun, Startup, Announced, Gone, Gens,
         Answered, Over, NoSeekNow, AtMostRejected, NoneHeld
<1>11. OutcomeAnnounced'
  BY DEF OutcomeAnnounced, EveryWaiterDecided, Announced, Begun, Gens,
         Answered, Over, NoSeekNow, AtMostRejected, NoneHeld
<1> QED BY <1>2, <1>3, <1>4, <1>5, <1>6, <1>7, <1>8, <1>9, <1>10, <1>11

(* So does a request that fails.                                           *)
LEMMA FailsKeeps ==
  ASSUME SessionInv, NEW g \in Gens, NEW k \in Kinds,
         Fails(g, k)
  PROVE  Progress'
<1>1. Waits(g, k) /\ FieldTypes
  BY FailsEffect, Fields DEF SessionInv, Progress
<1> USE <1>1 DEF SessionInv, Progress, FieldTypes, Waits
<1>2. Begun' /\ Startup' /\ Gone' /\ Announced' /\ SeekPending'
      /\ EveryWaiterDecided' /\ OutcomeAnnounced'
  BY DEF Begun, Startup, Gone, Announced, SeekPending, EveryWaiterDecided,
         OutcomeAnnounced
<1>3. ManifestAsked'
  BY DEF ManifestAsked, Gens, Kinds
<1>4. SeekTold'
  BY DEF SeekTold, Begun, Startup, Attachable, Announced, Goes
<1>5. NoStrandedRequest'
  BY DEF NoStrandedRequest, Goes
<1> QED BY <1>2, <1>3, <1>4, <1>5

(* So does a request that is rejected.                                     *)
LEMMA RejectedKeeps ==
  ASSUME SessionInv, NEW g \in Gens, NEW k \in Kinds,
         Rejected(g, k)
  PROVE  Progress'
<1>1. Reacts(g, k) /\ FieldTypes
  BY RejectedEffect, Fields DEF SessionInv, Progress
<1> USE <1>1 DEF SessionInv, Progress, FieldTypes, Reacts
<1>2. Begun'
  BY DEF Begun, Gens, ManifestAsked, Kinds, Answered, Over, NoSeekNow,
         NoneHeld, Goes
<1>3. ManifestAsked'
  BY DEF ManifestAsked, Gens, Kinds, Answered, Over, NoSeekNow, NoneHeld,
         Goes
<1>4. Startup'
  BY DEF Startup, Answered, Over, NoSeekNow, NoneHeld, Goes
<1>5. Gone'
  BY DEF Gone, Startup, Begun, Gens, ManifestAsked, Kinds, Answered, Over,
         NoSeekNow, NoneHeld, Goes
<1>6. Announced'
  BY DEF Announced, Answered, Over, NoSeekNow, NoneHeld, Goes
<1>7. SeekTold'
  BY DEF SeekTold, Begun, Startup, Attachable, Announced, ManifestAsked,
         Kinds, Answered, Over, NoSeekNow, NoneHeld, Goes
<1>8. SeekPending'
  BY DEF SeekPending, Answered, Over, NoSeekNow, NoneHeld, Goes
<1>9. NoStrandedRequest'
  BY DEF NoStrandedRequest, Answered, Over, NoSeekNow, NoneHeld, Goes
<1>10. EveryWaiterDecided'
  BY DEF EveryWaiterDecided, Answered, Over, NoSeekNow, NoneHeld, Goes
<1>11. OutcomeAnnounced'
  BY DEF OutcomeAnnounced, EveryWaiterDecided, Announced, Begun, Gens,
         ManifestAsked, Kinds, Answered, Over, NoSeekNow, NoneHeld, Goes
<1> QED BY <1>2, <1>3, <1>4, <1>5, <1>6, <1>7, <1>8, <1>9, <1>10, <1>11

(* So does a request that succeeds or is issued.                           *)
LEMMA TrafficKeeps ==
  ASSUME SessionInv,
         (\E g \in Gens, k \in Kinds : Succeeds(g, k)) \/ \E k \in
         {"meta", "media"} : Issue(k)
  PROVE  Progress'
<1>1. Passes /\ FieldTypes
  BY TrafficEffect, Fields DEF SessionInv, Progress
<1> USE <1>1 DEF SessionInv, Progress, FieldTypes, Passes
<1>2. Begun' /\ Startup' /\ Gone' /\ Announced' /\ SeekPending'
      /\ NoStrandedRequest' /\ EveryWaiterDecided' /\ OutcomeAnnounced'
  BY DEF Begun, Startup, Gone, Announced, SeekPending, NoStrandedRequest,
         EveryWaiterDecided, OutcomeAnnounced
<1>3. ManifestAsked'
  BY DEF ManifestAsked, Gens, Kinds
<1>4. SeekTold'
  BY DEF SeekTold, Begun, Startup, Attachable, Announced
<1> QED BY <1>2, <1>3, <1>4

(* So do the probe and the token.                                          *)
LEMMA ServerKeeps ==
  ASSUME SessionInv,
         ProbeOk \/ ProbeFails \/ ProbeAgain \/ TokenRefreshed \/
         TokenDeferred \/ AuthExpired
  PROVE  Progress'
<1>1. Asks /\ FieldTypes
  BY ServerEffect, Fields DEF SessionInv, Progress
<1> USE <1>1 DEF SessionInv, Progress, FieldTypes, Asks
<1>2. Begun'
  BY DEF Begun, rest, NoneHeld
<1>3. ManifestAsked'
  BY DEF ManifestAsked, Gens, Kinds, rest, NoneHeld
<1>4. Startup'
  BY DEF Startup, rest, NoneHeld
<1>5. Gone'
  BY DEF Gone, rest, NoneHeld
<1>6. Announced'
  BY DEF Announced, rest, NoneHeld
<1>7. SeekTold'
  BY DEF SeekTold, Begun, Startup, Attachable, Announced, rest, NoneHeld
<1>8. SeekPending'
  BY DEF SeekPending, rest, NoneHeld
<1>9. NoStrandedRequest'
  BY DEF NoStrandedRequest, rest, NoneHeld
<1>10. EveryWaiterDecided'
  BY DEF EveryWaiterDecided, rest, NoneHeld
<1>11. OutcomeAnnounced'
  BY DEF OutcomeAnnounced, rest, NoneHeld
<1> QED BY <1>2, <1>3, <1>4, <1>5, <1>6, <1>7, <1>8, <1>9, <1>10, <1>11

(* So do the steps of a seek.                                              *)
LEMMA SeekKeeps ==
  ASSUME SessionInv,
         BeginSeek \/ SeekBuffered \/ EndSeek \/ CancelSeek
  PROVE  Progress'
<1>1. Seeks /\ FieldTypes
  BY SeekEffect, Fields DEF SessionInv, Progress
<1> USE <1>1 DEF SessionInv, Progress, FieldTypes, Seeks
<1>2. Begun' /\ ManifestAsked' /\ Startup' /\ Announced' /\ SeekTold'
      /\ SeekPending' /\ NoStrandedRequest' /\ EveryWaiterDecided'
      /\ OutcomeAnnounced'
  BY DEF Begun, ManifestAsked, Startup, Announced, SeekTold, SeekPending,
         NoStrandedRequest, EveryWaiterDecided, OutcomeAnnounced
<1>3. Gone'
  BY DEF Gone, Startup, Begun
<1> QED BY <1>2, <1>3

(* Every step keeps the types of the flags.                                *)
LEMMA FlagsStayTyped ==
  ASSUME Types, [Next]_sessionVars
  PROVE  FlagsTyped'
<1> USE DEF Types, FlagsTyped, States
<1>1. CASE Load
  BY <1>1 DEF Load
<1>2. CASE Unload
  BY <1>2 DEF Unload, StopServerDown
<1>3. CASE Destroy
  BY <1>3 DEF Destroy, StopServerDown
<1>4. CASE Attach
  BY <1>4 DEF Attach, netvars
<1>5. CASE BufferReady
  BY <1>5 DEF BufferReady, netvars
<1>6. CASE StartupTimeout
  BY <1>6 DEF StartupTimeout, Terminal, StopServerDown
<1>7. CASE VideoError
  BY <1>7 DEF VideoError, Terminal, StopServerDown
<1>8. CASE RuntimeTerminal
  BY <1>8 DEF RuntimeTerminal, Terminal, StopServerDown
<1>9. CASE Stall
  BY <1>9, DownEffect DEF Stall, netvars
<1>10. CASE (\E g \in Gens : StartNative(g)) \/
           (\E g \in Gens : ManifestArrives(g)) \/
           (\E g \in Gens, k \in Kinds : Succeeds(g, k)) \/
           (\E k \in {"meta", "media"} : Issue(k))
  <2>1. ASSUME NEW g \in Gens, StartNative(g) PROVE FlagsTyped'
    BY <2>1 DEF StartNative, netvars
  <2>2. ASSUME NEW g \in Gens, ManifestArrives(g) PROVE FlagsTyped'
    BY <2>2 DEF ManifestArrives, netvars
  <2>3. ASSUME NEW g \in Gens, NEW k \in Kinds, Succeeds(g, k)
        PROVE  FlagsTyped'
    BY <2>3 DEF Succeeds, netvars
  <2>4. ASSUME NEW k \in {"meta", "media"}, Issue(k) PROVE FlagsTyped'
    BY <2>4 DEF Issue, netvars
  <2> QED BY <1>10, <2>1, <2>2, <2>3, <2>4
<1>11. ASSUME NEW g \in Gens, ProviderLoaded(g) PROVE FlagsTyped'
  BY <1>11 DEF ProviderLoaded, LoadFails, Terminal, StopServerDown
<1>12. ASSUME NEW g \in Gens, ProviderFails(g) PROVE FlagsTyped'
  BY <1>12 DEF ProviderFails, LoadFails, Terminal, StopServerDown
<1>13. ASSUME NEW g \in Gens, NEW k \in Kinds, Fails(g, k) PROVE FlagsTyped'
  BY <1>13, DownEffect DEF Fails, netvars
<1>14. ASSUME NEW g \in Gens, NEW k \in Kinds, Rejected(g, k)
      PROVE  FlagsTyped'
  BY <1>14, DownEffect
  DEF Rejected, LoadFails, Terminal, StopServerDown, netvars
<1>15. CASE ProbeOk \/ TokenRefreshed
  BY <1>15 DEF ProbeOk, ExitServerDown, StopServerDown, TokenRefreshed, rest
<1>16. CASE ProbeFails \/ ProbeAgain \/ TokenDeferred
  BY <1>16 DEF ProbeFails, ProbeAgain, TokenDeferred, rest
<1>17. CASE AuthExpired
  BY <1>17 DEF AuthExpired, StopServerDown, rest
<1>18. CASE BeginSeek
  BY <1>18 DEF BeginSeek, SeekStep, netvars
<1>19. CASE SeekBuffered
  BY <1>19 DEF SeekBuffered, SeekStep, FinalState, netvars
<1>20. CASE EndSeek
  BY <1>20 DEF EndSeek, SeekStep, FinalState, netvars
<1>21. CASE CancelSeek
  BY <1>21 DEF CancelSeek, SeekStep, netvars
<1>22. CASE UNCHANGED sessionVars
  BY <1>22 DEF sessionVars
<1> QED BY <1>1, <1>2, <1>3, <1>4, <1>5, <1>6, <1>7, <1>8, <1>9, <1>10,
           <1>11, <1>12, <1>13, <1>14, <1>15, <1>16, <1>17, <1>18, <1>19,
           <1>20, <1>21, <1>22 DEF Next

(* The invariant is inductive.                                             *)
LEMMA SessionInvKept ==
  ASSUME SessionInv, [Next]_sessionVars
  PROVE  SessionInv'
<1>1. Types'
  BY DataStaysTyped, FlagsStayTyped DEF SessionInv, Progress, Types
<1>2. CASE Next
  BY <1>1, <1>2, LoadKeeps, CloseKeeps, AttachKeeps, ReadyKeeps, FailKeeps,
     StallKeeps, NativeKeeps, ManifestKeeps, ProviderKeeps, FailsKeeps,
     RejectedKeeps, TrafficKeeps, ServerKeeps, SeekKeeps
  DEF Next, SessionInv
<1>3. CASE UNCHANGED sessionVars
  <2>1. Begun' /\ ManifestAsked' /\ Startup' /\ Gone' /\ Announced'
    BY <1>3 DEF sessionVars, SessionInv, Progress, Begun, ManifestAsked,
       Startup, Gone, Announced
  <2>2. SeekTold' /\ SeekPending' /\ NoStrandedRequest'
    BY <1>3 DEF sessionVars, SessionInv, Progress, SeekTold, SeekPending,
       NoStrandedRequest, Attachable
  <2>3. EveryWaiterDecided' /\ OutcomeAnnounced'
    BY <1>3 DEF sessionVars, SessionInv, Progress, EveryWaiterDecided,
       OutcomeAnnounced
  <2> QED BY <1>1, <2>1, <2>2, <2>3 DEF SessionInv, Progress
<1> QED BY <1>2, <1>3

(* It holds at the start.                                                  *)
LEMMA SessionInvStarts ==
  ASSUME Init
  PROVE  SessionInv
<1>1. DataTyped
  <2>1. call \in Promises /\ req \in Requests
    BY Names DEF Init, Promises, Requests, Idle
  <2>2. txn \in Starts /\ provider \in Providers /\ seek \in SeekOps
    <3>1. NoTxn \in Starts
      BY Bounds DEF NoTxn, Starts
    <3>2. NoProvider \in Providers
      BY Bounds DEF NoProvider, Providers
    <3>3. NoSeek \in SeekOps
      BY DEF NoSeek, SeekOps
    <3> QED BY <3>1, <3>2, <3>3 DEF Init
  <2> QED BY <2>1, <2>2, Bounds DEF Init, DataTyped
<1>2. FlagsTyped
  BY DEF Init, FlagsTyped, States
<1>3. Begun /\ ManifestAsked /\ Startup /\ Gone /\ Announced
  BY DEF Init, Begun, ManifestAsked, Startup, Gone, Announced, Gens, Kinds,
     NoTxn, NoProvider, Idle
<1>4. SeekTold /\ SeekPending /\ NoStrandedRequest
  BY DEF Init, SeekTold, SeekPending, NoStrandedRequest, NoProvider, NoSeek,
     Idle
<1>5. EveryWaiterDecided /\ OutcomeAnnounced
  BY DEF Init, EveryWaiterDecided, OutcomeAnnounced
<1> QED BY <1>1, <1>2, <1>3, <1>4, <1>5 DEF SessionInv, Progress, Types

(* It implies the property the run checks.                                 *)
LEMMA SessionInvSuffices ==
  ASSUME SessionInv
  PROVE  SessionSafe
<1>1. FieldTypes
  BY Fields DEF SessionInv
<1>2. TypeOK
  BY <1>1 DEF SessionInv, Progress, Types, DataTyped, FlagsTyped, States,
     Begun, Gone, SeekPending, Startup, TypeOK, FieldTypes
<1>3. downs = 0 => SeekingMeansSeek
  BY <1>1 DEF SessionInv, Progress, SeekTold, SeekingMeansSeek, FieldTypes
<1> QED BY <1>2, <1>3 DEF SessionInv, Progress, SessionSafe

(* However loads, outages, seeks and failures interleave, no request is    *)
(* left waiting for a server nobody looks for, each load() that waits has  *)
(* a running deadline on its own start, what its promise says has been     *)
(* announced, and before any outage a seek is reported no longer than it   *)
(* lasts.                                                                  *)
THEOREM SessionIsSafe == Spec => []SessionSafe
<1>1. Init => SessionInv
  BY SessionInvStarts
<1>2. SessionInv /\ [Next]_sessionVars => SessionInv'
  BY SessionInvKept
<1>3. SessionInv => SessionSafe
  BY SessionInvSuffices
<1> QED BY <1>1, <1>2, <1>3, PTL DEF Spec

-----------------------------------------------------------------------------
(* What a step may do about the load of another generation.                *)
Inert ==
  /\ \A g \in Gens : g < gen /\ gen' = gen /\ call'[g] # call[g] =>
       /\ call'[g] = "aborted"
       /\ UNCHANGED <<state, txn, termGen, provider, serverDown>>
  /\ readies' \cap terminals \subseteq readies

(* A step of an outdated call changes nothing of the current one.          *)
LEMMA StepsAreInert ==
  ASSUME SessionInv, [Next]_sessionVars
  PROVE  Inert
<1>1. Types /\ Begun /\ Startup /\ Announced /\ FieldTypes
  BY Fields DEF SessionInv, Progress
<1>2. CASE Load
  <2>1. Loads
    BY <1>1, <1>2, LoadEffect
  <2> QED BY <1>1, <2>1
          DEF Loads, Inert, FieldTypes, Gens
<1>3. CASE Unload \/ Destroy
  <2>1. Closes
    BY <1>1, <1>3, CloseEffect
  <2> QED BY <1>1, <2>1
          DEF Closes, Inert, FieldTypes, Gens
<1>4. CASE Attach
  <2>1. Attaches
    BY <1>1, <1>4, AttachEffect
  <2> QED BY <1>1, <2>1
          DEF Attaches, Inert, FieldTypes, Gens
<1>5. CASE BufferReady
  <2>1. Plays
    BY <1>1, <1>5, ReadyEffect
  <2> QED BY <1>1, <2>1
          DEF Plays, Inert, FieldTypes, Gens, Attachable, Announced
<1>6. CASE StartupTimeout \/ VideoError \/ RuntimeTerminal
  <2>1. Breaks
    BY <1>1, <1>6, FailEffect
  <2> QED BY <1>1, <2>1
          DEF Breaks, Inert, FieldTypes, Gens
<1>7. CASE Stall
  <2>1. Stalls
    BY <1>1, <1>7, StallEffect
  <2> QED BY <1>1, <2>1
          DEF Stalls, Inert, FieldTypes, Gens
<1>8. ASSUME NEW g \in Gens, StartNative(g)
      PROVE  Inert
  <2>1. Opens(g)
    BY <1>1, <1>8, NativeEffect
  <2> QED BY <1>1, <2>1
          DEF Opens, Inert, FieldTypes, Gens, Answered
<1>9. ASSUME NEW g \in Gens, ManifestArrives(g)
      PROVE  Inert
  <2>1. Parses(g)
    BY <1>1, <1>9, ManifestEffect
  <2> QED BY <1>1, <2>1
          DEF Parses, Inert, FieldTypes, Gens, Answered
<1>10. ASSUME NEW g \in Gens, ProviderLoaded(g) \/ ProviderFails(g)
      PROVE  Inert
  <2>1. Settles(g)
    BY <1>1, <1>10, ProviderEffect
  <2> QED BY <1>1, <2>1
          DEF Settles, Inert, FieldTypes, Gens, Answered
<1>11. ASSUME NEW g \in Gens, NEW k \in Kinds, Fails(g, k)
      PROVE  Inert
  <2>1. Waits(g, k)
    BY <1>1, <1>11, FailsEffect
  <2> QED BY <1>1, <2>1
          DEF Waits, Inert, FieldTypes, Gens
<1>12. ASSUME NEW g \in Gens, NEW k \in Kinds, Rejected(g, k)
      PROVE  Inert
  <2>1. Reacts(g, k)
    BY <1>1, <1>12, RejectedEffect
  <2> QED BY <1>1, <2>1
          DEF Reacts, Inert, FieldTypes, Gens, Answered
<1>13. CASE \/ \E g \in Gens, k \in Kinds : Succeeds(g, k)
           \/ \E k \in {"meta", "media"} : Issue(k)
  <2>1. Passes
    BY <1>1, <1>13, TrafficEffect
  <2> QED BY <1>1, <2>1
          DEF Passes, Inert, FieldTypes, Gens
<1>14. CASE ProbeOk \/ ProbeFails \/ ProbeAgain \/ TokenRefreshed \/
           TokenDeferred \/ AuthExpired
  <2>1. Asks
    BY <1>1, <1>14, ServerEffect
  <2> QED BY <1>1, <2>1
          DEF Asks, Inert, FieldTypes, Gens, rest
<1>15. CASE BeginSeek \/ SeekBuffered \/ EndSeek \/ CancelSeek
  <2>1. Seeks
    BY <1>1, <1>15, SeekEffect
  <2> QED BY <1>1, <2>1
          DEF Seeks, Inert, FieldTypes, Gens
<1>16. CASE UNCHANGED sessionVars
  BY <1>16 DEF sessionVars, Inert
<1> QED BY <1>2, <1>3, <1>4, <1>5, <1>6, <1>7, <1>8, <1>9, <1>10, <1>11,
           <1>12, <1>13, <1>14, <1>15, <1>16
    DEF Next

(* The continuation of an outdated load() ends its own promise and touches *)
(* nothing of the session that replaced it, and a generation that failed   *)
(* is not announced ready afterwards.                                      *)
THEOREM OutdatedCallsAreInert == Spec => OutdatedCallIsInert
<1>1. Init => SessionInv
  BY SessionInvStarts
<1>2. SessionInv /\ [Next]_sessionVars => SessionInv'
  BY SessionInvKept
<1>3. SessionInv /\ [Next]_sessionVars => [Inert]_sessionVars
  BY StepsAreInert
<1> QED BY <1>1, <1>2, <1>3, PTL DEF Spec, OutdatedCallIsInert, Inert
=============================================================================
