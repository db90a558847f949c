--------------------------- MODULE PlayerSession ---------------------------
(* The control state of the browser player (PlayerEngine in               *)
(* src/public/native-player-engine.js): overlapping load() calls, the     *)
(* startup transaction that decides them, terminal errors, seek            *)
(* operations, requests that are held while the server is down, the HEAD   *)
(* probe and the token refresh.  Every load() or unload() starts a new     *)
(* generation; what is pending of an older one is checked against it when  *)
(* it continues.  A request that is aborted or rejected is "rejected"      *)
(* until its promise reaction runs.                                        *)
EXTENDS Integers, FiniteSets

CONSTANTS MaxGen,    \* bound: generations (loads, unloads, the destroy)
          MaxHolds,  \* MAX_NETWORK_HOLD_CYCLES
          MaxSeeks,  \* bound: seek operations of one provider
          MaxDown    \* bound: times the server is seen going down

ASSUME SessionAssumption ==
  MaxGen \in Nat /\ MaxHolds \in Nat /\ MaxSeeks \in Nat /\ MaxDown \in Nat

VARIABLES gen, state, recovering, serverDown, destroyed,
          txn,       \* the startup transaction
          termGen,   \* generation of _terminalError, 0 if none
          provider,  \* [gen, kind, quiesced, complete]; gen 0: no provider
          seek,      \* seek operation of the provider
          call,      \* progress of each load() promise
          req,       \* requests by generation and kind
          probe, refresh,
          downs,     \* outages so far
          readies, terminals  \* generations announced ready, failed

netvars == <<serverDown, probe, downs>>
sessionVars == <<gen, state, recovering, serverDown, destroyed, txn, termGen,
                 provider, seek, call, req, probe, refresh, downs, readies,
                 terminals>>

Gens == 1..MaxGen
Kinds == {"manifest", "meta", "media"}
NoTxn == [gen |-> 0, attached |-> FALSE, settled |-> TRUE, ready |-> FALSE,
          timer |-> FALSE]
NewTxn(g) == [NoTxn EXCEPT !.gen = g, !.settled = FALSE]
NoSeek == [count |-> 0, active |-> 0, buf |-> FALSE, inter |-> FALSE]
NoProvider == [gen |-> 0, kind |-> "none", quiesced |-> FALSE,
               complete |-> FALSE]
Idle == [st |-> "none", holds |-> 0]

Init == /\ gen = 0 /\ state = "idle" /\ termGen = 0 /\ probe = "none"
        /\ recovering = FALSE /\ serverDown = FALSE /\ destroyed = FALSE
        /\ txn = NoTxn /\ provider = NoProvider /\ seek = NoSeek
        /\ call = [g \in Gens |-> "none"]
        /\ req = [g \in Gens |-> [k \in Kinds |-> Idle]]
        /\ refresh = FALSE /\ downs = 0 /\ readies = {} /\ terminals = {}

-----------------------------------------------------------------------------
(* Helpers that describe one part of the next state.                       *)

(* _enterServerDown: only once, and never after destroy().                 *)
EnterServerDown ==
  IF serverDown \/ destroyed THEN UNCHANGED netvars
  ELSE /\ downs < MaxDown /\ downs' = downs + 1
       /\ serverDown' = TRUE /\ probe' = "flight"

StopServerDown == serverDown' = FALSE /\ probe' = "none"

(* The provider that quiesces aborts its own requests (of r); one that is  *)
(* held is rejected only if the held list is cleared as well.              *)
Aborts(r, g, k) == g = provider.gen /\ k # "manifest" /\ r[g][k].st = "flight"
Quiesced(r, clearHeld) ==
  [g \in Gens |-> [k \in Kinds |->
    IF Aborts(r, g, k) \/ (clearHeld /\ r[g][k].st = "held")
    THEN [r[g][k] EXCEPT !.st = "rejected"] ELSE r[g][k]]]

(* invalidateSeekOperation. *)
InvalidSeek == [seek EXCEPT !.active = 0, !.buf = FALSE, !.inter = FALSE]

(* A waiter of the transaction is told that it was superseded. *)
CancelWaiter == IF gen \in Gens /\ call[gen] = "waiting"
                THEN [call EXCEPT ![gen] = "aborted"] ELSE call

(* _completeNativeTerminalError for the current generation; c and r are     *)
(* what has become of the calls and requests.  A call that waits fails.     *)
FailWaiter(c) == [g \in Gens |-> IF g = gen /\ c[g] = "waiting"
                                 THEN "failed" ELSE c[g]]
Terminal(c, r) ==
  /\ call' = FailWaiter(c)
  /\ IF termGen = gen
     THEN /\ req' = r
          /\ UNCHANGED <<state, recovering, serverDown, txn, termGen,
                         provider, seek, probe, terminals>>
     ELSE /\ termGen' = gen /\ terminals' = terminals \cup {gen}
          /\ txn' = IF txn.gen = gen
                    THEN [txn EXCEPT !.settled = TRUE, !.timer = FALSE]
                    ELSE txn
          /\ provider' = [provider EXCEPT !.quiesced = provider.gen # 0]
          /\ seek' = IF provider.gen # 0 /\ ~provider.quiesced
                     THEN InvalidSeek ELSE seek
          /\ recovering' = FALSE /\ state' = "error"
          /\ StopServerDown /\ req' = Quiesced(r, TRUE)

(* Fault: the generation of the failing call is not checked. *)
LoadFails_OfAnyGeneration(g, r) == Terminal([call EXCEPT ![g] = "failed"], r)

(* The catch of load(): an outdated call is aborted and changes nothing    *)
(* else, the current one ends in a terminal error.                         *)
LoadFails(g, r) ==
  IF g # gen
  THEN /\ call' = [call EXCEPT ![g] = "aborted"] /\ req' = r
       /\ UNCHANGED <<state, recovering, serverDown, txn, termGen, provider,
                      seek, probe, terminals>>
  ELSE Terminal([call EXCEPT ![g] = "failed"], r)

(* Fault: only the half that ends last in the usual order reports. *)
FinalState_OnInteraction(sk) ==
  IF sk.active > 0 /\ ~sk.buf /\ seek.inter /\ ~sk.inter THEN "ready" ELSE state

(* finalizeSeekOperation: both halves of the seek are over. *)
FinalState(sk) ==
  IF /\ sk.active > 0 /\ ~sk.buf /\ ~sk.inter
     /\ ~provider.quiesced /\ ~serverDown /\ state \notin {"error", "destroyed"}
  THEN "ready" ELSE state

-----------------------------------------------------------------------------
(* load(), unload() and destroy().                                         *)

Load == /\ ~destroyed /\ gen < MaxGen
        /\ gen' = gen + 1
        /\ txn' = NewTxn(gen + 1) /\ termGen' = 0 /\ state' = "loading"
        /\ call' = [CancelWaiter EXCEPT ![gen + 1] = "starting"]
        /\ UNCHANGED <<recovering, serverDown, destroyed, provider, seek, req,
                       probe, refresh, downs, readies, terminals>>

(* The first reaction of load(): the old provider is destroyed, then a     *)
(* media URL is opened at once or the manifest is asked for.               *)
StartNative(g) ==
  /\ call[g] = "starting"
  /\ IF g # gen
     THEN /\ call' = [call EXCEPT ![g] = "aborted"]
          /\ UNCHANGED <<provider, seek, req>>
     ELSE \/ /\ call' = [call EXCEPT ![g] = "manifest"]
             /\ provider' = NoProvider /\ seek' = NoSeek
             /\ req' = [Quiesced(req, FALSE) EXCEPT ![g]["manifest"].st =
                                                      "flight"]
          \/ /\ call' = [call EXCEPT ![g] = "provider"] /\ seek' = NoSeek
             /\ provider' = [NoProvider EXCEPT !.gen = g, !.kind = "url"]
             /\ req' = Quiesced(req, FALSE)
  /\ UNCHANGED <<gen, state, recovering, destroyed, txn, termGen, refresh,
                 readies, terminals, netvars>>

Unload ==
  /\ ~destroyed /\ gen < MaxGen
  /\ gen' = gen + 1
  /\ txn' = [txn EXCEPT !.settled = TRUE, !.timer = FALSE]
  /\ call' = CancelWaiter /\ termGen' = 0 /\ state' = "idle"
  /\ recovering' = FALSE /\ provider' = NoProvider /\ seek' = NoSeek
  /\ StopServerDown /\ req' = Quiesced(req, TRUE)
  /\ UNCHANGED <<destroyed, refresh, downs, readies, terminals>>

Destroy ==
  /\ ~destroyed /\ gen < MaxGen
  /\ gen' = gen + 1
  /\ txn' = [txn EXCEPT !.settled = TRUE, !.timer = FALSE]
  /\ call' = CancelWaiter /\ destroyed' = TRUE /\ state' = "destroyed"
  /\ recovering' = FALSE /\ provider' = NoProvider /\ seek' = NoSeek
  /\ StopServerDown /\ req' = Quiesced(req, TRUE)
  /\ UNCHANGED <<termGen, refresh, downs, readies, terminals>>

-----------------------------------------------------------------------------
(* The manifest and the provider built from it.                            *)

(* Fault: the provider of an outdated manifest is installed. *)
ManifestArrives_Unchecked(g) ==
  /\ req[g]["manifest"].st = "flight"
  /\ req' = [req EXCEPT ![g]["manifest"].st = "none"]
  /\ call' = [call EXCEPT ![g] = "provider"]
  /\ \E kind \in {"mse", "url"} :
       provider' = [NoProvider EXCEPT !.gen = g, !.kind = kind]
  /\ seek' = NoSeek
  /\ UNCHANGED <<gen, state, recovering, destroyed, txn, termGen, refresh,
                 readies, terminals, netvars>>

(* A good manifest makes an MSE or a URL provider; a JSON answer without a *)
(* format rejects the call with a server error and nothing else.           *)
ManifestArrives(g) ==
  /\ req[g]["manifest"].st = "flight"
  /\ req' = [req EXCEPT ![g]["manifest"].st = "none"]
  /\ IF g # gen
     THEN /\ call' = [call EXCEPT ![g] = "aborted"]
          /\ UNCHANGED <<provider, seek>>
     ELSE \/ /\ call' = [call EXCEPT ![g] = "provider"]
             /\ \E kind \in {"mse", "url"} :
                  provider' = [NoProvider EXCEPT !.gen = g, !.kind = kind]
             /\ seek' = NoSeek
          \/ /\ call' = [call EXCEPT ![g] = "unavailable"]
             /\ UNCHANGED <<provider, seek>>
  /\ UNCHANGED <<gen, state, recovering, destroyed, txn, termGen, refresh,
                 readies, terminals, netvars>>

(* _markStartupAttached by the provider p: arms the deadline.              *)
Attachable == /\ provider.gen = gen /\ txn.gen = gen
              /\ ~txn.settled /\ ~destroyed
(* Fault: the start is attached without its deadline. *)
Attach_NoDeadline ==
  /\ provider.gen # 0 /\ ~provider.quiesced /\ call[provider.gen] = "provider"
  /\ Attachable /\ ~txn.attached
  /\ txn' = [txn EXCEPT !.attached = TRUE]
  /\ state' = IF state = "loading" THEN "buffering" ELSE state
  /\ UNCHANGED <<gen, recovering, destroyed, termGen, provider, seek, call,
                 req, refresh, readies, terminals, netvars>>

Attach ==
  /\ provider.gen # 0 /\ ~provider.quiesced /\ call[provider.gen] = "provider"
  /\ Attachable /\ ~txn.attached
  /\ txn' = [txn EXCEPT !.attached = TRUE, !.timer = TRUE]
  /\ state' = IF state = "loading" THEN "buffering" ELSE state
  /\ UNCHANGED <<gen, recovering, destroyed, termGen, provider, seek, call,
                 req, refresh, readies, terminals, netvars>>

(* provider.load() of call g resolves: an outdated call is aborted, one    *)
(* with a terminal error or a failed start rejects, one whose start is     *)
(* over is done and the others wait for it (waitForStartupReady).          *)
ProviderLoaded(g) ==
  /\ call[g] = "provider"
  /\ IF g # gen
     THEN /\ call' = [call EXCEPT ![g] = "aborted"]
          /\ UNCHANGED <<state, recovering, serverDown, txn, termGen,
                         provider, seek, req, probe, terminals>>
     ELSE /\ txn.attached \/ txn.settled
          /\ IF g \in readies \/ ~txn.settled
             THEN /\ call' = [call EXCEPT ![g] = IF g \in readies
                                THEN "done" ELSE "waiting"]
                  /\ UNCHANGED <<state, recovering, serverDown, txn, termGen,
                                 provider, seek, req, probe, terminals>>
             ELSE LoadFails(g, req)
  /\ UNCHANGED <<gen, destroyed, refresh, downs, readies>>

(* provider.load() rejects; one of a quiesced provider is aborted.         *)
ProviderFails(g) ==
  /\ call[g] = "provider"
  /\ IF provider.gen # g \/ provider.quiesced
     THEN /\ call' = [call EXCEPT ![g] = "aborted"]
          /\ UNCHANGED <<state, recovering, serverDown, txn, termGen,
                         provider, seek, req, probe, terminals>>
     ELSE LoadFails(g, req)
  /\ UNCHANGED <<gen, destroyed, refresh, downs, readies>>

(* Fault: a settled start is announced ready all the same. *)
BufferReady_AfterSettled ==
  /\ provider.gen # 0 /\ ~provider.quiesced /\ ~provider.complete
  /\ provider.gen = gen /\ txn.attached
  /\ provider' = [provider EXCEPT !.complete = TRUE]
  /\ txn' = [txn EXCEPT !.settled = TRUE, !.ready = TRUE, !.timer = FALSE]
  /\ recovering' = FALSE /\ state' = "ready"
  /\ readies' = readies \cup {gen}
  /\ call' = IF call[gen] = "waiting"
             THEN [call EXCEPT ![gen] = "done"] ELSE call
  /\ UNCHANGED <<gen, destroyed, termGen, seek, req, refresh, terminals,
                 netvars>>

(* markStartupBufferReady and _markStartupReady: the buffer of the current *)
(* provider reaches the startup goal; readiness is announced once, unless  *)
(* the start was settled otherwise.                                        *)
BufferReady ==
  /\ provider.gen # 0 /\ ~provider.quiesced /\ ~provider.complete
  /\ txn.attached
  /\ provider' = [provider EXCEPT !.complete = TRUE]
  /\ IF Attachable
     THEN /\ txn' = [txn EXCEPT !.settled = TRUE, !.ready = TRUE,
                                !.timer = FALSE]
          /\ recovering' = FALSE
          /\ state' = IF serverDown \/ seek.buf \/ seek.inter
                      THEN state ELSE "ready"
          /\ readies' = readies \cup {gen}
          /\ call' = IF call[gen] = "waiting"
                     THEN [call EXCEPT ![gen] = "done"] ELSE call
     ELSE UNCHANGED <<txn, recovering, state, readies, call>>
  /\ UNCHANGED <<gen, destroyed, termGen, seek, req, refresh, terminals,
                 netvars>>

(* The deadline of the start: the waiting call fails; a call that does not *)
(* wait yet finds the error when its provider has loaded.                  *)
StartupTimeout ==
  /\ txn.timer
  /\ IF call[gen] = "waiting"
     THEN Terminal(call, req)
     ELSE /\ txn' = [txn EXCEPT !.settled = TRUE, !.timer = FALSE]
          /\ recovering' = TRUE /\ state' = "recovering"
          /\ UNCHANGED <<call, serverDown, termGen, provider, seek, req,
                         probe, terminals>>
  /\ UNCHANGED <<gen, destroyed, refresh, downs, readies>>

(* The video element fails: an MSE provider switches representation, or    *)
(* has none left, which is a terminal error.                               *)
VideoError ==
  /\ provider.kind = "mse" /\ ~destroyed /\ ~serverDown /\ ~recovering
  /\ \/ /\ state' = IF txn.settled THEN "ready" ELSE "buffering"
        /\ UNCHANGED <<call, recovering, serverDown, txn, termGen, provider,
                       seek, req, probe, terminals>>
     \/ Terminal(call, req)
  /\ UNCHANGED <<gen, destroyed, refresh, downs, readies>>

(* A runtime failure of a live provider (appends, DRM, stalls, the second  *)
(* error of a media URL) is terminal.                                      *)
RuntimeTerminal ==
  /\ provider.gen # 0 /\ ~provider.quiesced /\ txn.attached
  /\ Terminal(call, req)
  /\ UNCHANGED <<gen, destroyed, refresh, downs, readies>>

-----------------------------------------------------------------------------
(* Requests that may be held, the probe and the token.                     *)

Owned(g, k) == \/ k = "manifest"
               \/ provider.gen = g /\ ~provider.quiesced

Issue(k) == /\ provider.kind = "mse" /\ ~provider.quiesced
            /\ req[provider.gen][k].st = "none"
            /\ req' = [req EXCEPT ![provider.gen][k] =
                         [Idle EXCEPT !.st = "flight"]]
            /\ UNCHANGED <<gen, state, recovering, destroyed, txn, termGen,
                           provider, seek, call, refresh, readies, terminals,
                           netvars>>

Succeeds(g, k) == /\ k # "manifest" /\ req[g][k].st = "flight"
                  /\ req' = [req EXCEPT ![g][k] = Idle]
                  /\ UNCHANGED <<gen, state, recovering, destroyed, txn,
                                 termGen, provider, seek, call, refresh,
                                 readies, terminals, netvars>>

(* Fault: the request is held without looking for the server. *)
Fails_NoProbe(g, k) ==
  /\ req[g][k].st = "flight"
  /\ req' = [req EXCEPT ![g][k].st = "held", ![g][k].holds = @ + 1]
  /\ UNCHANGED netvars
  /\ UNCHANGED <<gen, state, recovering, destroyed, txn, termGen, provider,
                 seek, call, refresh, readies, terminals>>

(* shouldHoldNetworkRequest: the last attempt of a media request forces    *)
(* the hold, the others are held only while the server is known down.      *)
Fails(g, k) ==
  /\ req[g][k].st = "flight"
  /\ \E forced \in (IF k = "media" THEN BOOLEAN ELSE {FALSE}),
        online \in BOOLEAN :
       IF /\ ~destroyed /\ online /\ req[g][k].holds < MaxHolds
          /\ forced \/ serverDown
       THEN /\ EnterServerDown
            /\ req' = [req EXCEPT ![g][k].st = "held",
                                  ![g][k].holds = @ + 1]
       ELSE /\ req' = [req EXCEPT ![g][k].st = "rejected"]
            /\ UNCHANGED netvars
  /\ UNCHANGED <<gen, state, recovering, destroyed, txn, termGen, provider,
                 seek, call, refresh, readies, terminals>>

(* The reaction of a rejected request: a metadata request reports the      *)
(* server down whatever the reason, a manifest fails its load, a media     *)
(* segment is left to the scheduler.                                       *)
Rejected(g, k) ==
  /\ req[g][k].st = "rejected"
  /\ LET r == [req EXCEPT ![g][k] = Idle]
     IN IF k = "manifest" THEN LoadFails(g, r) /\ UNCHANGED downs
        ELSE /\ req' = r
             /\ IF k = "meta" THEN EnterServerDown ELSE UNCHANGED netvars
             /\ UNCHANGED <<state, recovering, txn, termGen, provider, seek,
                            call, terminals>>
  /\ UNCHANGED <<gen, destroyed, refresh, readies>>

(* A stall that the provider cannot handle itself.                         *)
Stall == /\ provider.kind = "url" /\ state # "error" /\ ~serverDown
         /\ ~recovering /\ ~destroyed
         /\ EnterServerDown
         /\ UNCHANGED <<gen, state, recovering, destroyed, txn, termGen,
                        provider, seek, call, req, refresh, readies,
                        terminals>>

(* _exitServerDown: every held request is tried again, one of a provider   *)
(* that is gone finds its signal aborted.                                  *)
ExitServerDown ==
  /\ StopServerDown
  /\ req' = [g \in Gens |-> [k \in Kinds |->
              IF req[g][k].st # "held" THEN req[g][k]
              ELSE [req[g][k] EXCEPT !.st = IF Owned(g, k) THEN "flight"
                                            ELSE "rejected"]]]

rest == <<gen, state, recovering, destroyed, txn, termGen, provider, seek,
          call, downs, readies, terminals>>

(* Fault: the probe runs once. *)
ProbeFails_GivesUp == /\ probe = "flight" /\ probe' = "none"
                      /\ refresh' \in {refresh, TRUE}
                      /\ UNCHANGED <<serverDown, req>> /\ UNCHANGED rest

ProbeOk == /\ probe = "flight" /\ ExitServerDown
           /\ UNCHANGED refresh /\ UNCHANGED rest
ProbeFails == /\ probe = "flight" /\ probe' = "timer"
              /\ refresh' \in {refresh, TRUE}    \* a 401 asks for a token
              /\ UNCHANGED <<serverDown, req>> /\ UNCHANGED rest
ProbeEnds == ProbeOk \/ ProbeFails
ProbeAgain == /\ probe = "timer" /\ probe' = "flight"
              /\ UNCHANGED <<serverDown, req, refresh>> /\ UNCHANGED rest

TokenRefreshed == /\ refresh /\ refresh' = FALSE
                  /\ IF serverDown THEN ExitServerDown
                     ELSE UNCHANGED <<serverDown, probe, req>>
                  /\ UNCHANGED rest
TokenDeferred == /\ refresh /\ refresh' = FALSE
                 /\ UNCHANGED <<serverDown, probe, req>> /\ UNCHANGED rest
AuthExpired ==
  /\ refresh /\ refresh' = FALSE
  /\ IF destroyed THEN UNCHANGED <<serverDown, probe, req>>
     ELSE /\ StopServerDown
          /\ req' = [g \in Gens |-> [k \in Kinds |->
                      IF req[g][k].st = "held" THEN [req[g][k] EXCEPT !.st = "rejected"]
                      ELSE req[g][k]]]
  /\ UNCHANGED rest
-----------------------------------------------------------------------------
(* Seek operations, as the page's controls drive them.                     *)

SeekStep(sk, st) ==
  /\ seek' = sk /\ state' = st
  /\ UNCHANGED <<gen, recovering, destroyed, txn, termGen, provider, call,
                 req, refresh, readies, terminals, netvars>>

(* beginSeekOperation: another target starts a new operation, the same one *)
(* joins the pending one.                                                  *)
BeginSeek ==
  /\ ~destroyed /\ MaxSeeks > 0
  /\ IF provider.kind # "mse" THEN SeekStep(seek, "seeking")
     ELSE \/ /\ seek.count < MaxSeeks
             /\ SeekStep([count |-> seek.count + 1, active |-> seek.count + 1,
                          buf |-> TRUE, inter |-> TRUE], "seeking")
          \/ /\ seek.active > 0
             /\ seek.buf \/ seek.inter
             /\ SeekStep([seek EXCEPT !.inter = TRUE], "seeking")

(* completeSeekBuffer, from the buffer that holds the target already or    *)
(* from the milestone of the scheduler.                                    *)
SeekBuffered ==
  /\ provider.kind = "mse" /\ ~provider.quiesced
  /\ seek.active > 0 /\ seek.buf
  /\ LET sk == [seek EXCEPT !.buf = FALSE] IN SeekStep(sk, FinalState(sk))

(* finishSeekInteraction; a provider without seek operations is just ready.*)
EndSeek ==
  /\ ~destroyed /\ MaxSeeks > 0
  /\ IF provider.kind # "mse"
     THEN SeekStep(seek, IF serverDown THEN state ELSE "ready")
     ELSE /\ seek.active > 0
          /\ LET sk == [seek EXCEPT !.inter = FALSE]
             IN SeekStep(sk, FinalState(sk))

(* Fault: a cancelled seek keeps waiting for its buffer. *)
CancelSeek_KeepsBuffer ==
  /\ ~destroyed
  /\ SeekStep([InvalidSeek EXCEPT !.buf = seek.buf], "ready")

CancelSeek ==
  /\ ~destroyed /\ MaxSeeks > 0
  /\ IF provider.kind # "mse"
     THEN SeekStep(seek, IF serverDown THEN state ELSE "ready")
     ELSE SeekStep(InvalidSeek,
                   IF \/ provider.quiesced \/ serverDown
                      \/ state \in {"error", "destroyed"}
                   THEN state ELSE "ready")

-----------------------------------------------------------------------------
Next == \/ Load \/ Unload \/ Destroy \/ Attach \/ BufferReady
        \/ StartupTimeout \/ VideoError \/ RuntimeTerminal \/ Stall
        \/ \E g \in Gens : \/ StartNative(g) \/ ManifestArrives(g)
                           \/ ProviderLoaded(g) \/ ProviderFails(g)
        \/ \E g \in Gens, k \in Kinds : \/ Fails(g, k) \/ Succeeds(g, k)
                                       \/ Rejected(g, k)
        \/ \E k \in {"meta", "media"} : Issue(k)
        \/ ProbeOk \/ ProbeFails \/ ProbeAgain
        \/ TokenRefreshed \/ TokenDeferred \/ AuthExpired
        \/ BeginSeek \/ SeekBuffered \/ EndSeek \/ CancelSeek

Spec == Init /\ [][Next]_sessionVars
-----------------------------------------------------------------------------
(* Types, and what the flags imply about each other: a seek that is        *)
(* pending has an operation, a transaction that is open is the current     *)
(* generation's.                                                           *)
TypeOK ==
  /\ gen \in 0..MaxGen /\ provider.gen \in 0..gen /\ termGen \in 0..gen
  /\ state \in {"idle", "loading", "buffering", "ready", "recovering",
                "seeking", "error", "destroyed"}
  /\ probe \in {"none", "flight", "timer"} /\ (destroyed => state = "destroyed")
  /\ seek.buf \/ seek.inter => seek.active > 0
  /\ ~txn.settled => txn.gen = gen

(* A request that waits for the server is never stranded: while one is     *)
(* held the player knows that the server is down, and while it does, a     *)
(* probe is in flight or scheduled (_enterServerDown, _startServerProbe).  *)
NoStrandedRequest ==
  /\ \A g \in Gens, k \in Kinds : req[g][k].st = "held" => serverDown
  /\ serverDown <=> probe # "none"
  /\ destroyed => ~serverDown

(* A load() that waits for the start waits on the open transaction of its  *)
(* own generation, whose deadline is running: it cannot wait forever.      *)
EveryWaiterDecided ==
  \A g \in Gens : call[g] = "waiting" =>
    g = gen /\ txn.gen = g /\ ~txn.settled /\ txn.timer /\ ~destroyed

(* The promise of load() and the announcements agree: it resolves only for *)
(* a generation announced ready, fails only for one announced failed.      *)
OutcomeAnnounced ==
  \A g \in Gens : /\ call[g] = "done" => g \in readies
                  /\ call[g] = "failed" => g \in terminals

(* The continuation of an outdated load() aborts its own promise and       *)
(* touches nothing of the session that replaced it, and no generation that *)
(* failed is announced ready afterwards.                                   *)
OutdatedCallIsInert ==
  [][/\ \A g \in Gens : g < gen /\ gen' = gen /\ call'[g] # call[g] =>
          /\ call'[g] = "aborted"
          /\ UNCHANGED <<state, txn, termGen, provider, serverDown>>
     /\ readies' \cap terminals \subseteq readies]_sessionVars

(* Without an outage a started provider does not report "seeking" longer   *)
(* than one half of its seek is pending, in whatever order the halves end  *)
(* and the next seek begins.                                               *)
SeekingMeansSeek ==
  (/\ provider.kind = "mse" /\ provider.complete /\ ~provider.quiesced
   /\ state = "seeking") => seek.buf \/ seek.inter

(* What a session promises at every moment.                                *)
SessionSafe ==
  /\ TypeOK /\ NoStrandedRequest /\ EveryWaiterDecided /\ OutcomeAnnounced
  /\ downs = 0 => SeekingMeansSeek

(* Requests held for the server are resumed or rejected in the end, all of *)
(* them at once.                                                           *)
Held == {x \in Gens \X Kinds : req[x[1]][x[2]].st = "held"}
HeldIsReleased == Held # {} ~> Held = {}
=============================================================================
