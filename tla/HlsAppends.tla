----------------------------- MODULE HlsAppends -----------------------------
(* How fetched HLS segments get into the SourceBuffers.  Each append is a   *)
(* transaction of the epoch it began in; seeks, recoveries and switches     *)
(* begin a new epoch, and what belongs to an older one must not touch       *)
(* anything any more, although its mutations still run.                     *)
(*                                                                          *)
(* Muxed: a transport stream whose audio and video go to two buffers, audio *)
(* first; a ledger remembers which of the two a segment has reached.        *)
(* Otherwise fragments with initialization segments: each belongs to a      *)
(* generation, and the buffer needs the init of it before.                  *)
(*                                                                          *)
(* Time is counted in segments: what is behind or ahead of the playhead by  *)
(* the 5 s of the code is every other segment.                              *)
EXTENDS Integers, Sequences, FiniteSets

CONSTANTS Last,             \* segments
          Muxed,
          Generation,       \* of each segment
          Capacity,         \* segments that a buffer has room for
          MaxTx, MaxSeeks, MaxTimeouts

VARIABLES seg, segOwner, owner, tx, epoch, held, ledger, key, inBuffer,
          head, recovered, lost, twice, mixed, wrong, left
vars == <<seg, segOwner, owner, tx, epoch, held, ledger, key, inBuffer,
          head, recovered, lost, twice, mixed, wrong, left>>

Segs == 1 .. Last
Buffers == IF Muxed THEN {"audio", "video"} ELSE {"video"}
Nothing == [audio |-> FALSE, video |-> FALSE]
Txs == 1 .. Len(tx)

(* lost: segments whose removal nobody recorded, since they were last       *)
(* appended or while they are; twice: an append of what a *)
(* buffer had already got for good; mixed: the init of a recovery, or of an *)
(* append that nobody waits for, fell between another init and its media;   *)
(* wrong: media that somebody waits for met another init otherwise.         *)
Init ==
  /\ seg = [s \in Segs |-> "pending"] /\ segOwner = [s \in Segs |-> 0]
  /\ owner = 0 /\ tx = <<>> /\ epoch = 0
  /\ held = [b \in Buffers |-> {}]
  /\ ledger = [s \in Segs |-> Nothing]
  /\ key = 1 /\ inBuffer = 1
  /\ head = 1 /\ recovered = FALSE
  /\ lost = {} /\ twice = FALSE /\ mixed = FALSE /\ wrong = FALSE
  /\ left = [seeks |-> MaxSeeks, timeouts |-> MaxTimeouts]

Busy(b) == \E i \in Txs : b \in tx[i].busy
Covered(s) == \A b \in Buffers : s \in held[b]

(* Fault: an append counts as long as somebody waits for it. *)
Current_Fault(i) == tx[i].watched

Current(i) == tx[i].epoch = epoch

At(i, at) == [tx EXCEPT ![i].at = at]

NewTx(kind, s, e, at, todo) ==
  [kind |-> kind, seg |-> s, epoch |-> e, at |-> at, todo |-> todo,
   busy |-> {}, tries |-> 0, watched |-> TRUE]

-----------------------------------------------------------------------------
(* The track and its ledgers.                                               *)

Fetched(s) ==
  /\ seg[s] = "pending" /\ s >= head
  /\ seg' = [seg EXCEPT ![s] = "fetched"]
  /\ UNCHANGED <<segOwner, owner, tx, epoch, held, ledger, key, inBuffer,
                 head, recovered, lost, twice, mixed, wrong, left>>

(* Fault: an entry is taken over as it is. *)
LedgerEntry_Fault(s) == ledger[s]

(* A flag holds as long as the buffer has the segment.                      *)
LedgerEntry(s) ==
  [audio |-> ledger[s].audio /\ s \in held["audio"],
   video |-> ledger[s].video /\ s \in held["video"]]

DrainAppendQueue(s) ==
  /\ owner = 0 /\ ~Busy("video") /\ Len(tx) < MaxTx
  /\ seg[s] = "fetched" /\ s >= head
  /\ \A r \in head .. s - 1 : seg[r] \notin {"fetched", "appending"}
  /\ seg' = [seg EXCEPT ![s] = "appending"]
  /\ tx' = Append(tx, NewTx("append", s, epoch, "prepare", {}))
  /\ owner' = Len(tx) + 1
  /\ segOwner' = [segOwner EXCEPT ![s] = Len(tx) + 1]
  /\ ledger' = IF Muxed THEN [ledger EXCEPT ![s] = LedgerEntry(s)] ELSE ledger
  /\ lost' = lost \ {s}
  /\ UNCHANGED <<epoch, held, key, inBuffer, head, recovered, twice, mixed,
                 wrong, left>>

(* Fault: whoever ends frees the track. *)
FreeOwner_Fault(i) == 0

FreeOwner(i) == IF owner = i THEN 0 ELSE owner

(* The promise of append i is rejected as aborted.  Nobody listens when its *)
(* time has run out before.                                                 *)
Abort(i, t) ==
  LET s == tx[i].seg
      listens == tx[i].kind = "append" /\ tx[i].watched
      mine == listens /\ segOwner[s] = i
  IN /\ tx' = [t EXCEPT ![i].at = "dead", ![i].busy = {}, ![i].todo = {}]
     /\ owner' = IF listens THEN FreeOwner(i) ELSE owner
     /\ segOwner' = IF mine THEN [segOwner EXCEPT ![s] = 0] ELSE segOwner
     /\ seg' = IF mine /\ seg[s] = "appending"
               THEN [seg EXCEPT ![s] = "pending"] ELSE seg

(* It is fulfilled: the owner marks the segment.                            *)
Complete(i) ==
  LET s == tx[i].seg
      mine == tx[i].watched /\ owner = i /\ segOwner[s] = i
  IN /\ tx' = [tx EXCEPT ![i].at = "dead", ![i].busy = {}]
     /\ owner' = IF tx[i].watched THEN FreeOwner(i) ELSE owner
     /\ segOwner' = IF mine THEN [segOwner EXCEPT ![s] = 0] ELSE segOwner
     /\ seg' = IF mine THEN [seg EXCEPT ![s] = "appended"] ELSE seg
     /\ ledger' = [ledger EXCEPT ![s] = Nothing]

-----------------------------------------------------------------------------
(* One append.                                                              *)

(* The stream is transmuxed, or the init of the generation is fetched.      *)
Prepare(i) ==
  /\ tx[i].at = "prepare"
  /\ IF ~Current(i) THEN Abort(i, tx)
     ELSE /\ tx' = At(i, IF Muxed \/ key = Generation[tx[i].seg] THEN "ready"
                         ELSE "init")
          /\ UNCHANGED <<owner, segOwner, seg>>
  /\ UNCHANGED <<epoch, held, ledger, key, inBuffer, head, recovered, lost,
                 twice, mixed, wrong, left>>

AppendInit(i) ==
  /\ tx[i].at \in {"init", "again"} /\ ~Busy("video")
  /\ IF tx[i].at = "again" /\ ~Current(i) THEN Abort(i, tx)
     ELSE /\ tx' = [tx EXCEPT ![i].at = "landing", ![i].busy = {"video"}]
          /\ UNCHANGED <<owner, segOwner, seg>>
  /\ UNCHANGED <<epoch, held, ledger, key, inBuffer, head, recovered, lost,
                 twice, mixed, wrong, left>>

(* Fault: the init of an older epoch is not noted. *)
InitLands_Fault(i) ==
  LET s == tx[i].seg
      ends == ~Current(i)
  IN /\ tx[i].at = "landing"
     /\ inBuffer' = IF s = 0 THEN 1 ELSE Generation[s]
     /\ key' = IF ends THEN key ELSE IF s = 0 THEN 1 ELSE Generation[s]
     /\ mixed' = mixed
     /\ IF ends \/ s = 0 THEN Abort(i, tx)
        ELSE /\ tx' = [tx EXCEPT ![i].at = "ready", ![i].busy = {}]
             /\ UNCHANGED <<owner, segOwner, seg>>
     /\ UNCHANGED <<epoch, held, ledger, head, recovered, lost, twice, wrong,
                    left>>

(* An append notes the init it has put into the buffer even if its epoch is *)
(* over; a recovery that is overtaken does not.                             *)
InitLands(i) ==
  LET s == tx[i].seg
      recovery == tx[i].kind = "recovery"
      g == IF recovery THEN 1 ELSE Generation[s]
  IN /\ tx[i].at = "landing"
     /\ inBuffer' = g
     /\ key' = IF recovery /\ ~Current(i) THEN key ELSE g
     /\ mixed' = (mixed \/ ((recovery \/ ~tx[i].watched) /\
          \/ ~Current(i) /\ key # g
          \/ \E j \in Txs : /\ tx[j].at \in {"ready", "behind", "ahead"}
                           /\ Generation[tx[j].seg] # g))
     /\ IF recovery THEN Abort(i, tx)
        ELSE /\ tx' = [tx EXCEPT ![i].at = "ready", ![i].busy = {}]
             /\ UNCHANGED <<owner, segOwner, seg>>
     /\ UNCHANGED <<epoch, held, ledger, head, recovered, lost, twice, wrong,
                    left>>

NextPiece(i) == IF Muxed /\ ~ledger[tx[i].seg].audio THEN "audio" ELSE "video"

(* The next piece is appended, or there is no room for it: first what lies  *)
(* behind is evicted, then what lies ahead, then a lower variant is tried.  *)
AppendBuffer(i) ==
  LET s == tx[i].seg
      b == NextPiece(i)
      full == Cardinality(held[b] \cup {s}) > Capacity
  IN /\ tx[i].at = "ready" /\ ~Busy(b)
     /\ IF ~Current(i) THEN Abort(i, tx) /\ UNCHANGED <<twice, wrong>>
        ELSE IF full
        THEN /\ tx' = [tx EXCEPT
                  ![i].at = CASE @ = "ready" /\ tx[i].tries = 0 -> "behind"
                              [] @ = "ready" /\ tx[i].tries = 1 -> "ahead"
                              [] OTHER -> "down",
                  ![i].todo = Buffers, ![i].tries = @ + 1]
             /\ UNCHANGED <<owner, segOwner, seg, twice, wrong>>
        ELSE /\ tx' = [tx EXCEPT ![i].at = b, ![i].busy = {b}]
             /\ twice' = (twice \/ (ledger[s][b] /\ s \in held[b]))
             /\ wrong' = (wrong \/ (~Muxed /\ ~mixed /\ tx[i].watched
                                    /\ inBuffer # Generation[s]))
             /\ UNCHANGED <<owner, segOwner, seg>>
     /\ UNCHANGED <<epoch, held, ledger, key, inBuffer, head, recovered, lost,
                    mixed, left>>

Lands(i) ==
  LET s == tx[i].seg
      b == tx[i].at
  IN /\ b \in Buffers
     /\ held' = [held EXCEPT ![b] = @ \cup {s}]
     /\ CASE ~Current(i) -> Abort(i, tx) /\ UNCHANGED ledger
          [] Current(i) /\ b = "video" -> Complete(i)
          [] OTHER -> /\ ledger' = [ledger EXCEPT ![s].audio = TRUE]
                      /\ tx' = [tx EXCEPT ![i].at = "ready", ![i].busy = {}]
                      /\ UNCHANGED <<owner, segOwner, seg>>
     /\ UNCHANGED <<epoch, key, inBuffer, head, recovered, lost, twice, mixed,
                    wrong, left>>

-----------------------------------------------------------------------------
(* Removals.                                                                *)

Range(i) ==
  CASE tx[i].at = "behind" -> 1 .. head - 1
    [] tx[i].at = "ahead" -> (head + 1 .. Last) \ {tx[i].seg}
    [] OTHER -> 1 .. head

Remove(i, b) ==
  /\ tx[i].at \in {"behind", "ahead", "reset"}
  /\ b \in tx[i].todo /\ ~Busy(b)
  /\ IF ~Current(i) THEN Abort(i, tx)
     ELSE /\ tx' = [tx EXCEPT ![i].todo = @ \ {b}, ![i].busy = @ \cup {b}]
          /\ UNCHANGED <<owner, segOwner, seg>>
  /\ UNCHANGED <<epoch, held, ledger, key, inBuffer, head, recovered, lost,
                 twice, mixed, wrong, left>>

(* Fault: what was removed keeps its marks. *)
Reconcile_Fault(range) == UNCHANGED <<seg, segOwner>>

(* The marks of video are those of the segments.                            *)
Reconcile(range) ==
  /\ seg' = [s \in Segs |-> IF s \in range THEN "pending" ELSE seg[s]]
  /\ segOwner' = [s \in Segs |-> IF s \in range THEN 0 ELSE segOwner[s]]

(* An overtaken removal has happened, but nothing is reconciled.  Before    *)
(* the append is tried again it asks what the audio buffer still has.       *)
Removed(i, b) ==
  LET range == Range(i) \cap held[b]
      t == [tx EXCEPT ![i].busy = @ \ {b}]
      last == t[i].todo = {} /\ t[i].busy = {}
  IN /\ tx[i].at \in {"behind", "ahead", "reset"} /\ b \in tx[i].busy
     /\ held' = [held EXCEPT ![b] = @ \ range]
     /\ IF ~Current(i)
        THEN Abort(i, tx) /\ lost' = lost \cup range /\ UNCHANGED ledger
        ELSE /\ tx' = IF ~last THEN t
                      ELSE [t EXCEPT ![i].at =
                             IF tx[i].at # "reset" THEN "ready"
                             ELSE IF Muxed THEN "dead" ELSE "again"]
             /\ ledger' = IF Muxed /\ last /\ tx[i].kind = "append"
                           THEN [ledger EXCEPT ![tx[i].seg].audio =
                                  @ /\ tx[i].seg \in held'["audio"]]
                           ELSE ledger
             /\ IF b = "video" THEN Reconcile(range) /\ UNCHANGED lost
                ELSE UNCHANGED <<seg, segOwner>> /\ lost' = lost \cup range
             /\ UNCHANGED owner
     /\ UNCHANGED <<epoch, key, inBuffer, head, recovered, twice, mixed, wrong,
                    left>>

-----------------------------------------------------------------------------
(* New epochs.                                                              *)

(* Requests are aborted, and with them appends that fetch an init.          *)
AbortedTx ==
  [i \in Txs |-> IF tx[i].at = "init" THEN [tx[i] EXCEPT !.at = "dead"]
                 ELSE tx[i]]
Idle(s) == IF seg[s] \in {"fetched", "appending"} THEN "pending" ELSE seg[s]

(* A seek marks by the video buffer alone.                                  *)
Seek(t) ==
  LET marked == {s \in held["video"] : s >= t}
  IN /\ left.seeks > 0 /\ ~Covered(t)
     /\ left' = [left EXCEPT !.seeks = @ - 1]
     /\ epoch' = epoch + 1 /\ head' = t
     /\ owner' = 0 /\ tx' = AbortedTx
     /\ segOwner' = [s \in Segs |-> IF seg[s] = "appending" THEN 0
                                    ELSE segOwner[s]]
     /\ seg' = [s \in Segs |-> IF s \in marked THEN "appended" ELSE "pending"]
     /\ lost' = lost \cup {s \in marked : ~Covered(s)}
     /\ UNCHANGED <<held, ledger, key, inBuffer, recovered, twice, mixed,
                    wrong>>

Plays ==
  /\ head < Last /\ Covered(head) /\ Covered(head + 1)
  /\ head' = head + 1
  /\ UNCHANGED <<seg, segOwner, owner, tx, epoch, held, ledger, key, inBuffer,
                 recovered, lost, twice, mixed, wrong, left>>

(* The recovery starts with an epoch of its own: it empties the buffers up  *)
(* to the playhead and appends the first init again.                        *)
Recover ==
  /\ recovered' = TRUE
  /\ epoch' = epoch + 1
  /\ owner' = 0
  /\ segOwner' = [s \in Segs |-> IF seg[s] = "appending" THEN 0
                                 ELSE segOwner[s]]
  /\ tx' = Append(AbortedTx, NewTx("recovery", 0, epoch + 1, "reset", Buffers))

(* The watchdog: what is buffered counts as appended.  Otherwise the append *)
(* has failed; its own promise goes on unheard.                             *)
WatchdogFires(i) ==
  LET s == tx[i].seg
      mine == owner = i /\ segOwner[s] = i
  IN /\ left.timeouts > 0 /\ left' = [left EXCEPT !.timeouts = @ - 1]
     /\ tx[i].kind = "append" /\ tx[i].watched /\ tx[i].at # "dead"
     /\ CASE ~Current(i) ->
               /\ tx' = [tx EXCEPT ![i].watched = FALSE]
               /\ owner' = FreeOwner(i)
               /\ seg' = IF segOwner[s] = i /\ seg[s] = "appending"
                         THEN [seg EXCEPT ![s] = "pending"] ELSE seg
               /\ segOwner' = IF segOwner[s] = i
                              THEN [segOwner EXCEPT ![s] = 0] ELSE segOwner
               /\ UNCHANGED <<epoch, recovered>>
          [] Current(i) /\ Covered(s) ->
               /\ tx' = [tx EXCEPT ![i].watched = FALSE]
               /\ seg' = IF mine THEN [seg EXCEPT ![s] = "appended"] ELSE seg
               /\ segOwner' = IF mine THEN [segOwner EXCEPT ![s] = 0]
                              ELSE segOwner
               /\ owner' = FreeOwner(i)
               /\ UNCHANGED <<epoch, recovered>>
          [] OTHER ->
               /\ ~recovered /\ Len(tx) < MaxTx /\ Recover
               /\ seg' = [r \in Segs |-> IF r = s THEN "pending" ELSE Idle(r)]
     /\ UNCHANGED <<held, ledger, key, inBuffer, head, lost, twice, mixed,
                    wrong>>

(* No room at all: a lower variant starts with empty buffers.               *)
SwitchVariant(i) ==
  /\ tx[i].at = "down" /\ \A b \in Buffers : ~Busy(b)
  /\ IF ~Current(i)
     THEN /\ Abort(i, tx)
          /\ UNCHANGED <<epoch, held, ledger, key, inBuffer, lost>>
     ELSE /\ epoch' = epoch + 1
          /\ tx' = [AbortedTx EXCEPT ![i].at = "dead"]
          /\ owner' = 0
          /\ segOwner' = [s \in Segs |-> 0]
          /\ seg' = [s \in Segs |-> "pending"]
          /\ held' = [b \in Buffers |-> {}]
          /\ ledger' = [s \in Segs |-> Nothing]
          /\ key' = 1 /\ inBuffer' = 1 /\ lost' = {}
  /\ UNCHANGED <<head, recovered, twice, mixed, wrong, left>>

Next ==
  \/ \E s \in Segs : Fetched(s) \/ DrainAppendQueue(s) \/ Seek(s)
  \/ \E i \in Txs :
       \/ Prepare(i) \/ AppendInit(i) \/ InitLands(i) \/ AppendBuffer(i)
       \/ Lands(i) \/ WatchdogFires(i) \/ SwitchVariant(i)
       \/ \E b \in Buffers : Remove(i, b) \/ Removed(i, b)
  \/ Plays

Spec == Init /\ [][Next]_vars

-----------------------------------------------------------------------------
(* Properties.                                                              *)

TypeOK ==
  /\ \A s \in Segs : seg[s] \in {"pending", "fetched", "appending", "appended"}
  /\ owner \in 0 .. Len(tx)
  /\ \A b \in Buffers : held[b] \subseteq Segs

(* The track never waits for a transaction that has ended: its owner is     *)
(* alive, and so is the owner of every segment that is being appended.      *)
OwnersLive ==
  /\ owner # 0 => tx[owner].at # "dead"
  /\ \A s \in Segs : seg[s] = "appending" =>
       segOwner[s] # 0 /\ tx[segOwner[s]].at # "dead"

(* What counts as appended is in every buffer it belongs to, but for what   *)
(* an overtaken removal took away, or one that is not through.              *)
AppendedIsHeld ==
  \A s \in Segs : seg[s] = "appended" => Covered(s) \/ s \in lost

(* A buffer has at most one mutation at a time.                             *)
OneMutation ==
  \A i, j \in Txs : i # j => tx[i].busy \cap tx[j].busy = {}

(* No piece is appended again that a buffer has got under a transaction     *)
(* that was then current and still has: a partly appended segment is        *)
(* completed, whatever ended the transaction in between.                    *)
NotTwice == ~twice

(* No media that somebody waits for meets the init of another generation,   *)
(* unless the init of a recovery falls in between, or is overtaken and not  *)
(* noted, or that of an append that was given up.                           *)
RightInit == ~wrong

HlsAppendsSafe ==
  OwnersLive /\ AppendedIsHeld /\ OneMutation /\ NotTwice /\ RightInit
=============================================================================
