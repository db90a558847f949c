---------------------------- MODULE SharedCache -----------------------------
(* SharedLRUMap: each process keeps a bounded map of its own in front of    *)
(* one Redis.  Writes and deletes reach Redis later, one after the other    *)
(* for each key; a read that misses locally waits for the last of them and  *)
(* then puts Redis' answer into the local map.                              *)
EXTENDS Integers, Sequences, FiniteSets, SequencesExt

CONSTANTS Procs, Keys,
          Sizes,      \* what a value may weigh
          MaxEntries, \* of one local map
          MaxL1Bytes, \* of one local map, and of a value in it
          MaxRedis,   \* of a value in Redis
          MaxValues, MaxDeletes, MaxReads, MaxErrors

VARIABLES local,   \* per process, its entries, the oldest first, and _l1Bytes
          pending, \* per process and key, the mutations not yet settled
          last,    \* _pendingWrites: the mutation a read has to wait for
          shared,  \* Redis
          reads,   \* the calls of getAsync that have missed locally
          old,     \* what a process has replaced or deleted, by key
          count    \* how many there were of each kind

vars == <<local, pending, last, shared, reads, old, count>>

NoValue == 0
Nothing == [id |-> NoValue, size |-> 0]

Init ==
  /\ local = [p \in Procs |-> [entries |-> <<>>, bytes |-> 0]]
  /\ pending = [p \in Procs |-> [k \in Keys |-> <<>>]]
  /\ last = [p \in Procs |-> [k \in Keys |-> NoValue]]
  /\ shared = [k \in Keys |-> Nothing]
  /\ reads = {}
  /\ old = [p \in Procs |-> [k \in Keys |-> {}]]
  /\ count = [values |-> 0, deletes |-> 0, reads |-> 0, ops |-> 0,
              errors |-> 0, expired |-> {}]

Less(kind) == [count EXCEPT ![kind] = @ + 1]

-----------------------------------------------------------------------------
(* The local map.  A value that is too large is not kept, and of the rest   *)
(* the oldest go until the limits hold.                                     *)

Entry(m, k) == SelectSeq(m.entries, LAMBDA e : e.key = k)

DeleteLocalEntry_Fault(m, k) == (* Fault: the bytes stay counted. *)
  [m EXCEPT !.entries = SelectSeq(@, LAMBDA e : e.key # k)]
DeleteLocalEntry(m, k) ==
  IF Entry(m, k) = <<>> THEN m
  ELSE [entries |-> SelectSeq(m.entries, LAMBDA e : e.key # k),
        bytes |-> m.bytes - Entry(m, k)[1].val.size]

Oldest(m, i) == SubSeq(m.entries, i + 1, Len(m.entries))
BytesOf(entries) ==
  FoldLeft(LAMBDA sum, e : sum + e.val.size, 0, entries)

SetLocalEntry(m, k, v) ==
  LET d == DeleteLocalEntry(m, k)
      put == [entries |-> Append(d.entries, [key |-> k, val |-> v]),
              bytes |-> d.bytes + v.size]
      after(i) == put.bytes - BytesOf(SubSeq(put.entries, 1, i))
      gone == CHOOSE i \in 0 .. Len(put.entries) :
                /\ Len(Oldest(put, i)) <= MaxEntries /\ after(i) <= MaxL1Bytes
                /\ \A j \in 0 .. i - 1 :
                     \/ Len(Oldest(put, j)) > MaxEntries
                     \/ after(j) > MaxL1Bytes
  IN IF v.size > MaxL1Bytes THEN d
     ELSE [entries |-> Oldest(put, gone), bytes |-> after(gone)]

-----------------------------------------------------------------------------
(* A mutation is queued behind those of the same key; clients can be away.  *)

Queue(p, k, op) ==
  /\ pending' = [pending EXCEPT ![p][k] = Append(@, op)]
  /\ last' = [last EXCEPT ![p][k] = op.id]

Reading(p, k) == \E r \in reads : r.proc = p /\ r.key = k

(* What this process knew of: unless it is just being read, nobody here may *)
(* see it again.  It is what Redis holds or is going to be told.            *)
Known(p, k) ==
  {shared[k].id} \cup {pending[p][k][i].val.id : i \in DOMAIN pending[p][k]}
                 \cup {e.val.id : e \in Range(Entry(local[p], k))}

Replaced(p, k) ==
  old' = [old EXCEPT ![p][k] = IF Reading(p, k) THEN @
                               ELSE @ \cup (Known(p, k) \ {NoValue})]

Set == \E p \in Procs, k \in Keys, size \in Sizes :
  LET v == [id |-> count.values + 1, size |-> size]
      op == [id |-> count.ops + 1, val |-> v]
  IN /\ count.values < MaxValues
     /\ local' = [local EXCEPT ![p] = SetLocalEntry(@, k, v)]
     /\ count' = [count EXCEPT !.values = @ + 1, !.ops = @ + 1]
     /\ IF size <= MaxRedis
        THEN Queue(p, k, op) /\ Replaced(p, k)
        ELSE UNCHANGED <<pending, last, old>>
     /\ UNCHANGED <<shared, reads>>

Delete == \E p \in Procs, k \in Keys :
  /\ count.deletes < MaxDeletes
  /\ local' = [local EXCEPT ![p] = DeleteLocalEntry(@, k)]
  /\ Queue(p, k, [id |-> count.ops + 1, val |-> Nothing])
  /\ Replaced(p, k)
  /\ count' = [count EXCEPT !.deletes = @ + 1, !.ops = @ + 1]
  /\ UNCHANGED <<shared, reads>>

(* Only the mutation that is still the last one is taken from the map.      *)
Settled_Fault(p, k, op) == (* Fault: a later one is forgotten with it. *)
  /\ pending' = [pending EXCEPT ![p][k] = Tail(@)]
  /\ last' = [last EXCEPT ![p][k] = NoValue]
Settled(p, k, op) ==
  /\ pending' = [pending EXCEPT ![p][k] = Tail(@)]
  /\ last' = [last EXCEPT ![p][k] = IF @ = op.id THEN NoValue ELSE @]

Mutate == \E p \in Procs, k \in Keys :
  /\ pending[p][k] # <<>>
  /\ LET op == Head(pending[p][k])
     IN Settled(p, k, op) /\ shared' = [shared EXCEPT ![k] = op.val]
  /\ UNCHANGED <<local, reads, old, count>>

(* An error is only logged: what was to be replaced may be there for ever.  *)
MutateFails == \E p \in Procs, k \in Keys :
  /\ count.errors < MaxErrors /\ count' = Less("errors")
  /\ pending[p][k] # <<>> /\ Settled(p, k, Head(pending[p][k]))
  /\ old' = [old EXCEPT ![p][k] = {}]
  /\ UNCHANGED <<local, shared, reads>>

Expire == \E v \in (1 .. count.values) \ count.expired :
  /\ count' = [count EXCEPT !.expired = @ \cup {v}]
  /\ shared' = [k \in Keys |-> IF shared[k].id = v THEN Nothing ELSE shared[k]]
  /\ UNCHANGED <<local, pending, last, reads, old>>

-----------------------------------------------------------------------------
(* getAsync.                                                                *)

Fresh(m, k) ==
  Entry(m, k) # <<>> /\ Entry(m, k)[1].val.id \notin count.expired

(* The entry becomes the youngest.                                          *)
Hit == \E p \in Procs, k \in Keys :
  LET m == local[p]
  IN /\ Fresh(m, k) /\ Last(m.entries).key # k
     /\ local' = [local EXCEPT ![p].entries =
                    SelectSeq(@, LAMBDA e : e.key # k) \o Entry(m, k)]
     /\ UNCHANGED <<pending, last, shared, reads, old, count>>

Call(p, k, stage) ==
  [proc |-> p, key |-> k, stage |-> stage, op |-> last[p][k], got |-> Nothing]

Miss_Fault(p, k) == (* Fault: Redis is asked at once. *)
  /\ local' = [local EXCEPT ![p] = DeleteLocalEntry(@, k)]
  /\ reads' = reads \cup {Call(p, k, "asks")}
Miss(p, k) ==
  /\ local' = [local EXCEPT ![p] = DeleteLocalEntry(@, k)]
  /\ reads' = reads \cup
       {Call(p, k, IF last[p][k] = NoValue THEN "asks" ELSE "waits")}

GetAsync == \E p \in Procs, k \in Keys :
  /\ count.reads < MaxReads /\ count' = Less("reads")
  /\ ~Fresh(local[p], k) /\ Miss(p, k)
  /\ UNCHANGED <<pending, last, shared, old>>

Becomes(r, s) == reads' = (reads \ {r}) \cup {s}

WaitIsOver == \E r \in reads :
  /\ r.stage = "waits"
  /\ \A i \in DOMAIN pending[r.proc][r.key] :
       pending[r.proc][r.key][i].id # r.op
  /\ Becomes(r, [r EXCEPT !.stage = "asks"])
  /\ UNCHANGED <<local, pending, last, shared, old, count>>

RedisAnswers == \E r \in reads :
  /\ r.stage = "asks"
  /\ Becomes(r, [r EXCEPT !.stage = "told", !.got = shared[r.key]])
  /\ UNCHANGED <<local, pending, last, shared, old, count>>

GotIt == \E r \in reads :
  /\ r.stage = "told"
  /\ local' = IF r.got = Nothing THEN local
              ELSE [local EXCEPT ![r.proc] = SetLocalEntry(@, r.key, r.got)]
  /\ reads' = reads \ {r}
  /\ UNCHANGED <<pending, last, shared, old, count>>

ReadFails == \E r \in reads :
  /\ count.errors < MaxErrors /\ count' = Less("errors")
  /\ r.stage = "asks"
  /\ reads' = reads \ {r}
  /\ UNCHANGED <<local, pending, last, shared, old>>

Next == \/ Set \/ Delete \/ Mutate \/ MutateFails \/ Expire \/ Hit \/ GetAsync
        \/ WaitIsOver \/ RedisAnswers \/ GotIt \/ ReadFails

Spec == Init /\ [][Next]_vars

-----------------------------------------------------------------------------
(* The counter of bytes is the weight of the entries, and the limits hold.  *)
LimitsHold ==
  \A p \in Procs :
    /\ local[p].bytes = BytesOf(local[p].entries)
    /\ local[p].bytes <= MaxL1Bytes /\ Len(local[p].entries) <= MaxEntries

(* A value this process replaced or deleted while nobody here was reading   *)
(* it does not come back, though Redis learns of it later.                  *)
NoResurrection ==
  \A p \in Procs, k \in Keys :
    \A e \in Range(Entry(local[p], k)) : e.val.id \notin old[p][k]

CacheSafe == LimitsHold /\ NoResurrection
=============================================================================
