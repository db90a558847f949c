--------------------------- MODULE QueueAdmission ---------------------------
(***************************************************************************)
(* The admission leases of a job queue in Redis (lib/queue-admission.ts):  *)
(* one sorted set of all admitted jobs, one of those admitted as           *)
(* background work and one per owner.  reserveQueueJob is a script and so  *)
(* one step; releaseQueueJob sends three zrem commands, which other        *)
(* clients' scripts may come between.                                      *)
(*                                                                         *)
(* A lease is a member of its sets until it lapses.  A job's entries were  *)
(* written with one score and lapse together, except those of an owner     *)
(* that a later join by somebody else did not renew.                       *)
(***************************************************************************)
EXTENDS Naturals, FiniteSets, Sequences

CONSTANTS Jobs,
          Owners,        \* requesters that are charged for their jobs
          Clients,       \* connections that send commands
          MaxJobs, MaxBackground, MaxOwner,
          NoOwner        \* the queue's jobs have no owner

ASSUME QueueAssumption ==
  /\ IsFiniteSet(Jobs) /\ IsFiniteSet(Owners)
  /\ NoOwner \notin Owners
  /\ MaxJobs \in Nat \ {0} /\ MaxOwner \in Nat \ {0}
  /\ MaxBackground \in 0..MaxJobs

VARIABLES
  global,     \* jobs with a lease
  background, \* jobs with a background lease
  owned,      \* jobs charged to each owner
  unrenewed,  \* of these, the ones a join by another owner passed over
  by,         \* who took the lease of each job (history)
  sent        \* zrem commands of each client not executed yet

leases == <<global, background, owned, unrenewed, by>>
store == <<leases, sent>>

Keys == {"global", "background"} \cup Owners

StoreInit ==
  /\ global = {} /\ background = {}
  /\ owned = [o \in Owners |-> {}]
  /\ unrenewed = [o \in Owners |-> {}]
  /\ by = [j \in Jobs |-> NoOwner]
  /\ sent = [c \in Clients |-> <<>>]

(* The script finds the job admitted: it renews the entries that are there.*)
Join(j, o) ==
  /\ j \in global
  /\ unrenewed' = [p \in Owners |->
       IF p = o THEN unrenewed[p] \ {j}
                ELSE unrenewed[p] \cup (owned[p] \cap {j})]
  /\ UNCHANGED <<global, background, owned, by, sent>>

(* Fault: the limit of the queue is compared with > instead of >=.         *)
HasRoom_OneMore(bg, o) ==
  /\ Cardinality(global) <= MaxJobs
  /\ bg => Cardinality(background) < MaxBackground
  /\ o # NoOwner => Cardinality(owned[o]) < MaxOwner

HasRoom(bg, o) ==
  /\ Cardinality(global) < MaxJobs
  /\ bg => Cardinality(background) < MaxBackground
  /\ o # NoOwner => Cardinality(owned[o]) < MaxOwner

Take(j, bg, o) ==
  /\ j \notin global
  /\ HasRoom(bg, o)
  /\ global' = global \cup {j}
  /\ background' = IF bg THEN background \cup {j} ELSE background
  /\ owned' = [p \in Owners |-> IF p = o THEN owned[p] \cup {j} ELSE owned[p]]
  /\ unrenewed' =
       [p \in Owners |-> IF p = o THEN unrenewed[p] \ {j} ELSE unrenewed[p]]
  /\ by' = [by EXCEPT ![j] = o]
  /\ UNCHANGED sent

Refuse(j, bg, o) ==
  /\ j \notin global
  /\ ~HasRoom(bg, o)
  /\ UNCHANGED store

Without(k, j) ==
  /\ global' = IF k = "global" THEN global \ {j} ELSE global
  /\ background' = IF k = "background" THEN background \ {j} ELSE background
  /\ owned' = [p \in Owners |-> IF p = k THEN owned[p] \ {j} ELSE owned[p]]
  /\ unrenewed' =
       [p \in Owners |-> IF p = k THEN unrenewed[p] \ {j} ELSE unrenewed[p]]
  /\ by' = IF k = "global" THEN [by EXCEPT ![j] = NoOwner] ELSE by

(* Fault: member and key are exchanged.                                    *)
Commands_Swapped(j, o) == << <<j, "global">>, <<j, "background">> >>

(* Fault: the slot of background work is forgotten.                        *)
Commands_GlobalOnly(j, o) == << <<"global", j>> >>

(* releaseQueueJob: Promise.all of the zrem commands on one connection.    *)
Commands(j, o) ==
  << <<"global", j>>, <<"background", j>> >>
    \o (IF o = NoOwner THEN <<>> ELSE << <<o, j>> >>)

ReleaseQueueJob(c, j, o) ==
  /\ sent' = [sent EXCEPT ![c] = @ \o Commands(j, o)]
  /\ UNCHANGED leases

Zrem(c) ==
  /\ sent[c] # <<>>
  /\ Without(Head(sent[c])[1], Head(sent[c])[2])
  /\ sent' = [sent EXCEPT ![c] = Tail(@)]

(* The lease runs out: the next script purges all its entries, or, before  *)
(* that, the entry of an owner whose job somebody else renewed.            *)
Lapse(j) ==
  /\ j \in global
  /\ global' = global \ {j}
  /\ background' = background \ {j}
  /\ owned' = [o \in Owners |-> owned[o] \ {j}]
  /\ unrenewed' = [o \in Owners |-> unrenewed[o] \ {j}]
  /\ by' = [by EXCEPT ![j] = NoOwner]
  /\ UNCHANGED sent

LapseUnrenewed(o, j) ==
  /\ j \in unrenewed[o]
  /\ owned' = [owned EXCEPT ![o] = @ \ {j}]
  /\ unrenewed' = [unrenewed EXCEPT ![o] = @ \ {j}]
  /\ UNCHANGED <<global, background, by, sent>>

-----------------------------------------------------------------------------
(* The store on its own, with clients that keep to what the queues promise *)
(* each other: one release of a job at a time, in the name of the owner    *)
(* that took the lease, and no lease so old that it lapses meanwhile.       *)
Releasing(j) == \E c \in Clients : \E i \in DOMAIN sent[c] : sent[c][i][2] = j

Requesters == IF Owners = {} THEN {NoOwner} ELSE Owners

StoreNext ==
  \/ \E j \in Jobs, bg \in BOOLEAN, o \in Requesters :
       Join(j, o) \/ Take(j, bg, o)
  \/ \E c \in Clients, j \in Jobs :
       /\ j \in global /\ ~Releasing(j)
       /\ ReleaseQueueJob(c, j, by[j])
  \/ \E c \in Clients : Zrem(c)
  \/ \E j \in Jobs : ~Releasing(j) /\ Lapse(j)
  \/ \E j \in Jobs, o \in Owners : LapseUnrenewed(o, j)

StoreSpec == StoreInit /\ [][StoreNext]_store

-----------------------------------------------------------------------------
StoreTypeOK ==
  /\ global \subseteq Jobs /\ background \subseteq Jobs
  /\ owned \in [Owners -> SUBSET Jobs]
  /\ unrenewed \in [Owners -> SUBSET Jobs]
  /\ by \in [Jobs -> Owners \cup {NoOwner}]
  /\ sent \in [Clients -> Seq(Keys \X Jobs)]

(* The queue never admits more jobs than its limit, more background jobs   *)
(* than the playback reserve leaves, or more of one owner than its quota,  *)
(* whatever lapses, joins and half-executed releases come between.         *)
Capped ==
  /\ Cardinality(global) <= MaxJobs
  /\ Cardinality(background) <= MaxBackground
  /\ \A o \in Owners : Cardinality(owned[o]) <= MaxOwner

(* A slot of a background class or of an owner is held by an admitted job  *)
(* or is about to be given back: none is lost to a job that is gone.       *)
InFlight(k, j) ==
  \E c \in Clients : \E i \in DOMAIN sent[c] : sent[c][i] = <<k, j>>

NoStrandedSlot ==
  /\ \A j \in background : j \in global \/ InFlight("background", j)
  /\ \A o \in Owners : \A j \in owned[o] : j \in global \/ InFlight(o, j)
=============================================================================
