------------------------------ MODULE Semaphore ------------------------------
(***************************************************************************)
(* What every slot pool of the server promises its callers: at most Limit  *)
(* holders; nobody waits while a slot is free; a freed slot goes to a best *)
(* waiter in the same step, so that no newcomer can take it first.         *)
(***************************************************************************)
EXTENDS Naturals, FiniteSets

CONSTANTS Tasks, Limit, Rank(_)   \* a lower rank is served first

VARIABLES holders, waiting

semVars == <<holders, waiting>>

Init == holders = {} /\ waiting = {}

Enter(t) ==
  /\ t \notin holders \cup waiting
  /\ waiting = {}
  /\ Cardinality(holders) < Limit
  /\ holders' = holders \cup {t}
  /\ UNCHANGED waiting

Queue(t) ==
  /\ t \notin holders \cup waiting
  /\ Cardinality(holders) = Limit
  /\ waiting' = waiting \cup {t}
  /\ UNCHANGED holders

GiveUp(t) ==
  /\ t \in waiting
  /\ waiting' = waiting \ {t}
  /\ UNCHANGED holders

HandOver(t, u) ==
  /\ t \in holders
  /\ u \in waiting
  /\ \A w \in waiting : Rank(u) <= Rank(w)
  /\ holders' = (holders \ {t}) \cup {u}
  /\ waiting' = waiting \ {u}

Free(t) ==
  /\ t \in holders
  /\ waiting = {}
  /\ holders' = holders \ {t}
  /\ UNCHANGED waiting

Next ==
  \E t \in Tasks :
    \/ Enter(t) \/ Queue(t) \/ GiveUp(t) \/ Free(t)
    \/ \E u \in Tasks : HandOver(t, u)

Spec == Init /\ [][Next]_semVars
=============================================================================
