-------------------------- MODULE DownloadProgress --------------------------
(* The progress of an in-process download in its row: written now and then  *)
(* by a timer, and for good by each format that has ended, one write at a   *)
(* time.  What is written is the progress of all formats.                   *)
EXTENDS Integers, FiniteSets

CONSTANTS Formats, MaxChunks, MaxErrors

(* version counts the changes of the progress; stored is that of the row.   *)
VARIABLES version, stored, state, flush, active, owed, errors
vars == <<version, stored, state, flush, active, owed, errors>>

Callers == Formats \cup {"timer"}
NoWrite == -1
Blank == [dirty |-> FALSE, timer |-> FALSE, write |-> NoWrite]

Init ==
  /\ version = 0 /\ stored = 0 /\ errors = MaxErrors
  /\ state = Blank /\ active = Formats
  /\ flush = [c \in Callers |-> "none"]
  /\ owed = [f \in Formats |-> 0]

ScheduleDownloadProgress(s) ==
  [s EXCEPT !.dirty = TRUE, !.timer = @ \/ s.write = NoWrite]

(* Fault: a write that is under way is enough. *)
FlushDownloadProgress_Fault(r, c) ==
  IF ~r.s.dirty \/ r.s.write # NoWrite
  THEN [s |-> [r.s EXCEPT !.timer = FALSE], f |-> [r.f EXCEPT ![c] = "ok"]]
  ELSE [s |-> [dirty |-> FALSE, timer |-> FALSE, write |-> version],
        f |-> [r.f EXCEPT ![c] = "writing"]]

(* Whoever comes during a write waits, and then looks again.                *)
FlushDownloadProgress(r, c) ==
  IF r.s.write # NoWrite
  THEN [s |-> [r.s EXCEPT !.timer = FALSE], f |-> [r.f EXCEPT ![c] = "waiting"]]
  ELSE IF ~r.s.dirty
  THEN [s |-> [r.s EXCEPT !.timer = FALSE], f |-> [r.f EXCEPT ![c] = "ok"]]
  ELSE [s |-> [dirty |-> FALSE, timer |-> FALSE, write |-> version],
        f |-> [r.f EXCEPT ![c] = "writing"]]

Becomes(r) == state' = r.s /\ flush' = r.f

Chunk(f) ==
  /\ f \in active /\ version < MaxChunks
  /\ version' = version + 1
  /\ state' = ScheduleDownloadProgress(state)
  /\ UNCHANGED <<stored, flush, active, owed, errors>>

TimerFires ==
  /\ state.timer
  /\ Becomes(FlushDownloadProgress([s |-> state, f |-> flush], "timer"))
  /\ UNCHANGED <<version, stored, active, owed, errors>>

(* A format ends and insists on a write of its own.                         *)
FormatDone(f) ==
  /\ f \in active
  /\ active' = active \ {f} /\ owed' = [owed EXCEPT ![f] = version]
  /\ Becomes(FlushDownloadProgress(
       [s |-> [state EXCEPT !.dirty = TRUE], f |-> flush], f))
  /\ UNCHANGED <<version, stored, errors>>

(* Those who waited look again one after the other: the first of them       *)
(* writes, and the others wait for it.                                      *)
Again(r) ==
  LET waiting == {c \in Callers : r.f[c] = "waiting"} IN
  IF waiting = {} THEN {r}
  ELSE {LET q == FlushDownloadProgress(r, c) IN
        IF q.s.write # NoWrite THEN q
        ELSE [q EXCEPT !.f = [d \in Callers |->
                IF d \in waiting THEN "ok" ELSE r.f[d]]] : c \in waiting}

(* Fault: nobody looks whether there is more. *)
AfterWrite_Fault(s) == [s EXCEPT !.write = NoWrite]

AfterWrite(s) ==
  LET t == [s EXCEPT !.write = NoWrite] IN
  IF s.dirty THEN ScheduleDownloadProgress(t)
  ELSE IF active = {} THEN Blank ELSE t

WriteEnds ==
  LET done == [c \in Callers |-> IF flush[c] = "writing" THEN "ok" ELSE flush[c]]
  IN /\ state.write # NoWrite /\ stored' = state.write
     /\ \E r \in Again([s |-> AfterWrite(state), f |-> done]) : Becomes(r)
     /\ UNCHANGED <<version, active, owed, errors>>

(* With the writer everybody fails who waits for it; a failed format's own  *)
(* progress is taken out.                                                   *)
WriteFails ==
  LET failed == {c \in Callers : flush[c] \in {"writing", "waiting"}} IN
  /\ state.write # NoWrite /\ errors > 0 /\ errors' = errors - 1
  /\ flush' = [c \in Callers |-> IF c \in failed THEN "failed" ELSE flush[c]]
  /\ state' = IF failed = {"timer"} \/ active # {}
              THEN [state EXCEPT !.write = NoWrite] ELSE Blank
  /\ version' = IF failed = {"timer"} THEN version ELSE version + 1
  /\ UNCHANGED <<stored, active, owed>>

(* A format that is cleaned up.  With the last of them the mark that there  *)
(* is something to write goes, and nobody is owed his last write.           *)
Cleanup(f) ==
  /\ f \in active /\ active' = active \ {f}
  /\ version' = version + 1
  /\ state' = IF active' # {} THEN state
              ELSE [state EXCEPT !.timer = FALSE, !.dirty = FALSE]
  /\ owed' = IF active' = {} /\ state.dirty
             THEN [g \in Formats |-> 0] ELSE owed
  /\ UNCHANGED <<stored, flush, errors>>

Next ==
  \/ \E f \in Formats : Chunk(f) \/ FormatDone(f) \/ Cleanup(f)
  \/ TimerFires \/ WriteEnds \/ WriteFails

Spec == Init /\ [][Next]_vars

-----------------------------------------------------------------------------
(* Properties.                                                              *)

TypeOK ==
  /\ stored \in 0 .. version
  /\ state.write \in {NoWrite} \cup 0 .. version
  /\ Cardinality({c \in Callers : flush[c] = "writing"}) =
       (IF state.write = NoWrite THEN 0 ELSE 1)

(* When a format's last write has returned, the row has its end, unless the *)
(* cleanup of the other format dropped the mark.                            *)
EndIsStored ==
  \A f \in Formats : flush[f] = "ok" => stored >= owed[f]

(* No change waits without a timer or a write, as long as no write failed.  *)
NoForgottenProgress ==
  errors = MaxErrors /\ state.dirty =>
    \/ state.timer
    \/ state.write # NoWrite

(* After the last format nothing is kept.                                   *)
NothingKept ==
  active = {} /\ state.write = NoWrite /\ errors = MaxErrors => state = Blank

DownloadProgressSafe == EndIsStored /\ NoForgottenProgress /\ NothingKept
=============================================================================
