---------------------------- MODULE HlsPlaylist ----------------------------
(* What the HLS provider keeps when it loads a live playlist again: which   *)
(* answers it takes, where their segments lie on its timeline, and what     *)
(* becomes of the segments and partial segments it was fetching.            *)
(*                                                                          *)
(* The encoder publishes parts, PartsPer to a segment; its n-th playlist    *)
(* shows the last Window segments, the parts of the unfinished one, and a   *)
(* hint of the next part.  It can start anew with low media sequence        *)
(* numbers.  Caches answer with playlists up to Lag parts old, but never    *)
(* with the old run after they answered with the new one.  A part is the    *)
(* unit of time.  An object in the lists of a track is known by run, media  *)
(* sequence and part, Whole standing for the segment itself.                *)
EXTENDS Integers, Sequences, FiniteSets, SequencesExt

CONSTANTS Tracks,           \* {"video"} or {"video", "audio"}
          PartsPer, Window,
          StartAt,          \* media sequence at which the player joins
          MaxOld, MaxNew,   \* segments the first and the second run publish
          Lag, MaxFlights,
          MaxOdd            \* failures, and fetches far from the live edge

VARIABLES srv, track, got, left,
          placed            \* where the lists of the player put segments
vars == <<srv, track, got, left, placed>>

Whole == 0
Failed == [run |-> 0, n |-> 0]
Base(run) == IF run = 1 THEN StartAt - Window ELSE 0
Snapshot(run, n) == [run |-> run, n |-> n]
Full(s) == s.n \div PartsPer
Rest(s) == s.n % PartsPer
First(s) == IF Full(s) - Window > Base(s.run) THEN Full(s) - Window
            ELSE Base(s.run)
Wall(run, ms) == (IF run = 1 THEN 0 ELSE srv.wall) + ms * PartsPer
Busy == {"fetching", "fetched", "appending"}

-----------------------------------------------------------------------------
(* Parsing.  Only the last finished segment still names its parts.          *)

Segment(s, ms) ==
  [run |-> s.run, ms |-> ms, start |-> ms * PartsPer, epoch |-> 0,
   ds |-> IF srv.numbered THEN s.run - 1 ELSE 0,
   partial |-> ms = Full(s), st |-> "", own |-> TRUE,
   parts |-> [p \in 1 .. CASE ms = Full(s) -> Rest(s)
                           [] ms = Full(s) - 1 /\ PartsPer > 1 -> PartsPer
                           [] OTHER -> 0 |-> ""]]

Parse(s) ==
  [i \in 1 .. Full(s) - First(s) + (IF Rest(s) > 0 THEN 1 ELSE 0) |->
     Segment(s, First(s) + i - 1)]

EndOf(x) == x.start + (IF x.partial THEN Len(x.parts) ELSE PartsPer)
Hint(s) == [run |-> s.run, ms |-> Full(s), part |-> Rest(s) + 1]

DeliveryCursor(segs) ==
  LET tail == Last(segs) IN
  [ms |-> tail.ms, partial |-> tail.partial, ds |-> tail.ds,
   part |-> IF tail.partial THEN Len(tail.parts) ELSE 0,
   date |-> IF srv.dated
            THEN Wall(tail.run, tail.ms) + EndOf(tail) - tail.start ELSE 0]

Later(a, b) ==
  \/ a.ms > b.ms
  \/ /\ a.ms = b.ms
     /\ \/ b.partial /\ ~a.partial
        \/ a.partial = b.partial /\ a.part > b.part

-----------------------------------------------------------------------------
(* Which playlists are taken.                                               *)

(* Fault: any playlist that lies far enough back counts as a restart. *)
AcceptPlaylistCursor_Fault(t, segs) ==
  LET in == DeliveryCursor(segs)
      back == Later(t.cursor, in)
  IN [ok |-> TRUE, reset |-> back, cand |-> {}, cursor |-> in]

AcceptPlaylistCursor(t, segs) ==
  LET in == DeliveryCursor(segs)
      back == Later(t.cursor, in)
      newer == \/ srv.dated /\ in.date > t.cursor.date
               \/ in.ds > t.cursor.ds
      drop == t.cursor.ms - in.ms >= (IF Len(segs) > 3 THEN Len(segs) ELSE 3)
      confirmed == drop /\ \E x \in t.cand : Later(in, x)
      first == \A x \in t.cand : Later(x, in)
  IN IF ~back THEN [ok |-> TRUE, reset |-> FALSE, cand |-> {}, cursor |-> in]
     ELSE IF newer \/ confirmed
     THEN [ok |-> TRUE, reset |-> TRUE, cand |-> {}, cursor |-> in]
     ELSE [ok |-> FALSE, reset |-> FALSE, cursor |-> t.cursor,
           cand |-> IF drop /\ first THEN {in} ELSE t.cand]

(* Fault: the new run keeps the times its numbers give it. *)
NextEpoch_Fault(t, segs) ==
  [id |-> t.epoch.id + 1, time |-> 0, ds |-> t.epoch.ds]

(* A new run goes on where the old list ended, or where its dates put it.   *)
NextEpoch(t, segs) ==
  LET tail == Last(t.segs)
      start == IF srv.dated
               THEN Head(t.segs).start + Wall(segs[1].run, segs[1].ms)
                      - Wall(Head(t.segs).run, Head(t.segs).ms)
               ELSE EndOf(tail)
      ahead == tail.ds + 1 - segs[1].ds
  IN [id |-> t.epoch.id + 1, time |-> start - segs[1].start,
      ds |-> IF ahead > 0 THEN ahead ELSE 0]

ApplyPlaylistEpoch(epoch, segs) ==
  [i \in DOMAIN segs |->
     [segs[i] EXCEPT !.start = @ + epoch.time, !.ds = @ + epoch.ds,
                     !.epoch = epoch.id]]

-----------------------------------------------------------------------------
(* What the objects of the last list hand on to those of the next.          *)

ReconcilePreloadHints(hints, segs) ==
  [i \in DOMAIN segs |-> [segs[i] EXCEPT !.parts =
     [p \in DOMAIN @ |->
        LET h == {x \in hints : /\ x.run = segs[i].run /\ x.ms = segs[i].ms
                                /\ x.part = p /\ x.st # "failed"}
        IN IF h = {} THEN @[p] ELSE (CHOOSE x \in h : TRUE).st]]]

Appended(parts) == parts # <<>> /\ \A p \in DOMAIN parts : parts[p] = "appended"

(* Fault: the parts known before need not reach to the parent's end. *)
MarkCompletedParent_Fault(x, previous) ==
  IF ~x.partial /\ (Appended(x.parts) \/ Appended(previous))
  THEN [x EXCEPT !.st = "appended"] ELSE x

MarkCompletedParent(x, previous) ==
  IF /\ ~x.partial
     /\ \/ Appended(x.parts)
        \/ Appended(previous) /\ Len(previous) >= PartsPer
  THEN [x EXCEPT !.st = "appended"] ELSE x

MergePartState(old, parts) ==
  [p \in DOMAIN parts |-> IF p \in DOMAIN old THEN old[p] ELSE parts[p]]

(* Parts point to the fresh parent, also where the old one is kept.         *)
MergeSegment(old, x) ==
  LET m == [x EXCEPT !.parts = MergePartState(old.parts, @),
                     !.st = IF old.st = "failed" THEN "" ELSE old.st]
  IN IF old.st \in Busy
     THEN MarkCompletedParent([m EXCEPT !.own = FALSE], <<>>)
     ELSE MarkCompletedParent(m, old.parts)

SameSegment(x, y) == x.run = y.run /\ x.ms = y.ms /\ x.ds = y.ds

MergeSegmentState(old, segs) ==
  [i \in DOMAIN segs |->
     LET o == {j \in DOMAIN old : SameSegment(old[j], segs[i])}
     IN IF o = {} THEN segs[i]
        ELSE MergeSegment(old[CHOOSE j \in o : TRUE], segs[i])]

(* A request for a hinted part is given up when the hint is gone; the state *)
(* of those of an old run is forgotten altogether.                          *)
StillHinted(hints, s) ==
  {h \in hints : [run |-> h.run, ms |-> h.ms, part |-> h.part] = Hint(s)}
NoHints == {}

Load(t, s) ==
  LET parsed == Parse(s)
      acc == AcceptPlaylistCursor(t, parsed)
      epoch == IF acc.reset THEN NextEpoch(t, parsed) ELSE t.epoch
      timed == ApplyPlaylistEpoch(epoch, parsed)
      kept == ReconcilePreloadHints(t.hints, timed)
  IN IF ~acc.ok THEN [t EXCEPT !.cand = acc.cand]
     ELSE [t EXCEPT
       !.cand = acc.cand, !.cursor = acc.cursor, !.epoch = epoch,
       !.snap = s,
       !.hints = IF acc.reset THEN NoHints ELSE StillHinted(@, s),
       !.segs = IF acc.reset THEN timed ELSE MergeSegmentState(@, kept)]

-----------------------------------------------------------------------------
(* Server and refresh.                                                      *)

NoCursor == [ms |-> -1, partial |-> FALSE, ds |-> 0, part |-> 0, date |-> 0]
NewTrack == [cursor |-> NoCursor, cand |-> {}, snap |-> Failed, hints |-> {},
             epoch |-> [id |-> 0, time |-> 0, ds |-> 0], segs |-> <<>>,
             flights |-> {}, app |-> {}, seen |-> 1]

Places(x) == UNION {{[track |-> t, run |-> g.run, ms |-> g.ms, at |-> g.start]
                        : g \in Range(x[t].segs)} : t \in Tracks}

Init ==
  /\ srv \in [run : {1}, n : {StartAt * PartsPer}, wall : {0},
              dated : IF MaxNew = 0 THEN {FALSE} ELSE BOOLEAN,
              numbered : IF MaxNew = 0 THEN {FALSE} ELSE BOOLEAN]
  /\ track = [t \in Tracks |-> Load(NewTrack, Snapshot(1, srv.n))]
  /\ got = {}
  /\ left = MaxOdd
  /\ placed = Places(track)

Publish ==
  /\ srv.n < PartsPer * (IF srv.run = 1 THEN MaxOld ELSE MaxNew)
  /\ srv' = [srv EXCEPT !.n = @ + 1]
  /\ UNCHANGED <<track, got, left, placed>>

Restart ==
  /\ srv.run = 1 /\ MaxNew > 0
  /\ srv' = [srv EXCEPT !.run = 2, !.n = 1, !.wall = srv.n + 1]
  /\ UNCHANGED <<track, got, left, placed>>

(* The playlists a cache may answer with.                                   *)
Answers(t) ==
  LET lowest(run) == IF run = 1 THEN StartAt * PartsPer ELSE 1
      old == IF srv.run = 2 /\ track[t].seen = 1
             THEN {Snapshot(1, n) : n \in {srv.wall - 1}} ELSE {}
  IN old \cup {Snapshot(srv.run, n) :
        n \in {m \in srv.n - Lag .. srv.n : m >= lowest(srv.run)}}

Away(x, y) == IF x > y THEN x - y ELSE y - x


(* A restart is taken by both tracks, at ends that fit, or by none.         *)
Held(ans, draft) ==
  LET reset(t) == ans[t] # Failed /\ draft[t].epoch # track[t].epoch
      ready == \A t \in Tracks : ans[t] # Failed
                                 /\ DeliveryCursor(Parse(ans[t])) = draft[t].cursor
      ends == {EndOf(Last(draft[t].segs)) : t \in Tracks}
  IN /\ Cardinality(Tracks) > 1
     /\ \E t \in Tracks : reset(t)
     /\ ~ready \/ \E x, y \in ends : Away(x, y) > 2 * PartsPer

(* Both playlists are first loaded into copies of what the tracks keep; one *)
(* that failed or cannot be loaded leaves its copy as it is.                *)
RefreshDraft(ans) ==
  [t \in Tracks |-> IF ans[t] = Failed THEN track[t]
                    ELSE Load(track[t], ans[t])]

RefreshMediaPlaylist(ans) ==
  LET draft == RefreshDraft(ans)
      asked(x, t) == [x EXCEPT !.seen = IF ans[t] = Failed THEN @
                                        ELSE ans[t].run]
      held(t) ==
        IF ans[t] = Failed THEN track[t]
        ELSE [track[t] EXCEPT !.cand =
                IF draft[t].epoch # track[t].epoch THEN {draft[t].cursor}
                ELSE IF draft[t].cand # {} THEN draft[t].cand ELSE @]
  IN /\ track' = [t \in Tracks |->
           asked(IF Held(ans, draft) THEN held(t)
                 ELSE IF ans["video"] = Failed THEN track[t]
                 ELSE draft[t], t)]
     /\ placed' = placed \cup Places(track')
     /\ UNCHANGED <<srv, got, left>>

-----------------------------------------------------------------------------
(* Fetching and appending.                                                  *)

(* Only the first part of a segment can be decoded by itself.               *)
PlayableParts(t, parts) ==
  {p \in DOMAIN parts :
     IF t = "video" THEN \A q \in 1 .. p : parts[q] # "failed"
     ELSE parts[p] # "failed"}

(* The playhead is near the live edge or it is not.                         *)
PlayableSegments(t, near) ==
  UNION {LET x == track[t].segs[i]
             usable == IF near /\ PartsPer > 1 /\ x.st # "appended"
                       THEN PlayableParts(t, x.parts) ELSE {}
             whole == \E p \in DOMAIN x.parts : x.parts[p] = "failed"
         IN IF usable # {} /\ (~whole \/ x.partial)
            THEN {[i |-> i, part |-> p] : p \in usable}
            ELSE IF x.partial THEN {} ELSE {[i |-> i, part |-> Whole]}
         : i \in DOMAIN track[t].segs}

Object(t, o) ==
  LET x == track[t].segs[o.i] IN
  [run |-> x.run, ms |-> x.ms, part |-> o.part, epoch |-> x.epoch]
StateOf(t, o) == LET x == track[t].segs[o.i] IN
                 IF o.part = Whole THEN x.st ELSE x.parts[o.part]
StartOf(t, o) == track[t].segs[o.i].start + (IF o.part = Whole THEN 0
                                             ELSE o.part - 1)

(* The object as it stands in the lists now, if it still does.              *)
Spots(x, f) ==
  {i \in DOMAIN x.segs : /\ x.segs[i].run = f.run /\ x.segs[i].ms = f.ms
                         /\ x.segs[i].epoch = f.epoch
                         /\ f.part = Whole \/ f.part \in DOMAIN x.segs[i].parts}
Update(x, f, from, to) ==
  [x EXCEPT
    !.segs = [i \in DOMAIN @ |->
      IF i \notin Spots(x, f) THEN @[i]
      ELSE IF f.part = Whole
      THEN (IF @[i].st = from THEN [@[i] EXCEPT !.st = to] ELSE @[i])
      ELSE IF @[i].parts[f.part] = from THEN [@[i] EXCEPT !.parts[f.part] = to]
      ELSE @[i]],
    !.hints = {IF /\ h.run = f.run /\ h.ms = f.ms /\ h.part = f.part
                  /\ h.st = from THEN [h EXCEPT !.st = to] ELSE h : h \in @}]

(* What lies first is asked for first, from where the player joined.        *)
Candidates(t, near) ==
  {o \in PlayableSegments(t, near) :
     StateOf(t, o) = "" /\ StartOf(t, o) >= (StartAt - 1) * PartsPer}

Capacity(t) == MaxFlights - Cardinality(track[t].flights)

StartSegmentFetch(t, near) ==
  /\ Capacity(t) > 0
  /\ \E o \in Candidates(t, near) :
       /\ \A q \in Candidates(t, near) : StartOf(t, o) <= StartOf(t, q)
       /\ Object(t, o) \notin track[t].flights
       /\ track' = [track EXCEPT ![t] =
            [Update(@, Object(t, o), "", "fetching") EXCEPT
               !.flights = @ \cup {Object(t, o)}]]
  /\ near \/ left > 0
  /\ left' = IF near THEN left ELSE left - 1
  /\ UNCHANGED <<srv, got, placed>>

FetchPreloadHint(t) ==
  LET x == track[t]
      h == Hint(x.snap)
      f == [run |-> h.run, ms |-> h.ms, part |-> h.part, epoch |-> x.epoch.id]
  IN /\ PartsPer > 1
     /\ Capacity(t) > 0
     /\ f \notin x.flights
     /\ x.hints = {}
     /\ track' = [track EXCEPT
          ![t].hints = {[run |-> h.run, ms |-> h.ms, part |-> h.part,
                         st |-> "fetching"]},
          ![t].flights = @ \cup {f}]
     /\ UNCHANGED <<srv, got, left, placed>>

FetchEnds(t, f) ==
  /\ track' = [track EXCEPT ![t] =
       [Update(@, f, "fetching", "fetched") EXCEPT !.flights = @ \ {f}]]
  /\ UNCHANGED <<srv, got, left, placed>>

(* A part that failed leaves its segment to be fetched whole; a segment is  *)
(* tried again after a refresh.                                             *)
FetchFails(t, f) ==
  LET x == Update(track[t], f, "fetching",
                  IF f.part = Whole THEN "" ELSE "failed")
      again(i) == /\ f.part # Whole /\ i \in Spots(x, f) /\ x.segs[i].own
                  /\ x.segs[i].parts[f.part] = "failed"
  IN /\ left > 0 /\ left' = left - 1
     /\ track' = [track EXCEPT ![t] =
          [x EXCEPT !.flights = @ \ {f},
                    !.segs = [i \in DOMAIN @ |->
                      IF again(i) THEN [@[i] EXCEPT !.st = ""] ELSE @[i]]]]
     /\ UNCHANGED <<srv, got, placed>>

NextFetched(t, near) ==
  {o \in PlayableSegments(t, near) :
     /\ StateOf(t, o) = "fetched"
     /\ \A q \in PlayableSegments(t, near) :
          StartOf(t, q) < StartOf(t, o) =>
            StateOf(t, q) \notin Busy}

DrainAppendQueue(t, near) ==
  /\ track[t].app = {}
  /\ \E o \in NextFetched(t, near) :
       track' = [track EXCEPT ![t] =
         [Update(@, Object(t, o), "fetched", "appending") EXCEPT
            !.app = {Object(t, o)}]]
  /\ UNCHANGED <<srv, got, left, placed>>

Unit(t, f, p) == [track |-> t, run |-> f.run, ms |-> f.ms, part |-> p]

AppendEnds(t, f) ==
  LET x == Update(track[t], f, "appending", "appended")
      parent(i) == f.part # Whole /\ i \in Spots(x, f) /\ x.segs[i].own
  IN /\ got' = got \cup (IF f.part = Whole
                         THEN {Unit(t, f, p) : p \in 1 .. PartsPer}
                         ELSE {Unit(t, f, f.part)})
     /\ track' = [track EXCEPT ![t] =
          [x EXCEPT !.app = {},
                    !.segs = [i \in DOMAIN @ |->
                      IF parent(i) THEN MarkCompletedParent(@[i], <<>>)
                      ELSE @[i]]]]
     /\ UNCHANGED <<srv, left, placed>>

Next ==
  \/ Publish
  \/ Restart
  \/ \E ans \in [Tracks -> UNION {Answers(t) : t \in Tracks} \cup {Failed}] :
       /\ \A t \in Tracks : ans[t] \in Answers(t) \cup {Failed}
       /\ RefreshMediaPlaylist(ans)
  \/ \E t \in Tracks :
       \/ \E near \in BOOLEAN : \/ StartSegmentFetch(t, near)
                                \/ DrainAppendQueue(t, near)
       \/ FetchPreloadHint(t)
       \/ \E f \in track[t].flights : FetchEnds(t, f) \/ FetchFails(t, f)
       \/ \E f \in track[t].app : AppendEnds(t, f)

Spec == Init /\ [][Next]_vars

-----------------------------------------------------------------------------
(* Properties.                                                              *)

States == Busy \cup {"", "appended", "failed"}

(* Lists hold segments and parts in the states the provider gives them.     *)
TypeOK ==
  \A t \in Tracks :
    /\ \A i \in DOMAIN track[t].segs :
         /\ track[t].segs[i].st \in States
         /\ \A p \in DOMAIN track[t].segs[i].parts :
              track[t].segs[i].parts[p] \in States
    /\ \A h \in track[t].hints : h.st \in Busy \cup {"failed"}

Has(t, x, p) == Unit(t, x, p) \in got

(* What a list calls appended has been: a part itself, of a segment every   *)
(* part of it.                                                              *)
MarksAreTrue ==
  \A t \in Tracks : \A i \in DOMAIN track[t].segs :
    LET x == track[t].segs[i] IN
    /\ x.st = "appended" => \A p \in 1 .. PartsPer : Has(t, x, p)
    /\ \A p \in DOMAIN x.parts : x.parts[p] = "appended" => Has(t, x, p)

(* What a list calls fetching or appending is: a request or an append that  *)
(* will settle it is under way, so nothing waits for it for ever.           *)
NoGhosts ==
  \A t \in Tracks : \A i \in DOMAIN track[t].segs :
    LET x == track[t].segs[i]
        by(p) == [run |-> x.run, ms |-> x.ms, part |-> p, epoch |-> x.epoch]
        real(p, st) ==
          /\ st = "fetching" => by(p) \in track[t].flights
          /\ st = "appending" => by(p) \in track[t].app
    IN /\ real(Whole, x.st)
       /\ \A p \in DOMAIN x.parts : real(p, x.parts[p])

(* Two segments never lie at the same place, and later media lies later,    *)
(* across a restart of the encoder too.                                     *)
OneTimeline ==
  \A u, v \in placed :
    u.track = v.track =>
      /\ u.run = v.run => u.at - v.at = (u.ms - v.ms) * PartsPer
      /\ u.run < v.run => u.at < v.at

(* With dates the tracks stay together: the same moment lies at the same    *)
(* place in both.                                                           *)
InSync ==
  srv.dated => \A u, v \in placed :
    u.run = v.run /\ u.ms = v.ms => u.at = v.at

HlsPlaylistSafe == MarksAreTrue /\ NoGhosts /\ OneTimeline /\ InSync

(* A refresh never goes back: neither to an older playlist of a run nor to  *)
(* the run before.                                                          *)
NeverBack ==
  \A t \in Tracks :
    \/ track'[t].snap.run > track[t].snap.run
    \/ /\ track'[t].snap.run = track[t].snap.run
       /\ track'[t].snap.n >= track[t].snap.n
=============================================================================
