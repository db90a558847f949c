---------------------------- MODULE LibraryPages ----------------------------
(* The lists of the library that are shown page by page (downloads, queue,  *)
(* saved playlists, items of a playlist, subscriptions): a page ends with   *)
(* tokens that name its first and last row, and a query takes the rows      *)
(* after or before a token, while rows are added, moved and removed.        *)
EXTENDS Integers, Sequences, FiniteSets, SequencesExt

CONSTANTS Ids,           \* what may be in the list: 1 .. n
          List,          \* "added", "touched", "items" or "titles"
          Synchronous,   \* an operation is one step: SQLite
          Grain,         \* the smallest times a token can tell apart
          Limit, MaxClock, MaxChanges

VARIABLES rows,    \* [id in the list -> its position and its time]
          page,    \* what the viewer sees
          walk,    \* what was seen since the first page, following "next"
          steady,  \* nothing changed since this page
          op,      \* [tab -> operation on a playlist under way]
          lapped,  \* two such operations overlapped
          clock, changes

vars == <<rows, page, walk, steady, op, lapped, clock, changes>>

Tabs == {1, 2}
NoOp == [pc |-> "no", id |-> 0, position |-> 0, other |-> 0, beyond |-> 0]
NoPage == [ids |-> <<>>, prev |-> <<>>, next |-> <<>>, way |-> "none",
           before |-> <<>>, kept |-> FALSE, again |-> FALSE]
NoWalk == [on |-> FALSE, seen |-> <<>>, stable |-> {}]
Row(position, time) == [position |-> position, time |-> time]

Init ==
  /\ \E S \in SUBSET Ids : \E time \in [S -> 0 .. 1] :
       /\ List = "items" => \A i, j \in S : i <= j => time[i] <= time[j]
       /\ rows = [i \in S |-> Row(IF List = "items" THEN i ELSE 0, time[i])]
  /\ page = NoPage /\ walk = NoWalk /\ steady = FALSE
  /\ op = [t \in Tabs |-> NoOp] /\ lapped = FALSE /\ clock = 1 /\ changes = 0

-----------------------------------------------------------------------------
(* The orders, the id last: newest first, by position, by title.            *)
NewestFirst(i, time) == <<0 - time, i>>
ByPosition(i, time) == <<rows[i].position, time, i>>
ByTitle(i) == <<i \div 2, i>>

Key(i, time) == CASE List = "items" -> ByPosition(i, time)
                  [] List = "titles" -> ByTitle(i)
                  [] OTHER -> NewestFirst(i, time)
KeyOf(i) == Key(i, rows[i].time)

(* A token keeps of a time what a Date has: milliseconds.                   *)
NormalizeTimestamp(time) == (time \div Grain) * Grain
EncodeCursor(i) == Key(i, NormalizeTimestamp(rows[i].time))

Less(a, b) == \E k \in DOMAIN a :
  a[k] < b[k] /\ \A l \in 1 .. k - 1 : a[l] = b[l]

Sorted(ids) == SetToSortSeq(ids, LAMBDA i, j : Less(KeyOf(i), KeyOf(j)))

(* Rows in the direction asked for, the nearest to the token first.         *)
(* Fault: the row of the token is taken again.                              *)
CursorRows_Fault(token, direction) ==
  IF direction = "previous"
  THEN Reverse(Sorted({i \in DOMAIN rows : ~Less(token, KeyOf(i))}))
  ELSE Sorted({i \in DOMAIN rows : token = <<>> \/ Less(token, KeyOf(i))})
CursorRows(token, direction) ==
  IF direction = "previous"
  THEN Reverse(Sorted({i \in DOMAIN rows : Less(KeyOf(i), token)}))
  ELSE Sorted({i \in DOMAIN rows : token = <<>> \/ Less(token, KeyOf(i))})

(* One row more than fits tells whether there are more.                     *)
(* Fault: the page before is cut at the wrong end.                          *)
GetCursorPage_Fault(token, direction) ==
  LET found == CursorRows(token, direction) IN
  [hasMore |-> Len(found) > Limit,
   items |-> IF direction = "previous"
             THEN SubSeq(Reverse(found), 1,
                         IF Len(found) < Limit THEN Len(found) ELSE Limit)
             ELSE SubSeq(found, 1,
                         IF Len(found) < Limit THEN Len(found) ELSE Limit)]
GetCursorPage(token, direction) ==
  LET found == CursorRows(token, direction)
      kept == SubSeq(found, 1, IF Len(found) < Limit THEN Len(found) ELSE Limit)
  IN [hasMore |-> Len(found) > Limit,
      items |-> IF direction = "previous" THEN Reverse(kept) ELSE kept]

(* The links of a page.  Coming from the other side, there is a page there. *)
(* Fault: the two sides are confused.                                       *)
BuildCursorNavigation_Fault(p, requested, direction) ==
  LET more(side) == IF direction = side THEN requested ELSE p.hasMore IN
  [prev |-> IF p.items # <<>> /\ more("previous")
            THEN EncodeCursor(Head(p.items)) ELSE <<>>,
   next |-> IF p.items # <<>> /\ more("next")
            THEN EncodeCursor(Last(p.items)) ELSE <<>>]
BuildCursorNavigation(p, requested, direction) ==
  LET more(side) == IF direction = side THEN p.hasMore ELSE requested IN
  [prev |-> IF p.items # <<>> /\ more("previous")
            THEN EncodeCursor(Head(p.items)) ELSE <<>>,
   next |-> IF p.items # <<>> /\ more("next")
            THEN EncodeCursor(Last(p.items)) ELSE <<>>]

(* `kept`: nothing changed since the page before; `again`: who turns back   *)
(* sees that page again.                                                    *)
Shown(token, direction, way) ==
  LET p == GetCursorPage(token, direction)
      links == BuildCursorNavigation(p, token # <<>>, direction)
      back == steady /\ page.kept /\ {way, page.way} = {"next", "previous"}
  IN [ids |-> p.items, prev |-> links.prev, next |-> links.next, way |-> way,
      before |-> page.ids, kept |-> steady,
      again |-> back => p.items = page.before]

FirstPage ==
  /\ page' = [Shown(<<>>, "next", "first") EXCEPT !.before = <<>>]
  /\ walk' = [on |-> TRUE, seen |-> page'.ids, stable |-> DOMAIN rows]
  /\ steady' = TRUE
  /\ UNCHANGED <<rows, op, lapped, clock, changes>>

NextPage ==
  /\ page.next # <<>>
  /\ page' = Shown(page.next, "next", "next")
  /\ walk' = [walk EXCEPT !.seen = IF walk.on THEN @ \o page'.ids ELSE <<>>]
  /\ steady' = TRUE
  /\ UNCHANGED <<rows, op, lapped, clock, changes>>

PreviousPage ==
  /\ page.prev # <<>>
  /\ page' = Shown(page.prev, "previous", "previous")
  /\ walk' = NoWalk /\ steady' = TRUE
  /\ UNCHANGED <<rows, op, lapped, clock, changes>>

-----------------------------------------------------------------------------
(* Changes of the rows.                                                     *)
Become(new) ==
  /\ rows' = new
  /\ steady' = (steady /\ new = rows)
  /\ walk' = [walk EXCEPT !.stable =
                {i \in @ : i \in DOMAIN new /\ new[i] = rows[i]}]

With(i, row) == [j \in DOMAIN rows \cup {i} |-> IF j = i THEN row ELSE rows[j]]
Without(i) == [j \in DOMAIN rows \ {i} |-> rows[j]]

Changes ==
  /\ changes < MaxChanges
  /\ changes' = changes + 1
  /\ lapped' = (lapped \/ \E t \in Tabs : op[t] # NoOp)

(* A download or queued video keeps the time when it came; saving a list    *)
(* again brings it to the top.                                              *)
AddRow(i) ==
  /\ List # "items" /\ Changes
  /\ Become(IF i \in DOMAIN rows /\ List # "touched" THEN rows
            ELSE With(i, Row(0, clock)))
  /\ UNCHANGED <<page, op, clock>>

RemoveRow(i) ==
  /\ i \in DOMAIN rows /\ Changes
  /\ Become(Without(i))
  /\ UNCHANGED <<page, op, clock>>

Positions == {rows[i].position : i \in DOMAIN rows}
NextPosition == 1 + (CHOOSE p \in Positions \cup {0} :
                       \A q \in Positions : q <= p)
Added(i, position) == IF i \in DOMAIN rows THEN rows
                      ELSE With(i, Row(position, clock))

(* The items beyond a position, and the nearest of them.                    *)
Beyond(position, up) ==
  {i \in DOMAIN rows : IF up THEN rows[i].position < position
                             ELSE rows[i].position > position}
Adjacent(i, position, up) ==
  \A j \in Beyond(position, up) :
    IF up THEN rows[j].position <= rows[i].position
          ELSE rows[j].position >= rows[i].position
SetPosition(these, i, position) ==
  IF i \in DOMAIN these THEN [these EXCEPT ![i].position = position] ELSE these

(* In SQLite nothing comes between the statements.                          *)
(* Fault: the other item keeps its position.                                *)
MoveLocalPlaylistItem_Fault(i, up) ==
  /\ Synchronous /\ List = "items" /\ i \in DOMAIN rows /\ Changes
  /\ IF Beyond(rows[i].position, up) = {} THEN Become(rows)
     ELSE \E other \in Beyond(rows[i].position, up) :
            /\ Adjacent(other, rows[i].position, up)
            /\ Become(SetPosition(rows, i, rows[other].position))
  /\ UNCHANGED <<page, op, clock>>
MoveLocalPlaylistItem(i, up) ==
  /\ Synchronous /\ List = "items" /\ i \in DOMAIN rows /\ Changes
  /\ IF Beyond(rows[i].position, up) = {} THEN Become(rows)
     ELSE \E other \in Beyond(rows[i].position, up) :
            /\ Adjacent(other, rows[i].position, up)
            /\ Become(SetPosition(SetPosition(rows, i, rows[other].position),
                                  other, rows[i].position))
  /\ UNCHANGED <<page, op, clock>>

AddLocalPlaylistItem(i) ==
  /\ Synchronous /\ List = "items" /\ Changes
  /\ Become(Added(i, NextPosition))
  /\ UNCHANGED <<page, op, clock>>

(* In Postgres each statement is on its own.                                *)
AddReads(t, i) ==
  /\ ~Synchronous /\ List = "items" /\ op[t] = NoOp /\ Changes
  /\ op' = [op EXCEPT ![t] = [NoOp EXCEPT !.pc = "add", !.id = i,
                                          !.position = NextPosition]]
  /\ UNCHANGED <<rows, page, walk, steady, clock>>

AddInserts(t) ==
  /\ op[t].pc = "add"
  /\ Become(Added(op[t].id, op[t].position))
  /\ op' = [op EXCEPT ![t] = NoOp]
  /\ UNCHANGED <<page, lapped, clock, changes>>

MoveReads(t, i) ==
  /\ ~Synchronous /\ List = "items" /\ op[t] = NoOp /\ i \in DOMAIN rows
  /\ Changes
  /\ \E way \in {"up", "down"} :
       op' = [op EXCEPT ![t] = [NoOp EXCEPT !.pc = way, !.id = i,
                                            !.position = rows[i].position]]
  /\ UNCHANGED <<rows, page, walk, steady, clock>>

MoveFindsAdjacent(t) ==
  LET up == op[t].pc = "up" IN
  /\ op[t].pc \in {"up", "down"}
  /\ IF Beyond(op[t].position, up) = {} THEN op' = [op EXCEPT ![t] = NoOp]
     ELSE \E other \in Beyond(op[t].position, up) :
            /\ Adjacent(other, op[t].position, up)
            /\ op' = [op EXCEPT ![t].pc = "found", ![t].other = other,
                                ![t].beyond = rows[other].position]
  /\ UNCHANGED <<rows, page, walk, steady, lapped, clock, changes>>

MoveUpdatesOne(t) ==
  /\ op[t].pc = "found"
  /\ Become(SetPosition(rows, op[t].id, op[t].beyond))
  /\ op' = [op EXCEPT ![t].pc = "half"]
  /\ UNCHANGED <<page, lapped, clock, changes>>

(* Fault: the other item goes where it is already.                          *)
MoveUpdatesOther_Fault(t) ==
  /\ op[t].pc = "half"
  /\ Become(SetPosition(rows, op[t].other, op[t].beyond))
  /\ op' = [op EXCEPT ![t] = NoOp]
  /\ UNCHANGED <<page, lapped, clock, changes>>
MoveUpdatesOther(t) ==
  /\ op[t].pc = "half"
  /\ Become(SetPosition(rows, op[t].other, op[t].position))
  /\ op' = [op EXCEPT ![t] = NoOp]
  /\ UNCHANGED <<page, lapped, clock, changes>>

Tick ==
  /\ clock < MaxClock /\ clock' = clock + 1
  /\ UNCHANGED <<rows, page, walk, steady, op, lapped, changes>>

Next ==
  \/ FirstPage \/ NextPage \/ PreviousPage \/ Tick
  \/ \E i \in Ids : \/ AddRow(i) \/ RemoveRow(i) \/ AddLocalPlaylistItem(i)
                    \/ \E up \in BOOLEAN : MoveLocalPlaylistItem(i, up)
  \/ \E t \in Tabs : \/ AddInserts(t) \/ MoveFindsAdjacent(t)
                     \/ MoveUpdatesOne(t) \/ MoveUpdatesOther(t)
                     \/ \E i \in Ids : AddReads(t, i) \/ MoveReads(t, i)

Spec == Init /\ [][Next]_vars

-----------------------------------------------------------------------------
(* Who turns back sees the page they came from, if nothing changed: the     *)
(* tokens of a page and both queries agree on where its rows are.           *)
TurningBackShowsThePageBefore == page.again \/ page.way = "none"

(* Walking from the first page to the last, a row that stays where it is    *)
(* is shown exactly once, whatever comes, goes or moves around it.          *)
ShownOnce ==
  LET times(i) == Cardinality({k \in DOMAIN walk.seen : walk.seen[k] = i}) IN
  walk.on => \A i \in walk.stable :
    /\ times(i) <= 1
    /\ page.next = <<>> => times(i) = 1

(* The items of a playlist have positions of their own, so that moving one  *)
(* moves it past one other; in Postgres unless operations overlapped.       *)
OwnPositions ==
  \/ List # "items" \/ lapped \/ \E t \in Tabs : op[t].pc = "half"
  \/ \A i, j \in DOMAIN rows : rows[i].position = rows[j].position => i = j

PagesSafe == TurningBackShowsThePageBefore /\ ShownOnce /\ OwnPositions
=============================================================================
