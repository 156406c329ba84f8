----------------------------- MODULE WorkItems -----------------------------
(***************************************************************************)
(* Projects, activities and tasks (app/projects/services.py): creating,    *)
(* changing, moving, closing and deleting work items in a tree whose rules *)
(* reach over several rows, while a save is guarded by the version of one. *)
(*                                                                         *)
(* A request is three steps.  Begin loads the item, the ancestors of its   *)
(* old and new place and, for a delete, its descendants: the session keeps *)
(* these rows as they were.  Flush sends the UPDATE with the version that  *)
(* was loaded, which locks the row until the end, and reads the            *)
(* descendants.  Commit makes the change visible.  A refused request is no *)
(* step: the handler rolls it back.  Names, dates, money, sort_order and   *)
(* who may do what are left out; the rules below hold for everybody.       *)
(***************************************************************************)
EXTENDS FiniteSets

CONSTANTS Projects, Activities, Tasks,   \* ids of the three kinds
          Requests,                      \* requests in flight
          NoParent                       \* the place of a root item

ASSUME WorkAssumption ==
  /\ Projects \cap Activities = {} /\ Projects \cap Tasks = {}
  /\ Activities \cap Tasks = {}
  /\ NoParent \notin Projects \cup Activities \cup Tasks

VARIABLES
  row,         \* the committed rows
  req,         \* the requests between their load and their commit
  overlapped   \* history: two requests were in flight at once

vars == <<row, req, overlapped>>

-----------------------------------------------------------------------------
Items == Projects \cup Activities \cup Tasks

Status == {"planned", "active", "blocked", "completed", "cancelled"}

TERMINAL == {"completed", "cancelled"}

TRANSITIONS == [planned   |-> {"active", "cancelled"},
                active    |-> {"blocked", "completed", "cancelled"},
                blocked   |-> {"active", "cancelled"},
                completed |-> {"active"},
                cancelled |-> {"planned"}]

\* Where an item may be placed: the foreign keys of its kind, one of them set.
Places(i) == {NoParent} \cup
             CASE i \in Projects   -> {}
               [] i \in Activities -> Projects
               [] i \in Tasks      -> Items

WorkRow == [state  : {"unborn", "live", "deleted"},
            status : Status,
            parent : Items \cup {NoParent}]

\* place and status are what an item will be; stale says that the row's
\* version is no longer the one loaded.
Request == [pc     : {"idle", "loaded", "flushed"},
            kind   : {"create", "update", "delete"},
            item   : Items \cup {NoParent},
            status : Status,
            place  : Items \cup {NoParent},
            stale  : BOOLEAN]

Idle == [pc |-> "idle", kind |-> "create", item |-> NoParent,
         status |-> "planned", place |-> NoParent, stale |-> FALSE]

Live(i)   == row[i].state = "live"
Closed(i) == row[i].status \in TERMINAL
Busy(q)   == req[q].pc # "idle"

Init == /\ row = [i \in Items |-> [state |-> "unborn", status |-> "planned",
                                   parent |-> NoParent]]
        /\ req = [q \in Requests |-> Idle]
        /\ overlapped = FALSE

-----------------------------------------------------------------------------
(***************************************************************************)
(* The tree.                                                               *)
(***************************************************************************)
\* parent() of every item of a set.
Up(S) == {row[i].parent : i \in S} \ {NoParent}

\* All that is met on the way from a place to its root: the smallest set that
\* has the place and is closed under parent().
WayUp(place) ==
  {a \in Items : \A S \in SUBSET Items :
     {place} \ {NoParent} \subseteq S /\ Up(S) \subseteq S => a \in S}

\* root() never returns.
Endless(place) == \E a \in WayUp(place) : a \in WayUp(row[a].parent)

\* can_access, what it asks of the rows: nothing on the way up is deleted.
Accessible(i) == /\ i \in Items /\ Live(i)
                 /\ ~Endless(i)
                 /\ \A a \in WayUp(i) : Live(a)

Children(S) == {c \in Items : Live(c) /\ row[c].parent \in S}

\* descendants(): live rows, as deep as the tree should be.
Descendants(i) ==
  LET activities == Children({i}) \cap Activities
      tasks      == Children({i} \cup activities) \cap Tasks
  IN  IF i \in Tasks THEN Children({i}) ELSE activities \cup tasks \cup Children(tasks)

-----------------------------------------------------------------------------
(***************************************************************************)
(* Loading.                                                                *)
(***************************************************************************)
\* "A task cannot be its own parent", "Subtasks can only be one level deep".
MayPlace(i, place) ==
  \/ place = NoParent
  \/ /\ Accessible(place)
     /\ place # i
     /\ place \in Tasks => row[place].parent \notin Tasks

\* "Reopen the parent work item before opening child work."
OpenAbove(status, place) ==
  status \notin TERMINAL => \A a \in WayUp(place) : ~Closed(a)

Begin(q, r) ==
  /\ req' = [req EXCEPT ![q] = r]
  /\ overlapped' = (overlapped \/ \E o \in Requests \ {q} : Busy(o))
  /\ UNCHANGED row

\* save_item without an item.
Create(q, i, place) ==
  /\ ~Busy(q)
  /\ row[i].state = "unborn" /\ \A o \in Requests : req[o].item # i
  /\ place \in Places(i) /\ MayPlace(i, place)
  /\ OpenAbove("planned", place)
  /\ Begin(q, [pc |-> "loaded", kind |-> "create", item |-> i,
               status |-> "planned", place |-> place, stale |-> FALSE])

\* save_item of an existing one: a new status, a new place, or both.
Update(q, i, status, place) ==
  /\ ~Busy(q)
  /\ status \in {row[i].status} \cup TRANSITIONS[row[i].status]
  /\ place \in Places(i)
  /\ Accessible(i)
  /\ place # row[i].parent => MayPlace(i, place)
  /\ OpenAbove(status, place)
  /\ Begin(q, [pc |-> "loaded", kind |-> "update", item |-> i,
               status |-> status, place |-> place, stale |-> FALSE])

\* Mutant: the children are not looked at.
DeleteParent(q, i) ==
  /\ ~Busy(q)
  /\ Accessible(i)
  /\ Begin(q, [pc |-> "loaded", kind |-> "delete", item |-> i,
               status |-> row[i].status, place |-> row[i].parent, stale |-> FALSE])

\* delete_item: "Delete or move child items first."
Delete(q, i) ==
  /\ ~Busy(q)
  /\ Accessible(i)
  /\ Descendants(i) = {}
  /\ Begin(q, [pc |-> "loaded", kind |-> "delete", item |-> i,
               status |-> row[i].status, place |-> row[i].parent, stale |-> FALSE])

-----------------------------------------------------------------------------
(***************************************************************************)
(* Writing.                                                                *)
(***************************************************************************)
\* Mutant: cancelling asks nothing of the children.
ChildrenAllowCancel(r) ==
  r.kind = "update" =>
    /\ r.place # row[r.item].parent => Descendants(r.item) = {}
    /\ r.status # row[r.item].status /\ r.status = "completed" =>
         \A d \in Descendants(r.item) : Closed(d)

\* What save_item asks of the descendants: "Move child items first before
\* changing hierarchy", "Complete or cancel child work before closing".
ChildrenAllow(r) ==
  r.kind = "update" =>
    /\ r.place # row[r.item].parent => Descendants(r.item) = {}
    /\ r.status # row[r.item].status /\ r.status \in TERMINAL =>
         \A d \in Descendants(r.item) : Closed(d)

Locked(i) == \E q \in Requests : req[q].pc = "flushed" /\ req[q].item = i

\* Mutant: the UPDATE does not name the version.
FlushBlind(q) ==
  /\ req[q].pc = "loaded"
  /\ ~Locked(req[q].item)
  /\ req' = [req EXCEPT ![q] = IF ChildrenAllow(req[q])
                                 THEN [req[q] EXCEPT !.pc = "flushed"]
                                 ELSE Idle]
  /\ UNCHANGED <<row, overlapped>>

\* The UPDATE waits for a row another request has flushed, and matches
\* nothing when the version has moved on.
Flush(q) ==
  /\ req[q].pc = "loaded"
  /\ ~Locked(req[q].item)
  /\ req' = [req EXCEPT ![q] = IF ~req[q].stale /\ ChildrenAllow(req[q])
                                 THEN [req[q] EXCEPT !.pc = "flushed"]
                                 ELSE Idle]
  /\ UNCHANGED <<row, overlapped>>

\* No query above reads more of a deleted row than that it is deleted.
Gone == [state |-> "deleted", status |-> "planned", parent |-> NoParent]

Written(r) == IF r.kind = "delete" THEN Gone
              ELSE [state |-> "live", status |-> r.status, parent |-> r.place]

Commit(q) ==
  /\ req[q].pc = "flushed"
  /\ row' = [row EXCEPT ![req[q].item] = Written(req[q])]
  /\ req' = [o \in Requests |->
               IF o = q THEN Idle
               ELSE IF Busy(o) /\ req[o].item = req[q].item
                 THEN [req[o] EXCEPT !.stale = TRUE]
                 ELSE req[o]]
  /\ UNCHANGED overlapped

\* The connection or the worker is lost: the transaction is rolled back.
Abort(q) ==
  /\ Busy(q)
  /\ req' = [req EXCEPT ![q] = Idle]
  /\ UNCHANGED <<row, overlapped>>

Next == \E q \in Requests :
          \/ \E i \in Items :
               \/ \E place \in Places(i) : Create(q, i, place)
               \/ \E status \in Status, place \in Places(i) : Update(q, i, status, place)
               \/ Delete(q, i)
          \/ Flush(q) \/ Commit(q) \/ Abort(q)

Spec == Init /\ [][Next]_vars

-----------------------------------------------------------------------------
(***************************************************************************)
(* Types; an item's place is one its kind allows.                          *)
(***************************************************************************)
TypeOK == /\ row \in [Items -> WorkRow]
          /\ \A i \in Items : row[i].parent \in Places(i)
          /\ req \in [Requests -> Request]
          /\ \A q \in Requests : Busy(q) => req[q].item \in Items
          /\ overlapped \in BOOLEAN

(***************************************************************************)
(* Closed work is closed all the way down: "Closing a project/activity     *)
(* requires every live descendant to be completed or cancelled", "Reopen   *)
(* closed ancestors before reopening children or adding outstanding child  *)
(* work underneath them" (projects/README.md).                             *)
(***************************************************************************)
ClosedAllTheWay ==
  \A i, d \in Items :
    Live(i) /\ Closed(i) /\ Live(d) /\ i \in WayUp(row[d].parent) => Closed(d)

(***************************************************************************)
(* Live work hangs on live work, subtasks are one level deep, and every    *)
(* way up ends: otherwise work is out of reach of every query, or root()   *)
(* never returns.                                                          *)
(***************************************************************************)
SoundTree ==
  \A i \in Items : Live(i) =>
    /\ row[i].parent # NoParent => Live(row[i].parent)
    /\ i \in Tasks /\ row[i].parent \in Tasks => row[row[i].parent].parent \notin Tasks
    /\ i \notin WayUp(row[i].parent)

(***************************************************************************)
(* root() returns, whatever item it is asked for (services.py, root: its   *)
(* loop has no other end).                                                 *)
(***************************************************************************)
EveryWayUpEnds == \A i \in Items : Live(i) => ~Endless(i)

(***************************************************************************)
(* While requests come one at a time the checks of save_item are enough to *)
(* keep closed work closed all the way down.                               *)
(***************************************************************************)
ClosingKept == overlapped \/ ClosedAllTheWay

(***************************************************************************)
(* ... and, with those of delete_item, to keep the tree sound.             *)
(***************************************************************************)
TreeKept == overlapped \/ SoundTree

(***************************************************************************)
(* However requests overlap, an item's status follows TRANSITIONS, and a   *)
(* deleted item stays as it is: "This item changed. Reload before saving." *)
(* (check_version, StaleDataError).                                        *)
(***************************************************************************)
HistoryRespected ==
  [][\A i \in Items : row'[i] # row[i] =>
       CASE row[i].state = "unborn"  -> row'[i].state = "live"
         [] row[i].state = "deleted" -> FALSE
         [] row[i].state = "live"    ->
              \/ row'[i] = Gone
              \/ /\ row'[i].state = "live"
                 /\ row'[i].status \in {row[i].status} \cup TRANSITIONS[row[i].status]]_vars
=============================================================================
