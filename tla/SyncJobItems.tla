---------------------------- MODULE SyncJobItems ----------------------------
(***************************************************************************)
(* The items of one sync job and the order they run in: the admin routes   *)
(* that add, move, reorder and delete items (app/admin/services/sync.py).  *)
(* _execute_job runs them by ascending sort_order; module SyncScheduler    *)
(* models that run and leaves the order out.                               *)
(*                                                                         *)
(* A route reads with its session, computes, and commits later: reading    *)
(* and committing are two steps of a request.  The ORM writes only the     *)
(* columns whose value changed, as absolute values.                        *)
(***************************************************************************)
EXTENDS Integers, Sequences, FiniteSets, Functions, SequencesExt

CONSTANTS JobItems,      \* SyncJobItem ids
          ItemRequests   \* requests in flight at once

ASSUME ItemsAssumption == IsFiniteSet(JobItems)

VARIABLES
  sortOrder,  \* sort_order of the items the job has: a function on them
  bornItems,  \* ids given out so far
  itemReq     \* the requests between their read and their commit

itemVars == <<sortOrder, bornItems, itemReq>>

PresentItems == DOMAIN sortOrder

\* A request holds the id it inserts, if any, and the sort_orders it writes.
NoRequest == [pc |-> "free", add |-> {}, writes |-> <<>>, want |-> <<>>]

Places == {sortOrder[i] : i \in PresentItems}

\* max(sort_order) or -1, plus one.  Zero is falsy in Python.
NextOrder == LET max == IF Places = {} THEN 0 ELSE Max(Places)
             IN  IF max = 0 THEN 0 ELSE max + 1

ItemsInit == sortOrder = <<>> /\ bornItems = {} /\ itemReq = [q \in ItemRequests |-> NoRequest]

-----------------------------------------------------------------------------
\* handle_sync_job_item_add, up to its commit.
AddItem(q, i) ==
  /\ itemReq[q].pc = "free"
  /\ i \notin bornItems
  /\ bornItems' = bornItems \cup {i}
  /\ itemReq' = [itemReq EXCEPT ![q] = [pc |-> "add", add |-> {i}, want |-> <<>>,
                                        writes |-> [k \in {i} |-> NextOrder]]]
  /\ UNCHANGED sortOrder

\* Mutant: the neighbour is any item on that side.
SiblingsAny(i, up) ==
  {s \in PresentItems : IF up THEN sortOrder[s] < sortOrder[i] ELSE sortOrder[s] > sortOrder[i]}

\* The adjacent item of handle_sync_job_item_update: the nearest one with a
\* smaller (greater) sort_order; the database picks one of equals.
Siblings(i, up) ==
  LET side == SiblingsAny(i, up)
  IN  {s \in side : \A t \in side : IF up THEN sortOrder[t] <= sortOrder[s]
                                          ELSE sortOrder[t] >= sortOrder[s]}

\* "move_up" and "move_down"; without a sibling nothing is written.
MoveItem(q, i, up) ==
  /\ itemReq[q].pc = "free"
  /\ i \in PresentItems
  /\ LET sides == Siblings(i, up)
         swap(s) == [k \in {i, s} |-> IF k = i THEN sortOrder[s] ELSE sortOrder[i]]
     IN  \E w \in IF sides = {} THEN {<<>>} ELSE {swap(s) : s \in sides} :
           itemReq' = [itemReq EXCEPT ![q] = [pc |-> "move", add |-> {}, want |-> <<>>,
                                            writes |-> w]]
  /\ UNCHANGED <<sortOrder, bornItems>>

\* The positions a reorder gives, for the items where they change something.
NewPlaces(ids) ==
  LET sent(i) == (CHOOSE n \in DOMAIN ids : ids[n] = i) - 1
  IN  [i \in {k \in PresentItems : sent(k) # sortOrder[k]} |-> sent(i)]

\* "reorder": the ids sent must be the job's items, each once.
ReorderItems(q, ids) ==
  /\ itemReq[q].pc = "free"
  /\ PresentItems # {}
  /\ ToSet(ids) = PresentItems /\ IsInjective(ids)
  /\ itemReq' = [itemReq EXCEPT ![q] = [pc |-> "reorder", add |-> {}, want |-> ids,
                                        writes |-> NewPlaces(ids)]]
  /\ UNCHANGED <<sortOrder, bornItems>>

\* The commit of any of them: an UPDATE that matches no row rolls it back.
CommitOrder(q) ==
  /\ itemReq[q].pc # "free"
  /\ sortOrder' = IF DOMAIN itemReq[q].writes \subseteq PresentItems \cup itemReq[q].add
                THEN [i \in PresentItems \cup itemReq[q].add |->
                        IF i \in DOMAIN itemReq[q].writes THEN itemReq[q].writes[i]
                                                      ELSE sortOrder[i]]
                ELSE sortOrder
  /\ itemReq' = [itemReq EXCEPT ![q] = NoRequest]
  /\ UNCHANGED bornItems

\* handle_sync_job_item_delete
DeleteItem(i) ==
  /\ i \in PresentItems
  /\ sortOrder' = Restrict(sortOrder, PresentItems \ {i})
  /\ UNCHANGED <<bornItems, itemReq>>

ItemsNext ==
  \/ \E q \in ItemRequests, i \in JobItems :
       AddItem(q, i) \/ \E up \in BOOLEAN : MoveItem(q, i, up)
  \/ \E q \in ItemRequests, ids \in SetToSeqs(PresentItems) : ReorderItems(q, ids)
  \/ \E q \in ItemRequests : CommitOrder(q)
  \/ \E i \in JobItems : DeleteItem(i)

ItemsSpec == ItemsInit /\ [][ItemsNext]_itemVars

-----------------------------------------------------------------------------
(***************************************************************************)
(* No two items of a job share a place, so that "items within a job are    *)
(* executed in ascending sort_order" (models.py, SyncJobItem) says which   *)
(* runs first.                                                             *)
(***************************************************************************)
DistinctOrders == IsInjective(sortOrder)

\* When requests come one at a time, the only step that makes two items share
\* a place is adding to a job whose every item has place 0.
CollisionExplained ==
  DistinctOrders /\ ~DistinctOrders' =>
    Places = {0} /\ \E q \in ItemRequests : itemReq[q].pc = "add"

\* A move swaps an item with its neighbour and leaves every other pair alone.
MoveSwapsNeighbours ==
  \A q \in ItemRequests : CommitOrder(q) /\ itemReq[q].pc = "move" /\ DistinctOrders =>
    \A j, k \in PresentItems :
      sortOrder[j] < sortOrder[k] =>
        IF {j, k} = DOMAIN itemReq[q].writes THEN sortOrder'[k] < sortOrder'[j]
                                             ELSE sortOrder'[j] < sortOrder'[k]

\* A reorder whose items are still there gives the order that was sent.
ReorderAsSent ==
  \A q \in ItemRequests :
    CommitOrder(q) /\ itemReq[q].pc = "reorder" /\ ToSet(itemReq[q].want) = PresentItems =>
      \A m, n \in DOMAIN itemReq[q].want :
        m < n => sortOrder'[itemReq[q].want[m]] < sortOrder'[itemReq[q].want[n]]

(***************************************************************************)
(* What a request on the items of a job does to their order is what its    *)
(* button says, whatever the places were before ("Find the adjacent item   *)
(* to swap sort_order with", handle_sync_job_item_update), deletions in    *)
(* between included; only adding to a job whose items all have place 0     *)
(* gives two items one place.                                              *)
(***************************************************************************)
OrderAsAsked ==
  [][CollisionExplained /\ MoveSwapsNeighbours /\ ReorderAsSent]_itemVars
=============================================================================
