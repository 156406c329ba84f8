-------------------------- MODULE ReleaseDecisions --------------------------
(***************************************************************************)
(* Cash Release Impact: the purchase-order releases a buyer stages and     *)
(* commits (app/purchasing/materials/services/release_decisions.py), the   *)
(* page's POST routes (routes.py), the memoized calculation they work from *)
(* (release_impact.py), and run_batch, which reloads the purchase orders,  *)
(* closes the decisions on received releases and clears the memo           *)
(* (app/core/epicor_importers.py).                                         *)
(*                                                                         *)
(* A route reads with its session and commits later: loading and saving    *)
(* are two steps.  The ORM writes only the columns whose value changed, by *)
(* primary key.  A joint scenario's figures are stood for by the set of    *)
(* releases it was calculated for.                                         *)
(***************************************************************************)
EXTENDS Integers, FiniteSets

CONSTANTS Releases,   \* purchase-order releases: po_num, po_line, po_release
          Users,      \* browser tabs, one request in flight each
          MemoSize    \* bound on the memoized results

ASSUME DecisionsAssumption == MemoSize \in Nat

VARIABLES
  epicor,   \* each release in Epicor
  po,       \* its row in the purchase_orders table
  status,   \* the release_decisions rows
  group,    \* staged rows: the releases their snapshot was calculated for
  memo,     \* the results _get_cached_release_impact keeps
  page,     \* the committed panel each tab shows, and the releases the table
            \* listed when it was calculated
  req,      \* the requests in flight
  sync      \* the run_batch in progress: its reconciliation

vars == <<epicor, po, status, group, memo, page, req, sync>>

-----------------------------------------------------------------------------
\* "none" is a release without a row; a row is never deleted.
Status == {"none", "staged", "committed", "fulfilled", "withdrawn"}

Having(s) == {r \in Releases : status[r] = s}
Staged    == Having("staged")
Committed == Having("committed")
Active    == Staged \cup Committed

\* A release is gone without a row or with nothing outstanding; a blank one
\* has a row without its date or its quantity, which are nullable.
Row == {"gone", "blank", "listed"}

\* What reconciliation takes for open, and what the page's queries find:
\* outstanding_qty > 0 and due_date.isnot(None).
Outstanding == {r \in Releases : po[r] # "gone"}
Listed      == {r \in Releases : po[r] = "listed"}

\* A result by its arguments, and the releases the table listed when it was
\* calculated.
Result == [committed : SUBSET Releases, staged : SUBSET Releases,
           listed : SUBSET Releases]

Nothing == [committed |-> {}, staged |-> {}, listed |-> {}]
NoPage  == [shown |-> {}, listed |-> {}]

\* writes are the changed statuses; inserted and selected the new rows and
\* the rows that get a new snapshot.
Request == [pc       : {"idle", "calculate", "load", "save"},
            kind     : {"none", "view", "stage", "commit", "clear", "update"},
            result   : Result,
            writes   : UNION {[S -> Status] : S \in SUBSET Releases},
            inserted : SUBSET Releases,
            selected : SUBSET Releases]

Idle == [pc |-> "idle", kind |-> "none", result |-> Nothing, writes |-> <<>>,
         inserted |-> {}, selected |-> {}]

Init ==
  /\ epicor = [r \in Releases |-> "gone"] /\ po = epicor
  /\ status = [r \in Releases |-> "none"]
  /\ group = [r \in Releases |-> {}]
  /\ memo = {}
  /\ page = [u \in Users |-> NoPage]
  /\ req = [u \in Users |-> Idle]
  /\ sync = [pc |-> "idle", close |-> {}]

-----------------------------------------------------------------------------
(***************************************************************************)
(* get_release_impact.                                                     *)
(***************************************************************************)
\* committed_pos: the committed releases the table lists, in scope or not.
Panel(result) == result.committed \cap result.listed

\* Mutant: committed releases stay on the list.
CandidatesCommittedToo(result) == result.staged \cap result.listed

\* The staged releases that can be candidates: those the table lists and
\* nobody has committed.
Candidates(result) == (result.staged \cap result.listed) \ result.committed

\* A request that has its result: the page is rendered, or the selection is
\* saved next.
Calculated(u, kind, result) ==
  IF kind = "view"
    THEN /\ page' = [page EXCEPT ![u] = [shown |-> Panel(result),
                                          listed |-> result.listed]]
         /\ req' = [req EXCEPT ![u] = Idle]
    ELSE /\ page' = [page EXCEPT ![u] = NoPage]
         /\ req' = [req EXCEPT ![u] = [Idle EXCEPT !.pc = "load", !.kind = kind,
                                                   !.result = result]]

\* A memoized result is used as it is; otherwise the calculation begins.
Ask(u, kind, staged) ==
  LET hits == {m \in memo : m.committed = Committed /\ m.staged = staged}
  IN  /\ req[u].pc = "idle"
      /\ \/ \E m \in hits : Calculated(u, kind, m)
         \/ /\ hits = {}
            /\ req' = [req EXCEPT ![u] =
                         [Idle EXCEPT !.pc = "calculate", !.kind = kind,
                                      !.result = [committed |-> Committed,
                                                  staged |-> staged, listed |-> Listed]]]
            /\ page' = [page EXCEPT ![u] = NoPage]
      /\ UNCHANGED <<epicor, po, status, group, memo, sync>>

\* It ends, and its result is stored; a full cache drops another one.
Calculate(u) ==
  LET result == req[u].result
      others == {m \in memo : m.committed # result.committed \/ m.staged # result.staged}
  IN  /\ req[u].pc = "calculate"
      /\ memo' \in {kept \cup {result} : kept \in {k \in SUBSET others :
                       IF Cardinality(others) < MemoSize THEN k = others
                       ELSE Cardinality(k) = MemoSize - 1}}
      /\ Calculated(u, req[u].kind, result)
      /\ UNCHANGED <<epicor, po, status, group, sync>>

\* After 300 seconds.
Expire == \E m \in memo : /\ memo' = memo \ {m}
                          /\ UNCHANGED <<epicor, po, status, group, page, req, sync>>

View(u) == Ask(u, "view", Staged)

-----------------------------------------------------------------------------
(***************************************************************************)
(* The POST routes.                                                        *)
(***************************************************************************)
\* A request that has loaded its rows and has something to write.
Saving(kind, writes, inserted, selected) ==
  [Idle EXCEPT !.pc = "save", !.kind = kind, !.writes = writes,
               !.inserted = inserted, !.selected = selected]

\* release_impact_stage, with at least one release ticked.
Stage(u, ticked) == ticked # {} /\ Ask(u, "stage", ticked)

\* Mutant: what was staged before stays staged.
StageLoadAdding(u) ==
  /\ req[u].pc = "load"
  /\ \E selected \in SUBSET Candidates(req[u].result) :
       req' = [req EXCEPT ![u] =
                 Saving("stage", [r \in selected \ Staged |-> "staged"],
                        selected \cap Having("none"), selected)]
  /\ UNCHANGED <<epicor, po, status, group, memo, page, sync>>

\* stage_selection.  Which candidates have demand to unlock is left open; the
\* others ticked are dropped.  What else was staged is withdrawn.
StageLoad(u) ==
  /\ req[u].pc = "load"
  /\ \E selected \in SUBSET Candidates(req[u].result) :
       req' = [req EXCEPT ![u] =
                 Saving("stage",
                        [r \in (selected \ Staged) \cup (Staged \ selected) |->
                           IF r \in selected THEN "staged" ELSE "withdrawn"],
                        selected \cap Having("none"), selected)]
  /\ UNCHANGED <<epicor, po, status, group, memo, page, sync>>

\* The other three load the rows they change and write one status.
Load(u, kind, rows, to) ==
  /\ req[u].pc = "idle"
  /\ rows # {}
  /\ req' = [req EXCEPT ![u] = Saving(kind, [r \in rows |-> to], {}, {})]
  /\ page' = [page EXCEPT ![u] = NoPage]
  /\ UNCHANGED <<epicor, po, status, group, memo, sync>>

\* commit_staged, clear_staged
CommitStaged(u) == Load(u, "commit", Staged, "committed")
ClearStaged(u)  == Load(u, "clear", Staged, "withdrawn")

\* Mutant: the ticked releases are the ones removed.
UpdateTicked(u, keep) ==
  /\ page[u].shown # {} /\ keep \subseteq page[u].shown
  /\ Load(u, "update", Committed \cap keep, "withdrawn")

\* update_committed_selection: the panel's form, when there is a panel, sends
\* the releases left ticked.
UpdateCommitted(u, keep) ==
  /\ page[u].shown # {} /\ keep \subseteq page[u].shown
  /\ Load(u, "update", Committed \ keep, "withdrawn")

\* The commit.  Inserting a row that exists by now fails, and all of it.
Save(u) ==
  /\ req[u].pc = "save"
  /\ IF req[u].inserted \subseteq Having("none")
       THEN /\ status' = [r \in Releases |-> IF r \in DOMAIN req[u].writes
                                               THEN req[u].writes[r] ELSE status[r]]
            /\ group' = [r \in Releases |->
                           IF status'[r] # "staged" THEN {}
                           ELSE IF r \in req[u].selected THEN req[u].selected
                           ELSE group[r]]
       ELSE UNCHANGED <<status, group>>
  /\ req' = [req EXCEPT ![u] = Idle]
  /\ UNCHANGED <<epicor, po, memo, page, sync>>

-----------------------------------------------------------------------------
(***************************************************************************)
(* The purchase orders.                                                    *)
(***************************************************************************)
\* A release is received, raised (again), or loses its date or gets one.
Changed(r, row) == /\ epicor[r] # row
                   /\ epicor' = [epicor EXCEPT ![r] = row]
                   /\ UNCHANGED <<po, status, group, memo, page, req, sync>>

\* The purchase_orders importer in a sync job, on the admin page or on the
\* command line with parameters: run is called directly.
SingleImport ==
  /\ po' = epicor
  /\ UNCHANGED <<epicor, status, group, memo, page, req, sync>>

\* In run_batch: the other importers of the batch still run after it.
BatchImport ==
  /\ sync.pc = "idle"
  /\ po' = epicor
  /\ sync' = [sync EXCEPT !.pc = "imported"]
  /\ UNCHANGED <<epicor, status, group, memo, page, req>>

\* Mutant: only committed decisions are reconciled.
ReceivedCommitted == Committed \ Outstanding

\* The active decisions whose release is no longer outstanding.
Received == Active \ Outstanding

\* reconcile_release_decisions, up to its commit, and the commit.
ReconcileLoad ==
  /\ sync.pc = "imported"
  /\ sync' = [pc |-> "closing", close |-> Received]
  /\ UNCHANGED <<epicor, po, status, group, memo, page, req>>

ReconcileSave ==
  /\ sync.pc = "closing"
  /\ status' = [r \in Releases |-> IF r \in sync.close THEN "fulfilled" ELSE status[r]]
  /\ group' = [r \in Releases |-> IF r \in sync.close THEN {} ELSE group[r]]
  /\ sync' = [pc |-> "reconciled", close |-> {}]
  /\ UNCHANGED <<epicor, po, memo, page, req>>

\* Mutant: the memo is left alone.
BatchEndKeeping ==
  /\ sync.pc = "reconciled"
  /\ sync' = [sync EXCEPT !.pc = "idle"]
  /\ UNCHANGED <<epicor, po, status, group, memo, page, req>>

\* cache.clear()
BatchEnd ==
  /\ sync.pc = "reconciled"
  /\ memo' = {}
  /\ sync' = [sync EXCEPT !.pc = "idle"]
  /\ UNCHANGED <<epicor, po, status, group, page, req>>

\* The batch does not get there: the process ends or the database fails.
BatchDies ==
  /\ sync.pc # "idle"
  /\ sync' = [pc |-> "idle", close |-> {}]
  /\ UNCHANGED <<epicor, po, status, group, memo, page, req>>

-----------------------------------------------------------------------------
World == Expire \/ \E r \in Releases, row \in Row : Changed(r, row)

Begin(u) == \/ View(u) \/ CommitStaged(u) \/ ClearStaged(u)
            \/ \E ticked \in SUBSET Releases : Stage(u, ticked)
            \/ \E keep \in SUBSET Releases : UpdateCommitted(u, keep)

Continue(u) == Calculate(u) \/ StageLoad(u) \/ Save(u)

Batch == BatchImport \/ ReconcileLoad \/ ReconcileSave \/ BatchEnd

\* run_batch is the only way purchase orders are imported.
BatchNext == World \/ Batch \/ \E u \in Users : Begin(u) \/ Continue(u)
BatchSpec == Init /\ [][BatchNext]_vars

Next == BatchNext \/ SingleImport \/ BatchDies
Spec == Init /\ [][Next]_vars

\* One request at a time, and none while a batch reconciles.
Resting == \A u \in Users : req[u].pc = "idle"
Calm    == Resting /\ sync.pc \in {"idle", "imported"}

CalmNext == \/ World
            \/ BatchImport
            \/ Resting /\ ReconcileLoad
            \/ ReconcileSave \/ BatchEnd
            \/ \E u \in Users : Calm /\ Begin(u)
            \/ \E u \in Users : Continue(u)
CalmSpec == Init /\ [][CalmNext]_vars

\* The same with the imports of the sync jobs.
ScheduledSpec == Init /\ [][CalmNext \/ (Resting /\ SingleImport)]_vars

-----------------------------------------------------------------------------
(***************************************************************************)
(* Types.                                                                  *)
(***************************************************************************)
TypeOK ==
  /\ epicor \in [Releases -> Row] /\ po \in [Releases -> Row]
  /\ status \in [Releases -> Status]
  /\ group \in [Releases -> SUBSET Releases]
  /\ memo \subseteq Result
  /\ page \in [Users -> [shown : SUBSET Releases, listed : SUBSET Releases]]
  /\ req \in [Users -> Request]
  /\ sync \in [pc : {"idle", "imported", "closing", "reconciled"},
               close : SUBSET Releases]

(***************************************************************************)
(* The staged releases are one group with one snapshot: "All rows in a     *)
(* staged group share the same snapshot because the calculated impact is   *)
(* one joint scenario" (get_staged_snapshot), "replacing whatever was      *)
(* staged before" (stage_selection).                                       *)
(***************************************************************************)
OneStagedGroup == \A r, s \in Staged : group[r] = group[s] /\ r \in group[s]

(***************************************************************************)
(* "Lifecycle: staged -> committed -> fulfilled or withdrawn"              *)
(* (release_decisions.py): a committed release is never staged again, a    *)
(* closed one comes back only by being staged, and stays closed the way it *)
(* was closed.                                                             *)
(***************************************************************************)
Leads == [none      |-> {"staged"},
          staged    |-> {"committed", "fulfilled", "withdrawn"},
          committed |-> {"fulfilled", "withdrawn"},
          fulfilled |-> {"staged"},
          withdrawn |-> {"staged"}]

Lifecycle == [][\A r \in Releases : status'[r] = status[r] \/ status'[r] \in Leads[status[r]]]_vars

(***************************************************************************)
(* Between imports no decision is open on a release that is no longer      *)
(* outstanding: "A committed release drops off automatically once it is    *)
(* fully received into stock" (release_impact.html).                       *)
(***************************************************************************)
ReceivedDropsOff == Resting /\ sync.pc = "idle" => Active \subseteq Outstanding

(***************************************************************************)
(* Saving the committed panel withdraws, of the releases the table listed  *)
(* when the page was calculated, only those that the panel showed and the  *)
(* user unticked: they are listed, in scope or not, "so they stay          *)
(* manageable and are not accidentally removed" (release_impact.html).     *)
(***************************************************************************)
NothingRemovedUnseen ==
  [][\A u \in Users, keep \in SUBSET Releases :
       UpdateCommitted(u, keep) =>
         (DOMAIN req'[u].writes) \cap page[u].listed \subseteq page[u].shown \ keep]_vars

(***************************************************************************)
(* That is not every release that is still open: one whose date or         *)
(* quantity was missing is not listed, stays committed, and is withdrawn   *)
(* with the next save of the panel (README).                               *)
(***************************************************************************)
NothingOpenRemovedUnseen ==
  [][\A u \in Users, keep \in SUBSET Releases :
       UpdateCommitted(u, keep) =>
         (DOMAIN req'[u].writes) \cap Outstanding \subseteq page[u].shown \ keep]_vars

(***************************************************************************)
(* Between imports no memoized result is older than the purchase orders:   *)
(* "the calculation cache needs clearing since the underlying data just    *)
(* changed" (run_batch).                                                   *)
(***************************************************************************)
MemoFresh == sync.pc = "idle" => \A m \in memo : m.listed = Listed
=============================================================================
