----------------------------- MODULE BaqImport -----------------------------
(***************************************************************************)
(* EpicorBaqImporter.run (app/core/epicor_sync.py) for an importer that    *)
(* replaces its whole table (stock, purchase orders, works orders, ...):   *)
(* commit a PENDING batch, fetch from Epicor, refuse an empty answer, then *)
(* delete, insert and mark the batch SUCCESS in one transaction, then      *)
(* prune the audit trail.                                                  *)
(*                                                                         *)
(* Nothing keeps two runs of one importer apart: two sync jobs may list    *)
(* it, and the admin page, a job item and the command line start it too.   *)
(* What two such transactions do to each other depends on the database.    *)
(* SQLite, the development default, has one writer at a time.  PostgreSQL, *)
(* reached by DATABASE_URL, runs at READ COMMITTED: a DELETE works on the  *)
(* rows it saw when it started, waiting for a row another transaction has  *)
(* deleted and skipping it once that has committed.                        *)
(***************************************************************************)
EXTENDS Integers, FiniteSets

CONSTANTS
  Importers,    \* runs that may be in progress at once
  Keys,         \* natural keys of the records
  Database,     \* "sqlite" or "postgres"
  UniqueKey,    \* the table has a unique constraint on the natural key
  KeepNewest,   \* batches the pruning leaves, 50 in the code
  MaxBatch,     \* bound on the number of runs
  MaxFaults     \* bound on database failures

ASSUME ImportAssumption ==
  /\ Database \in {"sqlite", "postgres"}
  /\ UniqueKey \in BOOLEAN
  /\ KeepNewest \in Nat \ {0}
  /\ MaxBatch \in Nat /\ MaxFaults \in Nat

VARIABLES
  table,    \* committed rows: <<key, id of the batch that inserted it>>
  batch,    \* the import_batches rows of this type, by id
  imp,      \* the runs in progress
  faults,   \* failures injected so far
  alone     \* whether, in this behaviour, runs come one at a time, as those
            \* of a single sync job do

vars == <<table, batch, imp, faults, alone>>

-----------------------------------------------------------------------------
Ids  == 1 .. MaxBatch
Rows == Keys \X Ids

\* fetched are the keys of the answer; deleted and inserted are the changes
\* of the open transaction, snapshot what its DELETE saw.
Run == [pc       : {"idle", "fetch", "guard", "replace", "delete", "insert",
                    "commit", "failed", "prune"},
        id       : Ids \cup {0},
        fetched  : SUBSET Keys,
        snapshot : SUBSET Rows,
        deleted  : SUBSET Rows,
        inserted : SUBSET Rows]

\* "none" is an id not given out, or the id of a row that was pruned; rows
\* stands for row_count.
Batch == [state  : {"none", "pending", "success", "failed"},
          issued : BOOLEAN,
          rows   : SUBSET Keys]

\* uploaded_at follows the ids.
Recorded == {b \in Ids : batch[b].state # "none"}
Success  == {b \in Recorded : batch[b].state = "success"}
Issued   == {b \in Ids : batch[b].issued}

Idle == [pc |-> "idle", id |-> 0, fetched |-> {}, snapshot |-> {},
         deleted |-> {}, inserted |-> {}]

\* A run outside its transaction, before or after.
At(place, b) == [Idle EXCEPT !.pc = place, !.id = b]

\* Runs with an open transaction; on SQLite nobody else can write then.
Writing(p)   == imp[p].pc \in {"delete", "insert", "commit"}
MayWrite(p)  == Database = "sqlite" => \A o \in Importers \ {p} : ~Writing(o)

Fault == /\ faults < MaxFaults
         /\ faults' = faults + 1

Init == /\ table = {}
        /\ batch = [b \in Ids |-> [state |-> "none", issued |-> FALSE, rows |-> {}]]
        /\ imp = [p \in Importers |-> Idle]
        /\ faults = 0
        /\ alone \in BOOLEAN

-----------------------------------------------------------------------------
\* The pending batch, committed before the network is used.
Start(p, b) ==
  /\ imp[p].pc = "idle"
  /\ alone => \A o \in Importers : imp[o].pc = "idle"
  /\ MayWrite(p)
  /\ b \notin Issued /\ \A c \in Ids : c < b => c \in Issued
  /\ batch' = [batch EXCEPT ![b].state = "pending", ![b].issued = TRUE]
  /\ imp' = [imp EXCEPT ![p] = At("fetch", b)]
  /\ UNCHANGED <<table, faults>>

\* Mutant: a page as long as the page size is never the last one.
FetchForever(p, records) ==
  /\ imp[p].pc = "fetch"
  /\ imp' = [imp EXCEPT ![p].fetched = records]
  /\ UNCHANGED <<table, batch, faults>>

\* Epicor's answer is any set of records; an empty one may be an error that
\* was not reported as one.
Fetch(p, records) ==
  /\ imp[p].pc = "fetch"
  /\ imp' = [imp EXCEPT ![p].fetched = records,
                        ![p].pc = IF records = {} THEN "guard" ELSE "replace"]
  /\ UNCHANGED <<table, batch, faults>>

\* Mutant: the guard is skipped.
GuardOff(p) ==
  /\ imp[p].pc = "guard"
  /\ imp' = [imp EXCEPT ![p].pc = "replace"]
  /\ UNCHANGED <<table, batch, faults>>

\* The zero-record guard: SELECT COUNT(*) of the target table.
Guard(p) ==
  /\ imp[p].pc = "guard"
  /\ imp' = [imp EXCEPT ![p].pc = IF table # {} THEN "failed" ELSE "replace"]
  /\ UNCHANGED <<table, batch, faults>>

\* _sync_records: the DELETE starts.  SQLite makes it wait for the only
\* write lock.
DeleteBegin(p) ==
  /\ imp[p].pc = "replace"
  /\ MayWrite(p)
  /\ imp' = [imp EXCEPT ![p].pc = "delete", ![p].snapshot = table]
  /\ UNCHANGED <<table, batch, faults>>

\* Mutant: the DELETE is left out.
DeleteNothing(p) ==
  /\ imp[p].pc = "delete"
  /\ imp' = [imp EXCEPT ![p].pc = "insert"]
  /\ UNCHANGED <<table, batch, faults>>

\* ... and ends, once no other transaction holds a row it saw.
DeleteEnd(p) ==
  /\ imp[p].pc = "delete"
  /\ \A o \in Importers \ {p} : imp[p].snapshot \cap imp[o].deleted = {}
  /\ imp' = [imp EXCEPT ![p].pc = "insert",
                        ![p].deleted = @ \cup (imp[p].snapshot \cap table)]
  /\ UNCHANGED <<table, batch, faults>>

\* Committed rows with a key of p's records that p has not deleted itself.
Clashes(p) == {r \in table \ imp[p].deleted : r[1] \in imp[p].fetched}

\* The inserts.  A unique constraint waits for another transaction that is
\* touching the same key, and fails on a committed row.
Insert(p) ==
  /\ imp[p].pc = "insert"
  /\ UniqueKey =>
       \A o \in Importers \ {p} :
         /\ \A r \in imp[o].inserted : r[1] \notin imp[p].fetched
         /\ Clashes(p) \cap imp[o].deleted = {}
  /\ imp' = IF UniqueKey /\ Clashes(p) # {}
              THEN [imp EXCEPT ![p] = At("failed", imp[p].id)]
              ELSE [imp EXCEPT ![p].pc = "commit",
                               ![p].inserted = imp[p].fetched \X {imp[p].id}]
  /\ UNCHANGED <<table, batch, faults>>

\* Rows and the SUCCESS mark become visible together.  The UPDATE of a batch
\* row that another run has pruned matches nothing, which is an error.
Commit(p) ==
  /\ imp[p].pc = "commit"
  /\ IF batch[imp[p].id].state = "none"
       THEN /\ imp' = [imp EXCEPT ![p] = At("failed", imp[p].id)]
            /\ UNCHANGED <<table, batch>>
       ELSE /\ table' = (table \ imp[p].deleted) \cup imp[p].inserted
            /\ batch' = [batch EXCEPT ![imp[p].id].state = "success",
                                      ![imp[p].id].rows = imp[p].fetched]
            /\ imp' = [imp EXCEPT ![p] = At("prune", imp[p].id)]
  /\ UNCHANGED faults

\* Any exception before that: the transaction is rolled back.
Raise(p) ==
  /\ imp[p].pc \in {"fetch", "guard", "replace", "delete", "insert", "commit"}
  /\ Fault
  /\ imp' = [imp EXCEPT ![p] = At("failed", imp[p].id)]
  /\ UNCHANGED <<table, batch>>

\* The except branch records the failure, if the batch row is still there.
RecordFailure(p) ==
  /\ imp[p].pc = "failed"
  /\ MayWrite(p)
  /\ batch' = [batch EXCEPT ![imp[p].id].state =
                              IF @ = "none" THEN "none" ELSE "failed"]
  /\ imp' = [imp EXCEPT ![p] = Idle]
  /\ UNCHANGED <<table, faults>>

\* Recording it may fail too; that is swallowed, and the batch stays PENDING.
FailureLost(p) ==
  /\ imp[p].pc = "failed"
  /\ Fault
  /\ imp' = [imp EXCEPT ![p] = Idle]
  /\ UNCHANGED <<table, batch>>

\* Mutant: the oldest batches are kept.
PrunableOld == {b \in Recorded :
                  Cardinality({c \in Recorded : c < b}) >= KeepNewest}

\* order_by(uploaded_at.desc()).offset(50)
Prunable == {b \in Recorded :
               Cardinality({c \in Recorded : c > b}) >= KeepNewest}

Prune(p) ==
  /\ imp[p].pc = "prune"
  /\ MayWrite(p)
  /\ batch' = [b \in Ids |-> IF b \in Prunable
                               THEN [batch[b] EXCEPT !.state = "none"]
                               ELSE batch[b]]
  /\ imp' = [imp EXCEPT ![p] = Idle]
  /\ UNCHANGED <<table, faults>>

\* Failing to prune is "non-critical".
PruneFails(p) ==
  /\ imp[p].pc = "prune"
  /\ Fault
  /\ imp' = [imp EXCEPT ![p] = Idle]
  /\ UNCHANGED <<table, batch>>

\* The process dies: its transaction is gone, its batch stays as it is.
Crash(p) ==
  /\ imp[p].pc # "idle"
  /\ Fault
  /\ imp' = [imp EXCEPT ![p] = Idle]
  /\ UNCHANGED <<table, batch>>

Step(p) == \/ \E records \in SUBSET Keys : Fetch(p, records)
           \/ Guard(p) \/ DeleteBegin(p) \/ DeleteEnd(p) \/ Insert(p)
           \/ Commit(p) \/ RecordFailure(p) \/ Prune(p)

Failure(p) == Raise(p) \/ FailureLost(p) \/ PruneFails(p) \/ Crash(p)

Next == /\ \E p \in Importers :
             \/ \E b \in Ids : Start(p, b)
             \/ Step(p)
             \/ Failure(p)
        /\ UNCHANGED alone

Spec == Init /\ [][Next]_vars

\* A run goes on until it ends: every request to Epicor and every wait for a
\* lock has a timeout.
FairSpec == Spec /\ \A p \in Importers : WF_vars(Step(p) /\ UNCHANGED alone)
=============================================================================
