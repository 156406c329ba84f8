---------------------------- MODULE ImportProofs ----------------------------
(***************************************************************************)
(* Proofs about the importer, for any number of runs, keys and batches.    *)
(***************************************************************************)
EXTENDS ImportProperties, FiniteSetTheorems, TLAPS

-----------------------------------------------------------------------------
(***************************************************************************)
(* Types.                                                                  *)
(***************************************************************************)

\* A run outside its transaction is a run.
LEMMA AtIsRun ==
  ASSUME NEW b \in Ids \cup {0},
         NEW place \in {"idle", "fetch", "guard", "replace", "delete",
                        "insert", "commit", "failed", "prune"}
  PROVE  /\ At(place, b) \in Run
         /\ At(place, b).pc = place
         /\ At(place, b).id = b
  BY DEF At, Idle, Run

\* Init establishes the types.
LEMMA TypeInit == Init => TypeOK
  BY ImportAssumption DEF Init, TypeOK, Idle, Run, Batch, Ids

\* A step that only moves one run on, with the same batch, keeps them.
LEMMA RunMoves ==
  ASSUME TypeOK, NEW p \in Importers, imp[p].pc # "idle",
         NEW r \in Run, r.id = imp[p].id,
         imp' = [imp EXCEPT ![p] = r], UNCHANGED <<table, batch, faults>>
  PROVE  TypeOK'
<1>1. imp' \in [Importers -> Run] /\ \A q \in Importers \ {p} : imp'[q] = imp[q]
  BY DEF TypeOK
<1>2. imp'[p].id = imp[p].id
  BY DEF TypeOK
<1> QED
  BY <1>1, <1>2 DEF TypeOK, Issued

\* Every step of a run keeps them.
LEMMA TypeStep ==
  ASSUME TypeOK, [Next]_vars
  PROVE  TypeOK'
<1> USE DEF Issued
<1>1. ASSUME NEW p \in Importers, NEW b \in Ids, Start(p, b)
      PROVE  TypeOK'
  <2>1. At("fetch", b) \in Run /\ At("fetch", b).pc = "fetch" /\ At("fetch", b).id = b
    BY AtIsRun
  <2>2. batch' \in [Ids -> Batch]
    BY <1>1 DEF Start, TypeOK, Batch
  <2>3. \A c \in Ids : batch[c].issued => batch'[c].issued
    BY <1>1 DEF Start, TypeOK, Batch
  <2>4. batch'[b].issued
    BY <1>1 DEF Start, TypeOK, Batch
  <2>5. imp' \in [Importers -> Run]
    BY <1>1, <2>1 DEF Start, TypeOK
  <2> QED
    BY <1>1, <2>1, <2>2, <2>3, <2>4, <2>5 DEF Start, TypeOK
<1>2. ASSUME NEW p \in Importers, NEW records \in SUBSET Keys, Fetch(p, records)
      PROVE  TypeOK'
  <2> DEFINE r == [imp[p] EXCEPT !.fetched = records,
                                 !.pc = IF records = {} THEN "guard" ELSE "replace"]
  <2>1. imp[p] \in Run
    BY DEF TypeOK
  <2>2. r \in Run /\ r.id = imp[p].id
    BY <2>1 DEF Run
  <2>3. imp' = [imp EXCEPT ![p] = r]
    BY <1>2 DEF Fetch
  <2> HIDE DEF r
  <2> QED
    BY <1>2, <2>2, <2>3, RunMoves DEF Fetch
<1>3. ASSUME NEW p \in Importers, Guard(p)
      PROVE  TypeOK'
  BY <1>3 DEF Guard, TypeOK, Run
<1>4. ASSUME NEW p \in Importers, DeleteBegin(p)
      PROVE  TypeOK'
  BY <1>4, ZenonT(60) DEF DeleteBegin, TypeOK, Run
<1>5. ASSUME NEW p \in Importers, DeleteEnd(p)
      PROVE  TypeOK'
  <2> DEFINE r == [imp[p] EXCEPT !.pc = "insert",
                                 !.deleted = @ \cup (imp[p].snapshot \cap table)]
  <2>1. imp[p] \in Run /\ table \subseteq Rows
    BY DEF TypeOK
  <2>2. r \in Run /\ r.id = imp[p].id
    BY <2>1 DEF Run
  <2>3. imp' = [imp EXCEPT ![p] = r]
    BY <1>5 DEF DeleteEnd
  <2> HIDE DEF r
  <2> QED
    BY <1>5, <2>2, <2>3, RunMoves DEF DeleteEnd
<1>6. ASSUME NEW p \in Importers, Insert(p)
      PROVE  TypeOK'
  <2>1. imp[p].id \in Issued /\ imp[p].fetched \in SUBSET Keys
    BY <1>6 DEF Insert, TypeOK, Run
  <2>2. imp[p].fetched \X {imp[p].id} \in SUBSET Rows
    BY <2>1 DEF Rows
  <2>3. At("failed", imp[p].id) \in Run /\ At("failed", imp[p].id).id = imp[p].id
    BY <2>1, AtIsRun
  <2>4. CASE imp' = [imp EXCEPT ![p] = At("failed", imp[p].id)]
    BY <1>6, <2>1, <2>3, <2>4 DEF Insert, TypeOK
  <2>5. CASE imp' = [imp EXCEPT ![p].pc = "commit",
                                ![p].inserted = imp[p].fetched \X {imp[p].id}]
    <3> DEFINE r == [imp[p] EXCEPT !.pc = "commit",
                                   !.inserted = imp[p].fetched \X {imp[p].id}]
    <3>1. imp[p] \in Run
      BY DEF TypeOK
    <3>2. r \in Run /\ r.id = imp[p].id
      BY <2>2, <3>1 DEF Run
    <3>3. imp' = [imp EXCEPT ![p] = r]
      BY <2>5
    <3> HIDE DEF r
    <3> QED
      BY <1>6, <3>2, <3>3, RunMoves DEF Insert
  <2> QED
    BY <1>6, <2>4, <2>5 DEF Insert
<1>7. ASSUME NEW p \in Importers, Commit(p)
      PROVE  TypeOK'
  <2>1. imp[p].id \in Issued /\ imp[p].fetched \in SUBSET Keys /\ imp[p].inserted \in SUBSET Rows
    BY <1>7 DEF Commit, TypeOK, Run
  <2>2. \A place \in {"failed", "prune"} :
          At(place, imp[p].id) \in Run /\ At(place, imp[p].id).id = imp[p].id
    BY <2>1, AtIsRun
  <2>3. \E place \in {"failed", "prune"} : imp' = [imp EXCEPT ![p] = At(place, imp[p].id)]
    BY <1>7 DEF Commit
  <2>4. imp' \in [Importers -> Run] /\ \A q \in Importers : imp'[q].id = imp[q].id
    BY <2>2, <2>3 DEF TypeOK
  <2>5. batch' \in [Ids -> Batch] /\ \A c \in Ids : batch[c].issued => batch'[c].issued
    BY <1>7, <2>1 DEF Commit, TypeOK, Batch
  <2>6. table' \subseteq Rows /\ faults' \in Nat
    BY <1>7, <2>1 DEF Commit, TypeOK
  <2>7. \A q \in Importers : imp'[q].pc # "idle" => imp[q].pc # "idle"
    BY <1>7, <2>3 DEF Commit, TypeOK
  <2> QED
    BY <2>4, <2>5, <2>6, <2>7 DEF TypeOK
<1>8. ASSUME NEW p \in Importers, RecordFailure(p)
      PROVE  TypeOK'
  <2>1. batch' \in [Ids -> Batch] /\ \A c \in Ids : batch[c].issued => batch'[c].issued
    BY <1>8 DEF RecordFailure, TypeOK, Batch
  <2>2. imp' \in [Importers -> Run] /\ \A q \in Importers : imp'[q] \in {imp[q], Idle}
    BY <1>8, ImportAssumption DEF RecordFailure, TypeOK, Idle, Run
  <2> QED
    BY <1>8, <2>1, <2>2 DEF RecordFailure, TypeOK, Idle
<1>9. ASSUME NEW p \in Importers, Prune(p)
      PROVE  TypeOK'
  <2>1. batch' \in [Ids -> Batch] /\ \A c \in Ids : batch[c].issued => batch'[c].issued
    BY <1>9 DEF Prune, TypeOK, Batch
  <2>2. imp' \in [Importers -> Run] /\ \A q \in Importers : imp'[q] \in {imp[q], Idle}
    BY <1>9 DEF Prune, TypeOK, Idle, Run
  <2> QED
    BY <1>9, <2>1, <2>2 DEF Prune, TypeOK, Idle
<1>10. ASSUME NEW p \in Importers, Raise(p)
       PROVE  TypeOK'
  <2>1. imp[p].id \in Ids /\ batch[imp[p].id].issued
    BY <1>10 DEF Raise, TypeOK
  <2>2. At("failed", imp[p].id) \in Run /\ At("failed", imp[p].id).id = imp[p].id
    BY <2>1, AtIsRun
  <2> QED
    BY <1>10, <2>1, <2>2 DEF Raise, Fault, TypeOK
<1>11. ASSUME NEW p \in Importers, FailureLost(p) \/ PruneFails(p) \/ Crash(p)
       PROVE  TypeOK'
  <2>1. imp' \in [Importers -> Run] /\ \A q \in Importers : imp'[q] \in {imp[q], Idle}
    BY <1>11 DEF FailureLost, PruneFails, Crash, TypeOK, Idle, Run
  <2> QED
    BY <1>11, <2>1 DEF FailureLost, PruneFails, Crash, Fault, TypeOK, Idle
<1>12. CASE UNCHANGED vars
  BY <1>12 DEF vars, TypeOK
<1> QED
  BY <1>1, <1>2, <1>3, <1>4, <1>5, <1>6, <1>7, <1>8, <1>9, <1>10, <1>11, <1>12
     DEF Next, Step, Failure

\* Type correctness of the importer.
THEOREM TypeCorrect == Spec => []TypeOK
  BY TypeInit, TypeStep, PTL DEF Spec

-----------------------------------------------------------------------------
(***************************************************************************)
(* One snapshot at a time, on a database with one writer at a time.  The   *)
(* transaction that is open has seen, and then deleted, everything the     *)
(* table holds, because nobody else can have written since.                *)
(***************************************************************************)
OpenTransaction(p) ==
  /\ imp[p].pc = "delete" => table \subseteq imp[p].snapshot
  /\ imp[p].pc \in {"insert", "commit"} => table \subseteq imp[p].deleted
  /\ imp[p].pc = "commit" => \A r \in imp[p].inserted : r[2] = imp[p].id

Serialized ==
  /\ TypeOK
  /\ OneSnapshot
  /\ \A p, q \in Importers : Writing(p) /\ Writing(q) => p = q
  /\ \A p \in Importers : OpenTransaction(p)

\* A step that leaves the table alone and opens no transaction keeps the
\* invariant.
LEMMA QuietStep ==
  ASSUME Serialized, TypeOK', table' = table, NEW p \in Importers,
         \A q \in Importers \ {p} : imp'[q] = imp[q],
         OpenTransaction(p)',
         Writing(p)' => Writing(p) \/ \A o \in Importers \ {p} : ~Writing(o)
  PROVE  Serialized'
<1>1. \A q \in Importers \ {p} : (Writing(q)' <=> Writing(q)) /\ OpenTransaction(q)'
  BY DEF Serialized, Writing, OpenTransaction
<1>2. \A q, s \in Importers : Writing(q)' /\ Writing(s)' => q = s
  BY <1>1 DEF Serialized
<1>3. OneSnapshot'
  BY DEF Serialized, OneSnapshot
<1> QED
  BY <1>1, <1>2, <1>3 DEF Serialized

\* Every step keeps it when writers are serialized.
LEMMA SerializedStep ==
  ASSUME Database = "sqlite", Serialized, [Next]_vars
  PROVE  Serialized'
<1>1. TypeOK /\ TypeOK'
  BY TypeStep DEF Serialized
<1>2. ASSUME NEW p \in Importers, NEW b \in Ids, Start(p, b)
      PROVE  Serialized'
  <2>1. imp'[p].pc = "fetch"
    BY <1>1, <1>2, AtIsRun DEF Start, TypeOK
  <2> QED
    BY <1>1, <1>2, <2>1, QuietStep DEF Start, TypeOK, OpenTransaction, Writing
<1>3. ASSUME NEW p \in Importers, NEW records \in SUBSET Keys, Fetch(p, records)
      PROVE  Serialized'
  <2>1. imp'[p].pc \in {"guard", "replace"}
    BY <1>1, <1>3, ZenonT(60) DEF Fetch, TypeOK, Run
  <2> QED
    BY <1>1, <1>3, <2>1, QuietStep DEF Fetch, TypeOK, OpenTransaction, Writing
<1>4. ASSUME NEW p \in Importers, Guard(p)
      PROVE  Serialized'
  <2>1. imp'[p].pc \in {"failed", "replace"}
    BY <1>1, <1>4 DEF Guard, TypeOK, Run
  <2> QED
    BY <1>1, <1>4, <2>1, QuietStep DEF Guard, TypeOK, OpenTransaction, Writing
<1>5. ASSUME NEW p \in Importers, DeleteBegin(p)
      PROVE  Serialized'
  <2>1. imp'[p].pc = "delete" /\ imp'[p].snapshot = table
    BY <1>1, <1>5 DEF DeleteBegin, TypeOK, Run
  <2>2. \A o \in Importers \ {p} : ~Writing(o)
    BY <1>5 DEF DeleteBegin, MayWrite
  <2> QED
    BY <1>1, <1>5, <2>1, <2>2, QuietStep DEF DeleteBegin, TypeOK, OpenTransaction
<1>6. ASSUME NEW p \in Importers, DeleteEnd(p)
      PROVE  Serialized'
  <2>1. imp'[p].pc = "insert" /\ imp[p].snapshot \cap table \subseteq imp'[p].deleted
    BY <1>1, <1>6 DEF DeleteEnd, TypeOK, Run
  <2>2. table \subseteq imp[p].snapshot
    BY <1>6 DEF DeleteEnd, Serialized, OpenTransaction
  <2>3. OpenTransaction(p)'
    BY <1>6, <2>1, <2>2 DEF OpenTransaction, DeleteEnd
  <2>4. Writing(p)
    BY <1>6 DEF DeleteEnd, Writing
  <2> QED
    BY <1>1, <1>6, <2>3, <2>4, QuietStep DEF DeleteEnd, TypeOK
<1>7. ASSUME NEW p \in Importers, Insert(p)
      PROVE  Serialized'
  <2>1. Writing(p) /\ table \subseteq imp[p].deleted
    BY <1>7 DEF Insert, Writing, Serialized, OpenTransaction
  <2>2. CASE imp' = [imp EXCEPT ![p] = At("failed", imp[p].id)]
    <3>1. imp'[p].pc = "failed"
      BY <1>1, <1>7, <2>2, AtIsRun DEF TypeOK, Run
    <3> QED
      BY <1>1, <1>7, <2>2, <3>1, QuietStep DEF Insert, TypeOK, OpenTransaction, Writing
  <2>3. CASE imp' = [imp EXCEPT ![p].pc = "commit",
                                ![p].inserted = imp[p].fetched \X {imp[p].id}]
    <3>1. /\ imp'[p].pc = "commit" /\ imp'[p].deleted = imp[p].deleted
          /\ imp'[p].id = imp[p].id
          /\ imp'[p].inserted = imp[p].fetched \X {imp[p].id}
      BY <1>1, <2>3 DEF TypeOK, Run
    <3>2. OpenTransaction(p)'
      BY <1>7, <2>1, <3>1 DEF OpenTransaction, Insert
    <3> QED
      BY <1>1, <1>7, <2>1, <2>3, <3>2, QuietStep DEF Insert, TypeOK
  <2> QED
    BY <1>7, <2>2, <2>3 DEF Insert
<1>8. ASSUME NEW p \in Importers, Commit(p)
      PROVE  Serialized'
  <2>1. imp[p].id \in Ids
    BY <1>1, <1>8 DEF Commit, TypeOK, Issued
  <2>2. \E place \in {"failed", "prune"} : imp' = [imp EXCEPT ![p] = At(place, imp[p].id)]
    BY <1>8 DEF Commit
  <2>3. imp'[p].pc \in {"failed", "prune"} /\ \A q \in Importers \ {p} : imp'[q] = imp[q]
    BY <1>1, <2>1, <2>2, AtIsRun DEF TypeOK
  <2>4. Writing(p)
    BY <1>8 DEF Commit, Writing
  <2>5. \A q \in Importers : ~Writing(q)'
    BY <2>3, <2>4 DEF Writing, Serialized
  <2>6. \A q \in Importers : OpenTransaction(q)'
    BY <2>5 DEF OpenTransaction, Writing
  <2>7. table' = table \/ table' = (table \ imp[p].deleted) \cup imp[p].inserted
    BY <1>8 DEF Commit
  <2>8. table \subseteq imp[p].deleted /\ \A r \in imp[p].inserted : r[2] = imp[p].id
    BY <1>8 DEF Commit, Serialized, OpenTransaction
  <2>9. table' = table \/ table' = imp[p].inserted
    BY <2>7, <2>8
  <2>10. OneSnapshot'
    BY <2>8, <2>9 DEF OneSnapshot, Serialized
  <2> QED
    BY <1>1, <2>5, <2>6, <2>10 DEF Serialized
<1>9. ASSUME NEW p \in Importers, imp' = [imp EXCEPT ![p] = Idle], table' = table
      PROVE  Serialized'
  <2>1. imp'[p].pc = "idle"
    BY <1>1, <1>9 DEF TypeOK, Idle
  <2> QED
    BY <1>1, <1>9, <2>1, QuietStep DEF TypeOK, OpenTransaction, Writing
<1>10. ASSUME NEW p \in Importers, Raise(p)
       PROVE  Serialized'
  <2>1. imp[p].id \in Ids
    BY <1>1, <1>10 DEF Raise, TypeOK, Issued
  <2>2. imp'[p].pc = "failed"
    BY <1>1, <1>10, <2>1, AtIsRun DEF Raise, TypeOK
  <2> QED
    BY <1>1, <1>10, <2>2, QuietStep DEF Raise, TypeOK, OpenTransaction, Writing
<1>11. CASE UNCHANGED vars
  BY <1>1, <1>11 DEF vars, Serialized, OneSnapshot, Writing, OpenTransaction
<1>12. ASSUME NEW p \in Importers,
              RecordFailure(p) \/ Prune(p) \/ FailureLost(p) \/ PruneFails(p) \/ Crash(p)
       PROVE  Serialized'
  BY <1>9, <1>12 DEF RecordFailure, Prune, FailureLost, PruneFails, Crash
<1> QED
  BY <1>2, <1>3, <1>4, <1>5, <1>6, <1>7, <1>8, <1>10, <1>11, <1>12
     DEF Next, Step, Failure

\* On a database that serializes writers the table is one import's rows at
\* any time, however many runs overlap, fail or die.
THEOREM SerializedSnapshot ==
  ASSUME Database = "sqlite"
  PROVE  Spec => []OneSnapshot
<1>1. Init => Serialized
  BY TypeInit DEF Init, Serialized, OneSnapshot, Writing, OpenTransaction, Idle
<1>2. Serialized /\ [Next]_vars => Serialized'
  BY SerializedStep
<1>3. Serialized => OneSnapshot
  BY DEF Serialized
<1> QED
  BY <1>1, <1>2, <1>3, PTL DEF Spec

-----------------------------------------------------------------------------
(***************************************************************************)
(* The zero-record guard, for runs that come one at a time: a run that     *)
(* goes on with an empty answer has found the table empty, and nobody      *)
(* fills it before the run's own transaction.                              *)
(***************************************************************************)
Guarded(p) ==
  /\ imp[p].pc \in {"replace", "delete", "insert", "commit"} /\ imp[p].fetched = {}
       => table = {}
  /\ imp[p].pc = "commit" => imp[p].inserted = imp[p].fetched \X {imp[p].id}

OneRun == \A p, q \in Importers :
            imp[p].pc # "idle" /\ imp[q].pc # "idle" => p = q

AllGuarded == /\ TypeOK
              /\ alone => OneRun /\ \A p \in Importers : Guarded(p)

\* Every step moves one run; the others stay where they are, and where runs
\* come one at a time they are idle.
LEMMA OthersIdle ==
  ASSUME AllGuarded, alone, NEW p \in Importers,
         (\E b \in Ids : Start(p, b)) \/ Step(p) \/ Failure(p)
  PROVE  \A q \in Importers \ {p} : imp[q].pc = "idle" /\ imp'[q] = imp[q]
<1>1. ASSUME NEW b \in Ids, Start(p, b)
      PROVE  \A q \in Importers \ {p} : imp[q].pc = "idle" /\ imp'[q] = imp[q]
  BY <1>1 DEF Start, AllGuarded, TypeOK
<1>2. CASE Step(p)
  BY <1>2 DEF AllGuarded, OneRun, TypeOK, Step, Fetch, Guard, DeleteBegin, DeleteEnd,
              Insert, Commit, RecordFailure, Prune
<1>3. CASE Failure(p)
  BY <1>3 DEF AllGuarded, OneRun, TypeOK, Failure, Raise, FailureLost, PruneFails, Crash
<1> QED
  BY <1>1, <1>2, <1>3

\* Every step keeps it when there is one run at a time.
LEMMA GuardedStep ==
  ASSUME AllGuarded, alone, [Next]_vars
  PROVE  AllGuarded'
<1>1. TypeOK /\ TypeOK'
  BY TypeStep DEF AllGuarded
<1>2. ASSUME NEW p \in Importers, NEW b \in Ids, Start(p, b)
      PROVE  Guarded(p)'
  <2>1. imp'[p].pc = "fetch"
    BY <1>1, <1>2, AtIsRun DEF Start, TypeOK
  <2> QED
    BY <2>1 DEF Guarded
<1>3. ASSUME NEW p \in Importers, NEW records \in SUBSET Keys, Fetch(p, records)
      PROVE  Guarded(p)'
  <2> DEFINE place == IF records = {} THEN "guard" ELSE "replace"
             r     == [imp[p] EXCEPT !.fetched = records, !.pc = place]
  <2>2. imp' = [imp EXCEPT ![p] = r]
    BY <1>3 DEF Fetch
  <2>3. r.fetched = records /\ r.pc = place
    BY <1>1 DEF TypeOK, Run
  <2>1. imp'[p].fetched = records /\ imp'[p].pc = place
    BY <1>1, <2>2, <2>3 DEF TypeOK
  <2> QED
    BY <2>1 DEF Guarded
<1>4. ASSUME NEW p \in Importers, Guard(p)
      PROVE  Guarded(p)'
  <2>1. imp'[p].pc = IF table # {} THEN "failed" ELSE "replace"
    BY <1>1, <1>4 DEF Guard, TypeOK, Run
  <2> QED
    BY <1>4, <2>1 DEF Guarded, Guard
<1>5. ASSUME NEW p \in Importers, DeleteBegin(p)
      PROVE  Guarded(p)'
  <2>1. imp'[p].pc = "delete" /\ imp'[p].fetched = imp[p].fetched
    BY <1>1, <1>5 DEF DeleteBegin, TypeOK, Run
  <2> QED
    BY <1>5, <2>1 DEF Guarded, DeleteBegin, AllGuarded
<1>6. ASSUME NEW p \in Importers, DeleteEnd(p)
      PROVE  Guarded(p)'
  <2>1. imp'[p].pc = "insert" /\ imp'[p].fetched = imp[p].fetched
    BY <1>1, <1>6 DEF DeleteEnd, TypeOK, Run
  <2> QED
    BY <1>6, <2>1 DEF Guarded, DeleteEnd, AllGuarded
<1>7. ASSUME NEW p \in Importers, Insert(p)
      PROVE  Guarded(p)'
  <2>1. CASE imp' = [imp EXCEPT ![p] = At("failed", imp[p].id)]
    <3>1. imp'[p].pc = "failed"
      BY <1>1, <2>1, AtIsRun DEF TypeOK, Run
    <3> QED
      BY <3>1 DEF Guarded
  <2>2. CASE imp' = [imp EXCEPT ![p].pc = "commit",
                                ![p].inserted = imp[p].fetched \X {imp[p].id}]
    <3>1. /\ imp'[p].pc = "commit" /\ imp'[p].fetched = imp[p].fetched
          /\ imp'[p].id = imp[p].id
          /\ imp'[p].inserted = imp[p].fetched \X {imp[p].id}
      BY <1>1, <2>2 DEF TypeOK, Run
    <3> QED
      BY <1>7, <3>1 DEF Guarded, Insert, AllGuarded
  <2> QED
    BY <1>7, <2>1, <2>2 DEF Insert
<1>8. ASSUME NEW p \in Importers, Commit(p)
      PROVE  Guarded(p)'
  <2>1. imp[p].id \in Ids
    BY <1>1, <1>8 DEF Commit, TypeOK, Issued
  <2>2. \E place \in {"failed", "prune"} : imp' = [imp EXCEPT ![p] = At(place, imp[p].id)]
    BY <1>8 DEF Commit
  <2>3. imp'[p].pc \in {"failed", "prune"}
    BY <1>1, <2>1, <2>2, AtIsRun DEF TypeOK
  <2> QED
    BY <2>3 DEF Guarded
<1>9. ASSUME NEW p \in Importers, imp' = [imp EXCEPT ![p] = Idle]
      PROVE  Guarded(p)'
  <2>1. imp'[p].pc = "idle"
    BY <1>1, <1>9 DEF TypeOK, Idle
  <2> QED
    BY <2>1 DEF Guarded
<1>10. ASSUME NEW p \in Importers, Raise(p)
       PROVE  Guarded(p)'
  <2>1. imp[p].id \in Ids
    BY <1>1, <1>10 DEF Raise, TypeOK, Issued
  <2>2. imp'[p].pc = "failed"
    BY <1>1, <1>10, <2>1, AtIsRun DEF Raise, TypeOK
  <2> QED
    BY <2>2 DEF Guarded
<1>11. ASSUME NEW p \in Importers,
              RecordFailure(p) \/ Prune(p) \/ FailureLost(p) \/ PruneFails(p) \/ Crash(p)
       PROVE  Guarded(p)'
  BY <1>9, <1>11 DEF RecordFailure, Prune, FailureLost, PruneFails, Crash
<1>12. CASE UNCHANGED vars
  BY <1>1, <1>12 DEF vars, AllGuarded, OneRun, Guarded
<1>13. CASE Next
  <2>1. PICK p \in Importers : (\E b \in Ids : Start(p, b)) \/ Step(p) \/ Failure(p)
    BY <1>13 DEF Next
  <2>2. \A q \in Importers \ {p} : imp[q].pc = "idle" /\ imp'[q] = imp[q]
    BY <2>1, OthersIdle
  <2>3. Guarded(p)'
    BY <2>1, <1>2, <1>3, <1>4, <1>5, <1>6, <1>7, <1>8, <1>10, <1>11
       DEF Step, Failure
  <2>4. \A q \in Importers \ {p} : Guarded(q)'
    BY <2>2 DEF Guarded
  <2>5. OneRun'
    BY <2>2 DEF OneRun
  <2> QED
    BY <1>1, <2>3, <2>4, <2>5 DEF AllGuarded
<1> QED
  BY <1>12, <1>13

-----------------------------------------------------------------------------
(***************************************************************************)
(* The audit trail: every row belongs to a batch that has been given out,  *)
(* a run in progress has a batch of its own, and until that run has        *)
(* committed no row of the batch is in the table and it is no success.     *)
(***************************************************************************)
Before(p) == imp[p].pc \notin {"idle", "prune"}

Trail ==
  /\ TypeOK
  /\ \A r \in table : batch[r[2]].state \notin {"failed", "pending"}
  /\ \A r \in table : batch[r[2]].issued
  /\ \A b \in Ids : batch[b].state # "none" => batch[b].issued
  /\ \A p, q \in Importers : imp[p].pc # "idle" /\ imp[q].pc # "idle"
                               /\ imp[p].id = imp[q].id => p = q
  /\ \A p \in Importers : imp[p].pc = "commit" => imp[p].inserted = imp[p].fetched \X {imp[p].id}
  /\ \A p \in Importers : Before(p) =>
       batch[imp[p].id].state # "success" /\ \A r \in table : r[2] # imp[p].id

\* What a step of a run can be, as far as the audit trail is concerned.
LEMMA TrailMoves ==
  ASSUME TypeOK, NEW p \in Importers, Step(p) \/ Failure(p)
  PROVE  /\ imp[p].pc # "idle" /\ imp[p].id \in Ids
         /\ \A q \in Importers \ {p} : imp'[q] = imp[q]
         /\ \/ imp'[p] = Idle
            \/ imp'[p].pc # "idle" /\ imp'[p].id = imp[p].id
         /\ imp'[p].pc = "delete" => imp'[p].snapshot = table
         /\ imp'[p].pc = "insert" =>
              imp[p].pc = "delete" /\ imp[p].snapshot \cap table \subseteq imp'[p].deleted
         /\ imp'[p].pc = "commit" =>
              /\ imp[p].pc = "insert" /\ imp'[p].deleted = imp[p].deleted
              /\ imp'[p].inserted = imp'[p].fetched \X {imp'[p].id}
         /\ imp'[p].pc = "prune" => Commit(p) /\ batch[imp[p].id].state # "none"
         /\ imp[p].pc = "prune" => imp'[p].pc = "idle"
         /\ ~Commit(p) => table' = table
         /\ ~Commit(p) /\ ~RecordFailure(p) /\ ~Prune(p) => batch' = batch
<1> DEFINE Goal ==
      /\ imp[p].pc # "idle" /\ imp[p].id \in Ids
      /\ \A q \in Importers \ {p} : imp'[q] = imp[q]
      /\ \/ imp'[p] = Idle
         \/ imp'[p].pc # "idle" /\ imp'[p].id = imp[p].id
      /\ imp'[p].pc = "delete" => imp'[p].snapshot = table
      /\ imp'[p].pc = "insert" =>
           imp[p].pc = "delete" /\ imp[p].snapshot \cap table \subseteq imp'[p].deleted
      /\ imp'[p].pc = "commit" =>
           /\ imp[p].pc = "insert" /\ imp'[p].deleted = imp[p].deleted
           /\ imp'[p].inserted = imp'[p].fetched \X {imp'[p].id}
      /\ imp'[p].pc = "prune" => Commit(p) /\ batch[imp[p].id].state # "none"
      /\ imp[p].pc = "prune" => imp'[p].pc = "idle"
      /\ ~Commit(p) => table' = table
      /\ ~Commit(p) /\ ~RecordFailure(p) /\ ~Prune(p) => batch' = batch
<1>1. ASSUME NEW records \in SUBSET Keys, Fetch(p, records) PROVE Goal
  <2> DEFINE place == IF records = {} THEN "guard" ELSE "replace"
             s     == [imp[p] EXCEPT !.fetched = records, !.pc = place]
  <2>1. imp' = [imp EXCEPT ![p] = s]
    BY <1>1 DEF Fetch
  <2>2. s.id = imp[p].id /\ s.pc \in {"guard", "replace"}
    BY DEF TypeOK, Run
  <2>3. PICK r : imp' = [imp EXCEPT ![p] = r] /\ r.id = imp[p].id /\ r.pc \in {"guard", "replace"}
    BY <2>1, <2>2
  <2> QED BY <1>1, <2>3 DEF Fetch, TypeOK, Issued
<1>2. CASE Guard(p)
  <2> DEFINE place == IF table # {} THEN "failed" ELSE "replace"
             s     == [imp[p] EXCEPT !.pc = place]
  <2>1. imp' = [imp EXCEPT ![p] = s]
    BY <1>2 DEF Guard
  <2>2. s.id = imp[p].id /\ s.pc \in {"failed", "replace"}
    BY DEF TypeOK, Run
  <2>3. PICK r : imp' = [imp EXCEPT ![p] = r] /\ r.id = imp[p].id /\ r.pc \in {"failed", "replace"}
    BY <2>1, <2>2
  <2> QED BY <1>2, <2>3 DEF Guard, TypeOK, Issued
<1>3. CASE DeleteBegin(p)
  <2>1. PICK r : imp' = [imp EXCEPT ![p] = r] /\ r.id = imp[p].id /\ r.pc = "delete" /\ r.snapshot = table
    <3> DEFINE s == [imp[p] EXCEPT !.pc = "delete", !.snapshot = table]
    <3>1. imp' = [imp EXCEPT ![p] = s]
      BY <1>3 DEF DeleteBegin
    <3>2. s.id = imp[p].id /\ s.pc = "delete" /\ s.snapshot = table
      BY DEF TypeOK, Run
    <3> QED BY <3>1, <3>2
  <2> QED BY <1>3, <2>1 DEF DeleteBegin, TypeOK, Issued
<1>4. CASE DeleteEnd(p)
  <2>1. PICK r : /\ imp' = [imp EXCEPT ![p] = r] /\ r.id = imp[p].id /\ r.pc = "insert"
                 /\ imp[p].snapshot \cap table \subseteq r.deleted
    <3> DEFINE s == [imp[p] EXCEPT !.pc = "insert",
                                   !.deleted = @ \cup (imp[p].snapshot \cap table)]
    <3>1. imp' = [imp EXCEPT ![p] = s]
      BY <1>4 DEF DeleteEnd
    <3>2. s.id = imp[p].id /\ s.pc = "insert" /\ imp[p].snapshot \cap table \subseteq s.deleted
      BY DEF TypeOK, Run
    <3> QED BY <3>1, <3>2
  <2> QED BY <1>4, <2>1 DEF DeleteEnd, TypeOK, Issued
<1>5. CASE Insert(p)
  <2>0. imp[p].id \in Ids
    BY <1>5 DEF Insert, TypeOK, Issued
  <2>1. PICK r : /\ imp' = [imp EXCEPT ![p] = r] /\ r.id = imp[p].id
                 /\ r.pc \in {"failed", "commit"}
                 /\ r.pc = "commit" => /\ r.inserted = r.fetched \X {r.id}
                                       /\ r.deleted = imp[p].deleted
    <3>1. CASE imp' = [imp EXCEPT ![p] = At("failed", imp[p].id)]
      BY <3>1, <2>0, AtIsRun
    <3>2. CASE imp' = [imp EXCEPT ![p].pc = "commit",
                                  ![p].inserted = imp[p].fetched \X {imp[p].id}]
      <4> DEFINE s == [imp[p] EXCEPT !.pc = "commit",
                                     !.inserted = imp[p].fetched \X {imp[p].id}]
      <4>1. imp' = [imp EXCEPT ![p] = s]
        BY <3>2
      <4>2. /\ s.id = imp[p].id /\ s.pc = "commit" /\ s.inserted = s.fetched \X {s.id}
            /\ s.deleted = imp[p].deleted
        BY DEF TypeOK, Run
      <4> QED BY <4>1, <4>2
    <3> QED BY <1>5, <3>1, <3>2 DEF Insert
  <2> QED BY <1>5, <2>0, <2>1 DEF Insert, TypeOK
<1>6. CASE Commit(p)
  <2>0. imp[p].id \in Ids
    BY <1>6 DEF Commit, TypeOK, Issued
  <2>1. PICK place \in {"failed", "prune"} :
           /\ imp' = [imp EXCEPT ![p] = At(place, imp[p].id)]
           /\ place = "prune" => batch[imp[p].id].state # "none"
    BY <1>6 DEF Commit
  <2> QED BY <1>6, <2>0, <2>1, AtIsRun DEF Commit, TypeOK
<1>7. CASE Raise(p)
  <2>0. imp[p].id \in Ids
    BY <1>7 DEF Raise, TypeOK, Issued
  <2> QED BY <1>7, <2>0, AtIsRun DEF Raise, TypeOK
<1>8. CASE RecordFailure(p) \/ Prune(p) \/ FailureLost(p) \/ PruneFails(p) \/ Crash(p)
  <2>0. imp[p].pc # "idle" /\ imp' = [imp EXCEPT ![p] = Idle] /\ table' = table
    BY <1>8 DEF RecordFailure, Prune, FailureLost, PruneFails, Crash
  <2>1. FailureLost(p) \/ PruneFails(p) \/ Crash(p) => batch' = batch
    BY DEF FailureLost, PruneFails, Crash
  <2>2. imp'[p] = Idle /\ Idle.pc = "idle" /\ \A q \in Importers \ {p} : imp'[q] = imp[q]
    BY <2>0 DEF TypeOK, Idle
  <2> QED BY <1>8, <2>0, <2>1, <2>2 DEF TypeOK, Issued
<1> QED
  BY <1>1, <1>2, <1>3, <1>4, <1>5, <1>6, <1>7, <1>8 DEF Step, Failure

LEMMA TrailStep ==
  ASSUME Trail, [Next]_vars
  PROVE  Trail'
<1>1. TypeOK /\ TypeOK'
  BY TypeStep DEF Trail
<1>2. ASSUME NEW p \in Importers, NEW b \in Ids, Start(p, b)
      PROVE  Trail'
  <2>1. /\ imp'[p].pc = "fetch" /\ imp'[p].id = b
        /\ \A q \in Importers \ {p} : imp'[q] = imp[q]
    BY <1>1, <1>2, AtIsRun DEF Start, TypeOK
  <2>2. /\ batch'[b].state = "pending" /\ batch'[b].issued
        /\ \A c \in Ids \ {b} : batch'[c] = batch[c]
        /\ table' = table
    BY <1>1, <1>2 DEF Start, TypeOK, Batch
  <2>3. /\ \A r \in table : r[2] \in Ids \ {b}
        /\ \A q \in Importers \ {p} : imp[q].pc # "idle" => imp[q].id \in Ids \ {b}
    BY <1>1, <1>2 DEF Start, Trail, TypeOK, Issued, Rows
  <2> QED
    BY <1>1, <2>1, <2>2, <2>3 DEF Trail, Before
<1>3. ASSUME NEW p \in Importers, Step(p) \/ Failure(p)
      PROVE  Trail'
  <2> DEFINE id == imp[p].id
  <2>1. /\ imp[p].pc # "idle" /\ id \in Ids
        /\ \A q \in Importers \ {p} : imp'[q] = imp[q]
        /\ imp'[p] = Idle \/ (imp'[p].pc # "idle" /\ imp'[p].id = id)
        /\ imp'[p].pc = "commit" => imp'[p].inserted = imp'[p].fetched \X {imp'[p].id}
    BY <1>1, <1>3, TrailMoves
  <2>2. \A q \in Importers \ {p} : imp[q].pc # "idle" => imp[q].id \in Ids \ {id}
    BY <1>1, <2>1 DEF Trail, TypeOK, Issued
  <2>3. Idle.pc = "idle"
    BY DEF Idle
  <2>4. /\ \A q, s \in Importers : imp'[q].pc # "idle" /\ imp'[s].pc # "idle"
                                     /\ imp'[q].id = imp'[s].id => q = s
        /\ \A q \in Importers : imp'[q].pc = "commit" =>
                                   imp'[q].inserted = imp'[q].fetched \X {imp'[q].id}
    BY <2>1, <2>2, <2>3 DEF Trail
  <2>5. ASSUME \A r \in table' : batch'[r[2]].state \notin {"failed", "pending"} /\ batch'[r[2]].issued,
               \A c \in Ids : batch'[c].state # "none" => batch'[c].issued,
               \A q \in Importers : Before(q)' =>
                 batch'[imp'[q].id].state # "success" /\ \A r \in table' : r[2] # imp'[q].id
        PROVE  Trail'
    BY <1>1, <2>4, <2>5 DEF Trail
  <2>6. CASE table' = table /\ batch' = batch /\ imp'[p].pc # "prune"
    <3>1. ASSUME NEW q \in Importers, Before(q)'
          PROVE  \/ Before(q) /\ imp'[q].id = imp[q].id
                 \/ q = p /\ imp[p].pc = "prune"
      BY <3>1, <2>1, <2>3 DEF Before
    <3>2. imp[p].pc = "prune" => ~Before(p)'
      BY <1>3, TrailMoves, <1>1 DEF Before
    <3>3. \A q \in Importers : Before(q)' => Before(q) /\ imp'[q].id = imp[q].id
      BY <3>1, <3>2
    <3> QED BY <2>5, <2>6, <3>3 DEF Trail
  <2>7. CASE Commit(p) /\ batch[id].state # "none"
    <3>1. /\ imp[p].pc = "commit" /\ imp'[p].pc = "prune"
          /\ table' = (table \ imp[p].deleted) \cup imp[p].inserted
          /\ batch'[id].state = "success"
          /\ \A c \in Ids : batch'[c].issued = batch[c].issued
          /\ \A c \in Ids \ {id} : batch'[c] = batch[c]
      <4>1. imp'[p] = At("prune", id)
        BY <1>1, <2>7 DEF Commit, TypeOK
      <4>2. imp'[p].pc = "prune"
        BY <4>1, <2>1, AtIsRun
      <4> QED BY <1>1, <2>1, <2>7, <4>2 DEF Commit, TypeOK, Batch
    <3>2. /\ \A r \in table' : r \in table \/ r[2] = id
          /\ \A r \in table : r[2] \in Ids \ {id}
          /\ batch[id].issued
      BY <1>1, <2>1, <3>1 DEF Trail, Before, TypeOK, Rows, Issued
    <3>3. \A q \in Importers : Before(q)' => q # p /\ Before(q) /\ imp'[q] = imp[q]
      BY <2>1, <3>1 DEF Before
    <3>4. ASSUME NEW r \in table'
          PROVE  batch'[r[2]].state \notin {"failed", "pending"} /\ batch'[r[2]].issued
      BY <3>1, <3>2, <2>1 DEF Trail
    <3>5. \A c \in Ids : batch'[c].state # "none" => batch'[c].issued
      BY <3>1, <3>2 DEF Trail
    <3>6. ASSUME NEW q \in Importers, Before(q)'
          PROVE  batch'[imp'[q].id].state # "success" /\ \A r \in table' : r[2] # imp'[q].id
      <4>1. q # p /\ Before(q) /\ imp'[q] = imp[q] /\ imp[q].id \in Ids \ {id}
        BY <3>6, <3>3, <2>2 DEF Before
      <4> QED BY <4>1, <3>1, <3>2 DEF Trail
    <3> QED BY <2>5, <3>4, <3>5, <3>6
  <2>8. CASE RecordFailure(p)
    <3>1. /\ imp[p].pc = "failed" /\ imp'[p].pc = "idle" /\ table' = table
          /\ batch'[id].state \in {"none", "failed"}
          /\ batch[id].state = "none" => batch'[id].state = "none"
          /\ \A c \in Ids : batch'[c].issued = batch[c].issued
          /\ \A c \in Ids \ {id} : batch'[c] = batch[c]
      BY <1>1, <2>1, <2>3, <2>8 DEF RecordFailure, TypeOK, Batch
    <3>2. \A r \in table : r[2] \in Ids \ {id}
      BY <1>1, <3>1 DEF Trail, Before, TypeOK, Rows
    <3>3. batch[id].issued
      BY <1>1, <2>1 DEF TypeOK, Issued
    <3>4. \A q \in Importers : Before(q)' => q # p /\ Before(q) /\ imp'[q] = imp[q]
      BY <2>1, <3>1 DEF Before
    <3>5. ASSUME NEW q \in Importers, Before(q)'
          PROVE  batch'[imp'[q].id].state # "success" /\ \A r \in table' : r[2] # imp'[q].id
      <4>1. q # p /\ Before(q) /\ imp'[q] = imp[q] /\ imp[q].id \in Ids \ {id}
        BY <3>5, <3>4, <2>2 DEF Before
      <4> QED BY <4>1, <3>1, <3>2 DEF Trail
    <3> QED BY <2>5, <3>1, <3>2, <3>3, <3>5 DEF Trail
  <2>9. CASE Prune(p)
    <3>1. /\ imp[p].pc = "prune" /\ imp'[p].pc = "idle" /\ table' = table
          /\ \A c \in Ids : batch[c].issued => batch'[c].issued
          /\ \A c \in Ids : \/ batch'[c].state = "none"
                              \/ batch'[c].state = batch[c].state
      BY <1>1, <2>1, <2>3, <2>9 DEF Prune, TypeOK, Batch
    <3>2. \A q \in Importers : Before(q)' => q # p /\ Before(q) /\ imp'[q] = imp[q]
      BY <2>1, <3>1 DEF Before
    <3>3. \A r \in table : r[2] \in Ids
      BY <1>1 DEF TypeOK, Rows
    <3>4. ASSUME NEW q \in Importers, Before(q)'
          PROVE  batch'[imp'[q].id].state # "success" /\ \A r \in table' : r[2] # imp'[q].id
      <4>1. q # p /\ Before(q) /\ imp'[q] = imp[q] /\ imp[q].id \in Ids
        BY <3>4, <3>2, <2>2 DEF Before
      <4> QED BY <4>1, <3>1 DEF Trail
    <3>5. ASSUME NEW r \in table'
          PROVE  batch'[r[2]].state \notin {"failed", "pending"} /\ batch'[r[2]].issued
      BY <3>1, <3>3 DEF Trail
    <3>6. \A c \in Ids : batch'[c].state # "none" => batch'[c].issued
      BY <3>1 DEF Trail
    <3> QED BY <2>5, <3>4, <3>5, <3>6
  <2>10. CASE Commit(p) /\ batch[id].state = "none"
    <3>1. table' = table /\ batch' = batch
      BY <2>10 DEF Commit
    <3>2. imp'[p].pc # "prune"
      BY <2>10, <1>1, <1>3, TrailMoves
    <3> QED BY <2>6, <3>1, <3>2
  <2>11. CASE ~Commit(p) /\ ~RecordFailure(p) /\ ~Prune(p)
    <3>1. table' = table /\ batch' = batch /\ imp'[p].pc # "prune"
      BY <2>11, <1>1, <1>3, TrailMoves
    <3> QED BY <2>6, <3>1
  <2> QED
    BY <2>7, <2>8, <2>9, <2>10, <2>11
<1>4. CASE UNCHANGED vars
  BY <1>1, <1>4 DEF vars, Trail, Before
<1> QED
  BY <1>2, <1>3, <1>4 DEF Next

-----------------------------------------------------------------------------
(***************************************************************************)
(* Runs one at a time: the run in progress has the newest batch, and the   *)
(* table shows the newest success.                                         *)
(***************************************************************************)
Latest(b) == /\ batch[b].state = "success"
             /\ \A c \in Ids : batch[c].state = "success" => c <= b

ShowsLatest == \/ table = {} /\ \A c \in Ids : batch[c].state # "success"
               \/ \E b \in Ids : Latest(b) /\ table = batch[b].rows \X {b}

InOrder == \A c, d \in Ids : c < d /\ batch[d].issued => batch[c].issued

Newest(p) ==
  /\ imp[p].pc # "idle" => \A b \in Ids : batch[b].issued => b <= imp[p].id
  /\ imp[p].pc = "prune" => batch[imp[p].id].state = "success"

Current == /\ Trail /\ AllGuarded /\ InOrder
           /\ alone => /\ ShowsLatest
                       /\ \A p \in Importers : OpenTransaction(p) /\ Newest(p)

LEMMA LatestIsLast ==
  ASSUME NEW b \in Ids, Latest(b)
  PROVE  Success # {} /\ LastSuccess = b
<1>1. b \in Success /\ \A c \in Success : c \in Ids /\ c <= b
  BY DEF Latest, Success, Recorded
<1>2. \A x \in Success : (\A c \in Success : c <= x) => x = b
  BY <1>1 DEF Ids
<1>3. (CHOOSE x \in Success : \A c \in Success : c <= x) = b
  BY <1>1, <1>2
<1> QED BY <1>1, <1>3 DEF LastSuccess

\* A table of that kind is the one the property speaks of.
LEMMA ShownIsLast ==
  ASSUME ShowsLatest
  PROVE  table = IF Success = {} THEN {} ELSE batch[LastSuccess].rows \X {LastSuccess}
<1>1. CASE table = {} /\ \A c \in Ids : batch[c].state # "success"
  BY <1>1 DEF Success, Recorded
<1>2. CASE \E b \in Ids : Latest(b) /\ table = batch[b].rows \X {b}
  BY <1>2, LatestIsLast
<1> QED BY <1>1, <1>2 DEF ShowsLatest

\* As long as no success comes or goes, and the table stays, so does that.
LEMMA SameSuccesses ==
  ASSUME ShowsLatest, table' = table,
         \A c \in Ids : /\ batch'[c].state = "success" <=> batch[c].state = "success"
                        /\ batch'[c].rows = batch[c].rows
  PROVE  ShowsLatest'
BY DEF ShowsLatest, Latest

LEMMA InOrderStep ==
  ASSUME TypeOK, InOrder, [Next]_vars
  PROVE  InOrder'
<1>1. ASSUME NEW p \in Importers, NEW b \in Ids, Start(p, b)
      PROVE  InOrder'
  <2>1. /\ batch'[b].issued
        /\ \A c \in Ids \ {b} : batch'[c] = batch[c]
        /\ \A c \in Ids : c < b => batch[c].issued
    BY <1>1 DEF Start, TypeOK, Batch, Issued
  <2> QED BY <2>1 DEF InOrder
<1>2. ASSUME NEW p \in Importers, Step(p) \/ Failure(p)
      PROVE  InOrder'
  <2>1. \A c \in Ids : batch'[c].issued <=> batch[c].issued
    <3>1. CASE Commit(p) \/ RecordFailure(p)
      BY <3>1 DEF Commit, RecordFailure, TypeOK, Batch
    <3>2. CASE Prune(p)
      BY <3>2 DEF Prune, TypeOK, Batch
    <3>3. CASE ~Commit(p) /\ ~RecordFailure(p) /\ ~Prune(p)
      BY <3>3, <1>2, TrailMoves
    <3> QED BY <3>1, <3>2, <3>3
  <2> QED BY <2>1 DEF InOrder
<1>3. CASE UNCHANGED vars
  BY <1>3 DEF vars, InOrder
<1> QED BY <1>1, <1>2, <1>3 DEF Next

\* The newest success survives the pruning of the run that wrote it.
LEMMA PruneSpares ==
  ASSUME TypeOK, NEW p \in Importers, Prune(p), NEW b \in Ids, batch[b].state = "success",
         \A c \in Ids : batch[c].state # "none" => c <= b
  PROVE  /\ batch'[b] = batch[b]
         /\ \A c \in Ids : batch'[c].state = "success" => batch[c].state = "success"
<1>1. {c \in Recorded : c > b} = {}
  BY DEF Recorded, Ids
<1>2. b \notin Prunable
  BY <1>1, FS_EmptySet, ImportAssumption DEF Prunable
<1> QED BY <1>2 DEF Prune, TypeOK, Batch

LEMMA CurrentStep ==
  ASSUME Current, [Next]_vars
  PROVE  Current'
<1>1. /\ Trail' /\ AllGuarded' /\ InOrder' /\ alone' = alone
      /\ TypeOK /\ TypeOK' /\ Trail /\ AllGuarded /\ InOrder
  <2>1. AllGuarded'
    BY TypeStep, GuardedStep DEF Current, AllGuarded, Next, vars
  <2> QED BY <2>1, TrailStep, InOrderStep DEF Current, Trail, Next, vars
<1> SUFFICES ASSUME alone
             PROVE  /\ ShowsLatest'
                    /\ \A q \in Importers : OpenTransaction(q)' /\ Newest(q)'
  BY <1>1 DEF Current
<1>2. /\ ShowsLatest
      /\ \A q \in Importers : OpenTransaction(q) /\ Newest(q)
  BY DEF Current
\* The runs that are not in progress ask for nothing.
<1>3. ASSUME NEW p \in Importers, \A q \in Importers \ {p} : imp'[q].pc = "idle",
             OpenTransaction(p)', Newest(p)'
      PROVE  \A q \in Importers : OpenTransaction(q)' /\ Newest(q)'
  BY <1>3 DEF OpenTransaction, Newest
<1>4. ASSUME NEW p \in Importers, NEW b \in Ids, Start(p, b)
      PROVE  ShowsLatest' /\ \A q \in Importers : OpenTransaction(q)' /\ Newest(q)'
  <2>1. /\ imp'[p].pc = "fetch" /\ imp'[p].id = b
        /\ \A q \in Importers \ {p} : imp'[q].pc = "idle"
    BY <1>1, <1>4, AtIsRun DEF Start, TypeOK
  <2>2. /\ batch'[b].state = "pending" /\ batch'[b].rows = batch[b].rows
        /\ batch[b].state = "none"
        /\ \A c \in Ids \ {b} : batch'[c] = batch[c]
        /\ table' = table
    <3>1. batch[b].state = "none"
      BY <1>1, <1>4 DEF Start, Trail, Issued
    <3> QED BY <1>1, <1>4, <3>1 DEF Start, TypeOK, Batch
  <2>3. \A c \in Ids : batch'[c].issued => c <= b
    <3>1. ~batch[b].issued
      BY <1>4 DEF Start, Issued
    <3>2. \A c \in Ids : b < c => ~batch[c].issued
      BY <1>1, <3>1 DEF InOrder
    <3> QED BY <2>2, <3>2 DEF Ids
  <2>4. ShowsLatest'
    BY <1>2, <2>2, SameSuccesses
  <2> QED BY <1>3, <2>1, <2>3, <2>4 DEF OpenTransaction, Newest
<1>5. ASSUME NEW p \in Importers, Step(p) \/ Failure(p)
      PROVE  ShowsLatest' /\ \A q \in Importers : OpenTransaction(q)' /\ Newest(q)'
  <2> DEFINE id == imp[p].id
  <2>1. /\ imp[p].pc # "idle" /\ id \in Ids
        /\ imp'[p] = Idle \/ (imp'[p].pc # "idle" /\ imp'[p].id = id)
        /\ Idle.pc = "idle"
    BY <1>1, <1>5, TrailMoves DEF Idle
  <2>2. \A q \in Importers \ {p} : imp'[q].pc = "idle"
    BY <1>1, <1>5, OthersIdle
  <2>3. \A c \in Ids : batch[c].state # "none" => c <= id
    BY <1>1, <1>2, <2>1 DEF Newest, Trail
  <2>4. \A c \in Ids : batch'[c].issued <=> batch[c].issued
    <3>1. CASE Commit(p) \/ RecordFailure(p)
      BY <1>1, <3>1 DEF Commit, RecordFailure, TypeOK, Batch
    <3>2. CASE Prune(p)
      BY <1>1, <3>2 DEF Prune, TypeOK, Batch
    <3>3. CASE ~Commit(p) /\ ~RecordFailure(p) /\ ~Prune(p)
      BY <3>3, <1>1, <1>5, TrailMoves
    <3> QED BY <3>1, <3>2, <3>3
  <2>5. imp'[p].pc = "prune" => Commit(p) /\ batch[id].state # "none"
    BY <1>1, <1>5, TrailMoves
  <2>6. CASE Commit(p) /\ batch[id].state # "none"
    <3>1. /\ imp'[p].pc = "prune"
          /\ table' = imp[p].fetched \X {id}
          /\ batch'[id].state = "success" /\ batch'[id].rows = imp[p].fetched
          /\ \A c \in Ids \ {id} : batch'[c] = batch[c]
      <4>1. imp'[p] = At("prune", id)
        BY <1>1, <2>6 DEF Commit, TypeOK
      <4>2. imp'[p].pc = "prune"
        BY <4>1, <2>1, AtIsRun
      <4>3. table \subseteq imp[p].deleted /\ imp[p].inserted = imp[p].fetched \X {id}
        BY <1>1, <1>2, <2>6 DEF OpenTransaction, Trail, Commit
      <4>4. table' = imp[p].fetched \X {id}
        BY <2>6, <4>3 DEF Commit
      <4>5. batch' = [batch EXCEPT ![id].state = "success", ![id].rows = imp[p].fetched]
        BY <2>6 DEF Commit
      <4>6. /\ batch'[id].state = "success" /\ batch'[id].rows = imp[p].fetched
            /\ \A c \in Ids \ {id} : batch'[c] = batch[c]
        BY <1>1, <2>1, <4>5 DEF TypeOK, Batch
      <4> QED BY <4>2, <4>4, <4>6
    <3>2. Latest(id)'
      BY <2>1, <2>3, <3>1 DEF Latest, Ids
    <3>3. ShowsLatest'
      BY <2>1, <3>1, <3>2 DEF ShowsLatest
    <3>4. OpenTransaction(p)' /\ Newest(p)'
      BY <1>2, <2>1, <2>4, <3>1 DEF OpenTransaction, Newest
    <3> QED BY <1>3, <2>2, <3>3, <3>4
  <2>7. CASE Prune(p)
    <3>1. imp'[p].pc = "idle" /\ table' = table /\ batch[id].state = "success"
      <4>1. imp[p].pc = "prune" /\ imp' = [imp EXCEPT ![p] = Idle] /\ table' = table
        BY <2>7 DEF Prune
      <4>2. imp'[p] = Idle
        BY <1>1, <4>1 DEF TypeOK
      <4> QED BY <1>2, <2>1, <4>1, <4>2 DEF Newest
    <3>2. /\ batch'[id] = batch[id]
          /\ \A c \in Ids : batch'[c].state = "success" => batch[c].state = "success"
      BY <1>1, <2>1, <2>3, <2>7, <3>1, PruneSpares
    <3>3. PICK b \in Ids : Latest(b) /\ table = batch[b].rows \X {b}
      BY <1>2, <2>1, <3>1 DEF ShowsLatest
    <3>4. b = id
      <4>1. Latest(id)
        BY <2>1, <2>3, <3>1 DEF Latest
      <4> QED BY <2>1, <3>3, <4>1, LatestIsLast
    <3>5. ShowsLatest'
      <4>1. Latest(b)'
        BY <3>2, <3>3, <3>4 DEF Latest
      <4> QED BY <3>1, <3>2, <3>3, <3>4, <4>1 DEF ShowsLatest
    <3> QED BY <1>3, <2>2, <3>1, <3>5 DEF OpenTransaction, Newest
  <2>8. CASE RecordFailure(p)
    <3>1. /\ imp[p].pc = "failed" /\ imp'[p].pc = "idle" /\ table' = table
          /\ batch'[id].state \in {"none", "failed"} /\ batch'[id].rows = batch[id].rows
          /\ \A c \in Ids \ {id} : batch'[c] = batch[c]
      BY <1>1, <2>1, <2>8 DEF RecordFailure, TypeOK, Batch
    <3>2. batch[id].state # "success"
      BY <1>1, <3>1 DEF Trail, Before
    <3>3. ShowsLatest'
      BY <1>2, <3>1, <3>2, SameSuccesses
    <3> QED BY <1>3, <2>2, <3>1, <3>3 DEF OpenTransaction, Newest
  <2>9. CASE /\ table' = table /\ batch' = batch /\ imp'[p].pc # "prune"
    <3>1. ShowsLatest'
      BY <1>2, <2>9, SameSuccesses
    <3>2. Newest(p)'
      BY <1>2, <2>1, <2>9 DEF Newest
    <3>3. OpenTransaction(p)'
      <4>1. /\ imp'[p].pc = "delete" => imp'[p].snapshot = table
            /\ imp'[p].pc = "insert" =>
                 imp[p].pc = "delete" /\ imp[p].snapshot \cap table \subseteq imp'[p].deleted
            /\ imp'[p].pc = "commit" =>
                 /\ imp[p].pc = "insert" /\ imp'[p].deleted = imp[p].deleted
                 /\ imp'[p].inserted = imp'[p].fetched \X {imp'[p].id}
        BY <1>1, <1>5, TrailMoves
      <4> QED BY <1>2, <2>9, <4>1 DEF OpenTransaction
    <3> QED BY <1>3, <2>2, <3>1, <3>2, <3>3
  <2>10. CASE Commit(p) /\ batch[id].state = "none"
    BY <2>5, <2>9, <2>10 DEF Commit
  <2>11. CASE ~Commit(p) /\ ~RecordFailure(p) /\ ~Prune(p)
    BY <1>1, <1>5, <2>5, <2>9, <2>11, TrailMoves
  <2> QED BY <2>6, <2>7, <2>8, <2>10, <2>11
<1>6. CASE UNCHANGED vars
  BY <1>2, <1>6 DEF vars, ShowsLatest, Latest, OpenTransaction, Newest
<1> QED
  BY <1>4, <1>5, <1>6 DEF Next

LEMMA CurrentInit == Init => Current
<1> SUFFICES ASSUME Init PROVE Current
  OBVIOUS
<1>1. TypeOK
  BY TypeInit
<1> QED
  BY <1>1 DEF Init, Current, Trail, AllGuarded, OneRun, Guarded, InOrder, ShowsLatest,
              OpenTransaction, Newest, Before, Idle, Ids

\* The table is the newest success while runs come one at a time, and never
\* holds a row of a failed or unfinished batch whatever overlaps.
THEOREM NewestSuccessShown == Spec => []TableIsLastSuccess
<1>1. Current => TableIsLastSuccess
  BY ShownIsLast DEF Current, Trail, TableIsLastSuccess
<1> QED
  BY <1>1, CurrentInit, CurrentStep, PTL DEF Spec

-----------------------------------------------------------------------------
(***************************************************************************)
(* Refinement of the snapshot.                                             *)
(***************************************************************************)
\* The newest success stays, with the table, or is the run that commits.
LEMMA SuccessMoves ==
  ASSUME Current, Current', alone, [Next]_vars
  PROVE  \/ table' = table /\ LastSuccess' = LastSuccess
         \/ LastSuccess' \in Nat /\ LastSuccess' > LastSuccess
<1>1. /\ TypeOK /\ Trail /\ AllGuarded /\ ShowsLatest /\ \A p \in Importers : Newest(p)
  BY DEF Current, Trail
<1>2. ASSUME Success' = Success PROVE LastSuccess' = LastSuccess
  BY <1>2 DEF LastSuccess
<1>3. ASSUME batch' = batch, table' = table
      PROVE  table' = table /\ LastSuccess' = LastSuccess
  <2>1. Success' = Success
    BY <1>3 DEF Success, Recorded
  <2> QED BY <1>2, <1>3, <2>1
<1>4. ASSUME NEW p \in Importers, NEW b \in Ids, Start(p, b)
      PROVE  table' = table /\ LastSuccess' = LastSuccess
  <2>1. batch[b].state = "none"
    BY <1>1, <1>4 DEF Start, Trail, Issued
  <2>2. /\ batch'[b].state = "pending" /\ table' = table
        /\ \A c \in Ids \ {b} : batch'[c] = batch[c]
    BY <1>1, <1>4 DEF Start, TypeOK, Batch
  <2>3. Success' = Success
    BY <2>1, <2>2 DEF Success, Recorded
  <2> QED BY <1>2, <2>2, <2>3
<1>5. ASSUME NEW p \in Importers, Step(p) \/ Failure(p)
      PROVE  \/ table' = table /\ LastSuccess' = LastSuccess
             \/ LastSuccess' \in Nat /\ LastSuccess' > LastSuccess
  <2>1. PICK id \in Ids : id = imp[p].id
    BY <1>1, <1>5, TrailMoves
  <2>2. imp[p].pc # "idle" /\ \A c \in Ids : batch[c].state # "none" => c <= id
    BY <1>1, <1>5, <2>1, TrailMoves DEF Newest, Trail
  <2>3. CASE Commit(p) /\ batch[id].state # "none"
    <3>1. batch' = [batch EXCEPT ![id].state = "success", ![id].rows = imp[p].fetched]
      BY <2>1, <2>3 DEF Commit
    <3>2. /\ batch'[id].state = "success"
          /\ \A c \in Ids \ {id} : batch'[c] = batch[c]
      BY <1>1, <2>1, <3>1 DEF TypeOK, Batch
    <3>3. Latest(id)'
      BY <2>1, <2>2, <3>2 DEF Latest, Ids
    <3>4. LastSuccess' = id
      <4>1. \A b \in Ids : Latest(b)' => LastSuccess' = b
        <5>1. ASSUME NEW b \in Ids, Latest(b)' PROVE LastSuccess' = b
          <6>1. b \in Success' /\ \A c \in Success' : c \in Ids /\ c <= b
            BY <5>1 DEF Latest, Success, Recorded
          <6>2. \A x \in Success' : (\A c \in Success' : c <= x) => x = b
            BY <6>1 DEF Ids
          <6>3. (CHOOSE x \in Success' : \A c \in Success' : c <= x) = b
            BY <6>1, <6>2
          <6> QED BY <6>1, <6>3 DEF LastSuccess
        <5> QED BY <5>1
      <4> QED BY <2>1, <3>3, <4>1
    <3>5. LastSuccess < id
      <4>1. batch[id].state # "success"
        BY <1>1, <2>1, <2>3 DEF Trail, Before, Commit
      <4>2. CASE Success = {}
        BY <2>1, <4>2 DEF LastSuccess, Ids
      <4>3. CASE Success # {}
        <5>1. PICK b \in Ids : Latest(b)
          BY <1>1, <4>3 DEF ShowsLatest, Success, Recorded
        <5>2. LastSuccess = b /\ b <= id /\ b # id
          BY <2>2, <4>1, <5>1, LatestIsLast DEF Latest
        <5> QED BY <2>1, <5>1, <5>2 DEF Ids
      <4> QED BY <4>2, <4>3
    <3> QED BY <2>1, <3>4, <3>5 DEF Ids
  <2>4. CASE Prune(p)
    <3>1. table' = table /\ batch[id].state = "success"
      BY <1>1, <2>1, <2>4 DEF Prune, Newest
    <3>2. /\ batch'[id] = batch[id]
          /\ \A c \in Ids : batch'[c].state = "success" => batch[c].state = "success"
      BY <1>1, <2>1, <2>2, <2>4, <3>1, PruneSpares
    <3>3. id \in Success /\ id \in Success' /\ Success' \subseteq Success
          /\ \A c \in Success : c \in Ids /\ c <= id
      BY <2>1, <2>2, <3>1, <3>2 DEF Success, Recorded
    <3>4. /\ (CHOOSE x \in Success : \A c \in Success : c <= x) = id
          /\ (CHOOSE x \in Success' : \A c \in Success' : c <= x) = id
      <4>1. \A S \in {Success, Success'} :
              /\ \A c \in S : c <= id
              /\ id \in S
              /\ \A x \in S : (\A c \in S : c <= x) => x = id
        BY <2>1, <3>3 DEF Ids
      <4> QED BY <4>1
    <3> QED BY <3>1, <3>3, <3>4 DEF LastSuccess
  <2>5. CASE RecordFailure(p)
    <3>1. /\ table' = table
          /\ batch'[id].state \in {"none", "failed"}
          /\ \A c \in Ids \ {id} : batch'[c] = batch[c]
      BY <1>1, <2>1, <2>5 DEF RecordFailure, TypeOK, Batch
    <3>2. batch[id].state # "success"
      BY <1>1, <2>1, <2>5 DEF Trail, Before, RecordFailure
    <3>3. Success' = Success
      BY <3>1, <3>2 DEF Success, Recorded
    <3> QED BY <1>2, <3>1, <3>3
  <2>6. CASE Commit(p) /\ batch[id].state = "none"
    BY <1>3, <2>1, <2>6 DEF Commit
  <2>7. CASE ~Commit(p) /\ ~RecordFailure(p) /\ ~Prune(p)
    BY <1>1, <1>3, <1>5, <2>7, TrailMoves
  <2> QED BY <2>3, <2>4, <2>5, <2>6, <2>7
<1>6. CASE UNCHANGED vars
  BY <1>3, <1>6 DEF vars
<1> QED
  BY <1>4, <1>5, <1>6 DEF Next

\* A step replaces data by data.
LEMMA GuardedMove ==
  ASSUME AllGuarded, [Next]_vars, alone, table # {}
  PROVE  table' # {}
<1>1. ASSUME NEW p \in Importers, Commit(p), table' # table
      PROVE  table' # {}
  <2>1. imp[p].inserted = imp[p].fetched \X {imp[p].id} /\ imp[p].fetched # {}
    BY <1>1 DEF Commit, AllGuarded, Guarded
  <2>2. PICK k \in imp[p].fetched : TRUE
    BY <2>1
  <2>3. <<k, imp[p].id>> \in imp[p].inserted
    BY <2>1, <2>2
  <2> QED BY <1>1, <2>3 DEF Commit
<1>2. ASSUME NEW p \in Importers, Step(p) \/ Failure(p)
      PROVE  Commit(p) \/ table' = table
  BY <1>2, TrailMoves DEF AllGuarded
<1> QED
  BY <1>1, <1>2 DEF Next, Start, vars

\* While runs come one at a time, none replaces data by nothing.
THEOREM GuardHolds == Spec => NotWiped
<1>1. Init => AllGuarded
  BY TypeInit DEF Init, AllGuarded, OneRun, Guarded, Idle
<1>2. AllGuarded /\ [Next]_vars => AllGuarded'
  <2>1. ASSUME AllGuarded, ~alone, [Next]_vars
        PROVE  AllGuarded'
    BY <2>1, TypeStep DEF AllGuarded, Next, vars
  <2> QED
    BY <2>1, GuardedStep
<1>3. AllGuarded /\ [Next]_vars => [alone /\ table # {} => table' # {}]_vars
  BY GuardedMove
<1> QED
  BY <1>1, <1>2, <1>3, PTL DEF Spec, NotWiped

\* Runs that come one at a time implement the snapshot: each step shows a
\* later import, whole, or changes nothing a reader sees.
THEOREM ShowsOneImport == Spec => ShownSpec
<1>1. Init => Shown!Init
  <2> SUFFICES ASSUME Init PROVE Shown!Init
    OBVIOUS
  <2>1. Success = {} /\ table = {}
    BY DEF Init, Success, Recorded
  <2> QED BY <2>1 DEF Shown!Init, LastSuccess
<1>2. Current /\ Current' /\ [Next]_vars =>
        [Shown!Replace]_<<IF alone THEN LastSuccess ELSE 0,
                          IF alone THEN {r[1] : r \in table} ELSE {}>>
  <2> SUFFICES ASSUME Current, Current', [Next]_vars
               PROVE  [Shown!Replace]_<<IF alone THEN LastSuccess ELSE 0,
                          IF alone THEN {r[1] : r \in table} ELSE {}>>
    OBVIOUS
  <2>1. alone' = alone
    BY DEF Next, vars
  <2>2. CASE alone
    <3>1. CASE table' = table /\ LastSuccess' = LastSuccess
      BY <2>1, <2>2, <3>1
    <3>2. CASE LastSuccess' \in Nat /\ LastSuccess' > LastSuccess
      <4>1. {r[1] : r \in table'} \in SUBSET Keys
        BY DEF Current, Trail, TypeOK, Rows
      <4>2. {r[1] : r \in table'} = {} => {r[1] : r \in table} = {}
        BY <2>2, GuardedMove DEF Current
      <4> QED BY <2>1, <2>2, <3>2, <4>1, <4>2 DEF Shown!Replace
    <3> QED BY <2>2, <3>1, <3>2, SuccessMoves
  <2>3. CASE ~alone
    BY <2>1, <2>3
  <2> QED BY <2>2, <2>3
<1> QED
  BY <1>1, <1>2, CurrentInit, CurrentStep, PTL DEF Spec, ShownSpec, Shown!Spec
=============================================================================
