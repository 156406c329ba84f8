--------------------------- MODULE DecisionProofs ---------------------------
(***************************************************************************)
(* Proofs about ReleaseDecisions, for any releases, users and size of the  *)
(* memo, while users work one at a time, not into a running                *)
(* reconciliation, and purchase orders come by run_batch (CalmSpec): what  *)
(* a request has loaded is still what the tables hold when it saves.       *)
(***************************************************************************)
EXTENDS ReleaseDecisions, TLAPS

OneBusy == \A u, v \in Users : req[u].pc # "idle" /\ req[v].pc # "idle" => u = v

\* A reconciliation is not disturbed, and what it closes is still all there is.
Undisturbed ==
  /\ sync.pc \in {"closing", "reconciled"} => Resting
  /\ sync.pc = "closing" => sync.close = Received

\* Purchase orders that a batch has not replaced since it last ended.
Settled == sync.pc = "idle"

MemoGood == Settled => \A m \in memo : m.listed = Listed

DropsOff == sync.pc \in {"idle", "reconciled"} => Active \subseteq Outstanding

\* The status a release has once the request has saved.
Afterwards(q, r) == IF r \in DOMAIN q.writes THEN q.writes[r] ELSE status[r]

\* The result of a request is for the decisions and the orders as they are.
ResultFits(q) ==
  q.pc \in {"calculate", "load"} =>
    /\ q.result.committed = Committed
    /\ Settled => q.result.listed = Listed

\* What a request is about to write leads on from what is there, and leaves
\* one staged group, of outstanding releases.
WritesFit(q) ==
  q.pc = "save" =>
    /\ \A r \in DOMAIN q.writes : q.writes[r] \in Leads[status[r]]
    /\ \/ \A r \in Releases : Afterwards(q, r) = "staged" <=> r \in q.selected
       \/ /\ q.selected = {}
          /\ \A r \in Releases : Afterwards(q, r) = "staged" => status[r] = "staged"
    /\ Settled => \A r \in Releases :
                    Afterwards(q, r) \in {"staged", "committed"} => r \in Outstanding

\* With one user, the panel on the page shows every committed release that
\* the table listed when it was calculated.
PagesGood ==
  /\ \A u \in Users : req[u].pc # "idle" => page[u] = NoPage
  /\ (\A u, v \in Users : u = v) =>
       \A u \in Users : Committed \cap page[u].listed \subseteq page[u].shown

\* The inductive invariant.
DecisionInv ==
  /\ TypeOK /\ OneBusy /\ Undisturbed /\ MemoGood /\ DropsOff
  /\ \A u \in Users : ResultFits(req[u]) /\ WritesFit(req[u])
  /\ PagesGood /\ OneStagedGroup


-----------------------------------------------------------------------------
(***************************************************************************)
(* Types.                                                                  *)
(***************************************************************************)
LEMMA RowsTyped == /\ Staged \subseteq Releases /\ Committed \subseteq Releases
                   /\ Listed \subseteq Outstanding /\ Outstanding \subseteq Releases
BY DEF Staged, Committed, Having, Listed, Outstanding

\* The pages there can be.
Pages == [shown : SUBSET Releases, listed : SUBSET Releases]

LEMMA PagesTyped ==
  /\ NoPage \in Pages /\ NoPage.listed = {} /\ NoPage.shown = {}
  /\ \A a, b \in SUBSET Releases :
       LET p == [shown |-> a, listed |-> b]
       IN  p \in Pages /\ p.shown = a /\ p.listed = b
BY DEF NoPage, Pages

LEMMA WritesTyped ==
  ASSUME NEW S \in SUBSET Releases, NEW f \in [S -> Status]
  PROVE  f \in UNION {[T -> Status] : T \in SUBSET Releases}
OBVIOUS

LEMMA IdleTyped == Idle \in Request /\ Idle.pc = "idle" /\ Nothing \in Result
<1>1. <<>> \in [{} -> Status]
  OBVIOUS
<1>2. <<>> \in UNION {[T -> Status] : T \in SUBSET Releases}
  BY <1>1, WritesTyped
<1>3. Nothing \in Result
  BY DEF Nothing, Result
<1> QED BY <1>2, <1>3 DEF Idle, Request

\* A request that calculates, or has its result, as it is made.
LEMMA AskedTyped ==
  ASSUME NEW kind \in {"none", "view", "stage", "commit", "clear", "update"},
         NEW result \in Result,
         NEW at \in {"calculate", "load"}
  PROVE  [Idle EXCEPT !.pc = at, !.kind = kind, !.result = result] \in Request
BY IdleTyped DEF Idle, Request

LEMMA SavingTyped ==
  ASSUME NEW kind \in {"stage", "commit", "clear", "update"},
         NEW S \in SUBSET Releases, NEW writes \in [S -> Status],
         NEW inserted \in SUBSET Releases, NEW selected \in SUBSET Releases
  PROVE  LET q == Saving(kind, writes, inserted, selected)
         IN  /\ q \in Request /\ q.pc = "save" /\ q.writes = writes
             /\ q.selected = selected
<1>1. writes \in UNION {[T -> Status] : T \in SUBSET Releases}
  BY WritesTyped
<1> QED BY <1>1, IdleTyped DEF Idle, Request, Saving

LEMMA CalculatedTyped ==
  ASSUME TypeOK, NEW u \in Users,
         NEW kind \in {"none", "view", "stage", "commit", "clear", "update"},
         NEW result \in Result, Calculated(u, kind, result)
  PROVE  page' \in [Users -> Pages] /\ req' \in [Users -> Request]
<1>1. [shown |-> Panel(result), listed |-> result.listed] \in Pages
  BY PagesTyped DEF Panel, Result
<1>2. CASE kind = "view"
  <2> DEFINE shown == [shown |-> Panel(result), listed |-> result.listed]
  <2>1. page' = [page EXCEPT ![u] = shown] /\ req' = [req EXCEPT ![u] = Idle]
    BY <1>2 DEF Calculated
  <2>2. page \in [Users -> Pages] /\ req \in [Users -> Request]
    BY DEF TypeOK, Pages
  <2>3. shown \in Pages
    BY <1>1
  <2> HIDE DEF shown
  <2> QED BY <2>1, <2>2, <2>3, IdleTyped
<1>3. CASE kind # "view"
  <2> DEFINE q == [Idle EXCEPT !.pc = "load", !.kind = kind, !.result = result]
  <2>1. q \in Request
    BY AskedTyped
  <2>2. req' = [req EXCEPT ![u] = q] /\ page' = [page EXCEPT ![u] = NoPage]
    BY <1>3 DEF Calculated
  <2> QED BY <2>1, <2>2, PagesTyped DEF TypeOK, Pages
<1> QED BY <1>2, <1>3

LEMMA AskTyped ==
  ASSUME TypeOK, NEW u \in Users, NEW kind \in {"view", "stage"},
         NEW staged \in SUBSET Releases, Ask(u, kind, staged)
  PROVE  TypeOK'
<1> DEFINE now == [committed |-> Committed, staged |-> staged, listed |-> Listed]
<1>1. now \in Result
  BY RowsTyped DEF TypeOK, Result
<1>2. memo \subseteq Result
  BY DEF TypeOK
<1>3. CASE \E m \in memo : Calculated(u, kind, m)
  <2>1. PICK m \in memo : Calculated(u, kind, m)
    BY <1>3
  <2>2. page' \in [Users -> Pages] /\ req' \in [Users -> Request]
    BY <2>1, <1>2, CalculatedTyped
  <2> QED BY <2>2 DEF Ask, TypeOK, Pages
<1>4. CASE /\ req' = [req EXCEPT ![u] = [Idle EXCEPT !.pc = "calculate",
                                          !.kind = kind, !.result = now]]
           /\ page' = [page EXCEPT ![u] = NoPage]
  <2>1. req' \in [Users -> Request]
    BY <1>1, <1>4, AskedTyped DEF TypeOK
  <2> QED BY <2>1, <1>4, PagesTyped DEF Ask, TypeOK, Pages
<1> QED BY <1>3, <1>4 DEF Ask

LEMMA CalculateTyped ==
  ASSUME TypeOK, NEW u \in Users, Calculate(u)
  PROVE  TypeOK'
<1>1. /\ req[u].result \in Result
      /\ req[u].kind \in {"none", "view", "stage", "commit", "clear", "update"}
  BY DEF TypeOK, Request
<1>2. page' \in [Users -> Pages] /\ req' \in [Users -> Request]
  BY <1>1, CalculatedTyped DEF Calculate
<1>3. memo' \subseteq memo \cup {req[u].result}
  BY DEF Calculate
<1> QED BY <1>1, <1>2, <1>3 DEF Calculate, TypeOK, Pages

LEMMA StageLoadTyped ==
  ASSUME TypeOK, NEW u \in Users, StageLoad(u)
  PROVE  TypeOK'
<1>1. PICK selected \in SUBSET Candidates(req[u].result) :
        req' = [req EXCEPT ![u] =
                 Saving("stage",
                        [r \in (selected \ Staged) \cup (Staged \ selected) |->
                           IF r \in selected THEN "staged" ELSE "withdrawn"],
                        selected \cap Having("none"), selected)]
  BY DEF StageLoad
<1>2. selected \in SUBSET Releases
  BY <1>1 DEF Candidates, TypeOK, Request, Result
<1> DEFINE S == (selected \ Staged) \cup (Staged \ selected)
           w == [r \in S |-> IF r \in selected THEN "staged" ELSE "withdrawn"]
<1>3. S \in SUBSET Releases
  BY <1>2, RowsTyped
<1>4. w \in [S -> Status]
  BY DEF Status
<1>5. selected \cap Having("none") \in SUBSET Releases
  BY <1>2
<1> HIDE DEF S, w
<1>6. Saving("stage", w, selected \cap Having("none"), selected) \in Request
  BY <1>2, <1>3, <1>4, <1>5, SavingTyped
<1>7. req' \in [Users -> Request]
  BY <1>1, <1>6 DEF TypeOK, S, w
<1> QED BY <1>7 DEF StageLoad, TypeOK

LEMMA LoadTyped ==
  ASSUME TypeOK, NEW u \in Users, NEW kind \in {"commit", "clear", "update"},
         NEW rows \in SUBSET Releases, NEW to \in Status, Load(u, kind, rows, to)
  PROVE  TypeOK'
<1>1. [r \in rows |-> to] \in [rows -> Status]
  OBVIOUS
<1>2. Saving(kind, [r \in rows |-> to], {}, {}) \in Request
  BY <1>1, SavingTyped
<1> QED BY <1>2, PagesTyped DEF Load, TypeOK, Pages

LEMMA SaveTyped ==
  ASSUME TypeOK, NEW u \in Users, Save(u)
  PROVE  TypeOK'
<1>1. /\ req[u].selected \in SUBSET Releases
      /\ \A r \in DOMAIN req[u].writes : req[u].writes[r] \in Status
  BY DEF TypeOK, Request
<1>2. req' \in [Users -> Request]
  BY IdleTyped DEF Save, TypeOK
<1>3. status' \in [Releases -> Status] /\ group' \in [Releases -> SUBSET Releases]
  BY <1>1 DEF Save, TypeOK
<1> QED BY <1>2, <1>3 DEF Save, TypeOK


-----------------------------------------------------------------------------
(***************************************************************************)
(* Steps of the orders and the batch.                                      *)
(***************************************************************************)
LEMMA WorldKeeps ==
  ASSUME DecisionInv, memo' \subseteq memo, epicor' \in [Releases -> Row],
         UNCHANGED <<po, status, group, page, req, sync>>
  PROVE  DecisionInv'
<1>1. TypeOK' /\ OneBusy' /\ Undisturbed' /\ DropsOff'
  BY DEF DecisionInv, TypeOK, OneBusy, Undisturbed, DropsOff, Resting, Received,
         Outstanding, Active, Staged, Committed, Having
<1>2. MemoGood'
  BY DEF DecisionInv, MemoGood, Settled, Listed, Committed, Having
<1>3. PagesGood' /\ OneStagedGroup'
  BY DEF DecisionInv, PagesGood, OneStagedGroup, Committed, Staged, Having
<1>4. ASSUME NEW u \in Users PROVE ResultFits(req[u])' /\ WritesFit(req[u])'
  <2>1. ResultFits(req[u]) /\ WritesFit(req[u])
    BY DEF DecisionInv
  <2> QED BY <2>1 DEF ResultFits, WritesFit, Afterwards, Settled,
                      Listed, Outstanding, Committed, Having
<1> QED BY <1>1, <1>2, <1>3, <1>4 DEF DecisionInv

LEMMA BatchImportKeeps ==
  ASSUME DecisionInv, BatchImport
  PROVE  DecisionInv'
<1> USE DEF BatchImport
<1>1. sync.pc = "idle" /\ sync'.pc = "imported" /\ UNCHANGED Committed /\ UNCHANGED Active
  BY DEF DecisionInv, TypeOK, Committed, Active, Staged, Having
<1>2. TypeOK' /\ OneBusy' /\ Undisturbed' /\ DropsOff' /\ OneStagedGroup'
  BY <1>1 DEF DecisionInv, TypeOK, OneBusy, Undisturbed, DropsOff,
         OneStagedGroup, Staged, Having
<1>4. MemoGood'
  BY <1>1 DEF DecisionInv, MemoGood, Settled
<1>5. PagesGood'
  BY <1>1 DEF DecisionInv, PagesGood
<1>6. ASSUME NEW u \in Users PROVE ResultFits(req[u])' /\ WritesFit(req[u])'
  <2>1. ResultFits(req[u]) /\ WritesFit(req[u])
    BY DEF DecisionInv
  <2>2. ResultFits(req[u])'
    BY <2>1, <1>1 DEF ResultFits, Settled
  <2>3. WritesFit(req[u])'
    BY <2>1, <1>1 DEF WritesFit, Afterwards, Settled
  <2> QED BY <2>2, <2>3
<1> QED BY <1>2, <1>4, <1>5, <1>6 DEF DecisionInv

LEMMA ReconcileLoadKeeps ==
  ASSUME DecisionInv, Resting, ReconcileLoad
  PROVE  DecisionInv'
<1> USE DEF ReconcileLoad
<1>1. Resting' /\ sync' = [pc |-> "closing", close |-> Received]
  BY DEF Resting
<1>2. Received' = Received /\ Received \subseteq Releases
  BY DEF Received, Active, Staged, Committed, Having, Outstanding
<1>3. OneBusy' /\ \A u \in Users : ResultFits(req[u])' /\ WritesFit(req[u])'
  BY <1>1 DEF Resting, OneBusy, ResultFits, WritesFit
<1>4. TypeOK' /\ Undisturbed'
  BY <1>1, <1>2 DEF DecisionInv, TypeOK, Undisturbed
<1>5. MemoGood' /\ DropsOff'
  BY <1>1 DEF MemoGood, Settled, DropsOff
<1>6. PagesGood' /\ OneStagedGroup'
  BY DEF DecisionInv, PagesGood, OneStagedGroup, Committed, Staged, Having
<1> QED BY <1>3, <1>4, <1>5, <1>6 DEF DecisionInv

LEMMA ReconcileSaveKeeps ==
  ASSUME DecisionInv, ReconcileSave
  PROVE  DecisionInv'
<1> USE DEF ReconcileSave
<1>1. Resting /\ Resting' /\ sync.close = Received
  BY DEF DecisionInv, Undisturbed, Resting
<1>2. TypeOK' /\ Undisturbed' /\ MemoGood'
  BY <1>1 DEF DecisionInv, TypeOK, Undisturbed, MemoGood, Settled, Status
<1>3. OneBusy' /\ \A u \in Users : ResultFits(req[u])' /\ WritesFit(req[u])'
  BY <1>1 DEF Resting, OneBusy, ResultFits, WritesFit
<1>4. Committed' \subseteq Committed /\ Staged' \subseteq Staged \ sync.close
  BY DEF DecisionInv, TypeOK, Committed, Staged, Having
<1>5. Active' \subseteq Active \ sync.close
  BY DEF DecisionInv, TypeOK, Active, Committed, Staged, Having
<1>6. DropsOff'
  BY <1>1, <1>5 DEF DropsOff, Received, Outstanding
<1>7. PagesGood'
  BY <1>4 DEF DecisionInv, PagesGood
<1>8. \A r \in Staged' : group'[r] = group[r]
  BY <1>4, RowsTyped DEF DecisionInv, TypeOK
<1>9. OneStagedGroup'
  BY <1>4, <1>8 DEF DecisionInv, OneStagedGroup
<1> QED BY <1>2, <1>3, <1>6, <1>7, <1>9 DEF DecisionInv

LEMMA BatchEndKeeps ==
  ASSUME DecisionInv, BatchEnd
  PROVE  DecisionInv'
<1> USE DEF BatchEnd
<1>1. Resting /\ Resting' /\ sync'.pc = "idle"
  BY DEF DecisionInv, Undisturbed, Resting, TypeOK
<1>2. TypeOK' /\ Undisturbed' /\ MemoGood'
  BY <1>1 DEF DecisionInv, TypeOK, Undisturbed, MemoGood
<1>3. OneBusy' /\ \A u \in Users : ResultFits(req[u])' /\ WritesFit(req[u])'
  BY <1>1 DEF Resting, OneBusy, ResultFits, WritesFit
<1>4. DropsOff'
  BY DEF DecisionInv, DropsOff, Outstanding, Active, Committed, Staged, Having
<1>5. PagesGood' /\ OneStagedGroup'
  BY DEF DecisionInv, PagesGood, OneStagedGroup, Committed, Staged, Having
<1> QED BY <1>2, <1>3, <1>4, <1>5 DEF DecisionInv


-----------------------------------------------------------------------------
(***************************************************************************)
(* Steps of a request.                                                     *)
(***************************************************************************)
\* The decisions and orders stay: a request is asked, calculates or loads.
Reading == UNCHANGED <<po, status, group, sync>>

\* Only u has a request, before the step and after it.
Alone(u) == \A v \in Users : v # u => req[v].pc = "idle"

LEMMA OnlyOne ==
  ASSUME DecisionInv, NEW u \in Users,
         Calm \/ req[u].pc # "idle"
  PROVE  Alone(u) /\ sync.pc \in {"idle", "imported"}
BY DEF DecisionInv, OneBusy, Undisturbed, Calm, Resting, Alone, TypeOK

LEMMA RequestKeeps ==
  ASSUME DecisionInv, NEW u \in Users, Alone(u), sync.pc \in {"idle", "imported"},
         UNCHANGED sync, NEW q \in Request, req' = [req EXCEPT ![u] = q],
         (ResultFits(q) /\ WritesFit(q))'
  PROVE  /\ OneBusy' /\ Undisturbed'
         /\ \A v \in Users : ResultFits(req[v])' /\ WritesFit(req[v])'
<1>1. req'[u] = q /\ \A v \in Users : v # u => req'[v].pc = "idle"
  BY DEF DecisionInv, TypeOK, Alone
<1>2. OneBusy' /\ Undisturbed'
  BY <1>1 DEF OneBusy, Undisturbed
<1>3. ASSUME NEW v \in Users PROVE ResultFits(req[v])' /\ WritesFit(req[v])'
  <2>1. CASE v = u
    BY <2>1, <1>1
  <2>2. CASE v # u
    BY <2>2, <1>1 DEF ResultFits, WritesFit
  <2> QED BY <2>1, <2>2
<1> QED BY <1>2, <1>3

\* A result that fits what is there.
Current(result) == /\ result.committed = Committed
                   /\ Settled => result.listed = Listed

LEMMA ReadingKeeps ==
  ASSUME DecisionInv, Reading
  PROVE  /\ DropsOff' /\ OneStagedGroup'
         /\ UNCHANGED <<Committed, Staged, Settled, Listed, Outstanding>>
BY DEF DecisionInv, Reading, DropsOff, OneStagedGroup, Settled, Active, Committed,
       Staged, Having, Listed, Outstanding

LEMMA CalculatedKeeps ==
  ASSUME DecisionInv, Reading, NEW u \in Users, Calm \/ req[u].pc # "idle",
         NEW kind \in {"none", "view", "stage", "commit", "clear", "update"},
         NEW result \in Result, Current(result), Calculated(u, kind, result)
  PROVE  /\ OneBusy' /\ Undisturbed' /\ PagesGood'
         /\ \A v \in Users : ResultFits(req[v])' /\ WritesFit(req[v])'
<1>1. Alone(u) /\ sync.pc \in {"idle", "imported"}
  BY OnlyOne
<1>2. CASE kind = "view"
  <2>1. req' = [req EXCEPT ![u] = Idle] /\ page' = [page EXCEPT ![u] = [shown |-> Panel(result), listed |-> result.listed]]
    BY <1>2 DEF Calculated
  <2>2. (ResultFits(Idle) /\ WritesFit(Idle))'
    BY IdleTyped DEF ResultFits, WritesFit
  <2>3. PagesGood'
    <3>1. Committed' \cap result.listed \subseteq Panel(result)
      BY ReadingKeeps DEF Current, Reading, Panel
    <3>2. /\ page'[u].shown = Panel(result) /\ page'[u].listed = result.listed
          /\ req'[u].pc = "idle"
      BY <2>1, IdleTyped DEF DecisionInv, TypeOK
    <3>3. \A v \in Users : v # u => page'[v] = page[v] /\ req'[v] = req[v]
      BY <2>1 DEF DecisionInv, TypeOK
    <3> QED BY <3>1, <3>2, <3>3 DEF DecisionInv, PagesGood
  <2> QED BY <1>1, <2>1, <2>2, <2>3, IdleTyped, RequestKeeps DEF Reading
<1>3. CASE kind # "view"
  <2>1. PICK q \in Request :
          /\ q.pc = "load" /\ q.result = result
          /\ req' = [req EXCEPT ![u] = q] /\ page' = [page EXCEPT ![u] = NoPage]
    <3> DEFINE q == [Idle EXCEPT !.pc = "load", !.kind = kind, !.result = result]
    <3>1. q \in Request
      BY AskedTyped
    <3>2. q.pc = "load" /\ q.result = result
      BY DEF Idle
    <3>3. req' = [req EXCEPT ![u] = q] /\ page' = [page EXCEPT ![u] = NoPage]
      BY <1>3 DEF Calculated
    <3> HIDE DEF q
    <3> QED BY <3>1, <3>2, <3>3
  <2>2. (ResultFits(q) /\ WritesFit(q))'
    BY <2>1, ReadingKeeps DEF ResultFits, WritesFit, Current, Reading
  <2>3. PagesGood'
    BY <2>1, ReadingKeeps, PagesTyped DEF DecisionInv, TypeOK, PagesGood, Reading
  <2> QED BY <1>1, <2>1, <2>2, <2>3, RequestKeeps DEF Reading
<1> QED BY <1>2, <1>3

LEMMA AskKeeps ==
  ASSUME DecisionInv, NEW u \in Users, Calm, NEW kind \in {"view", "stage"},
         NEW staged \in SUBSET Releases, Ask(u, kind, staged)
  PROVE  DecisionInv'
<1> USE DEF Ask
<1>1. TypeOK' /\ Reading
  BY AskTyped DEF DecisionInv, Reading
<1>2. MemoGood' /\ DropsOff' /\ OneStagedGroup'
  BY <1>1, ReadingKeeps DEF DecisionInv, MemoGood, Reading
<1>3. CASE \E m \in memo : m.committed = Committed /\ Calculated(u, kind, m)
  <2>1. PICK m \in memo : m.committed = Committed /\ Calculated(u, kind, m)
    BY <1>3
  <2>2. m \in Result
    BY DEF DecisionInv, TypeOK
  <2>3. Current(m)
    <3>1. CASE sync.pc = "idle"
      BY <2>1, <3>1 DEF DecisionInv, MemoGood, Settled, Current
    <3>2. CASE sync.pc = "imported"
      BY <2>1, <3>2 DEF DecisionInv, MemoGood, Settled, Current
    <3> QED BY <3>1, <3>2 DEF Calm
  <2> QED BY <1>1, <1>2, <2>1, <2>2, <2>3, CalculatedKeeps DEF DecisionInv
<1>4. CASE /\ req' = [req EXCEPT ![u] =
                 [Idle EXCEPT !.pc = "calculate", !.kind = kind,
                              !.result = [committed |-> Committed,
                                          staged |-> staged, listed |-> Listed]]]
           /\ page' = [page EXCEPT ![u] = NoPage]
  <2>1. [committed |-> Committed, staged |-> staged, listed |-> Listed] \in Result
    BY RowsTyped DEF DecisionInv, TypeOK, Result
  <2>2. PICK q \in Request :
          /\ q.pc = "calculate" /\ q.result.committed = Committed /\ q.result.listed = Listed
          /\ req' = [req EXCEPT ![u] = q]
    <3> DEFINE now == [committed |-> Committed, staged |-> staged, listed |-> Listed]
               q == [Idle EXCEPT !.pc = "calculate", !.kind = kind, !.result = now]
    <3>1. now.committed = Committed /\ now.listed = Listed
      OBVIOUS
    <3>2. q \in Request
      BY <2>1, AskedTyped
    <3>3. q.pc = "calculate" /\ q.result = now
      BY DEF Idle
    <3>4. req' = [req EXCEPT ![u] = q]
      BY <1>4
    <3> HIDE DEF q, now
    <3> QED BY <3>1, <3>2, <3>3, <3>4
  <2>3. (ResultFits(q) /\ WritesFit(q))'
    BY <1>1, <2>2, ReadingKeeps
    DEF ResultFits, WritesFit, Reading
  <2>4. PagesGood'
    BY <1>1, <1>4, <2>2, ReadingKeeps, PagesTyped DEF DecisionInv, TypeOK, PagesGood, Reading
  <2> QED BY <1>1, <1>2, <2>2, <2>3, <2>4, OnlyOne, RequestKeeps DEF DecisionInv
<1> QED BY <1>3, <1>4

LEMMA CalculateKeeps ==
  ASSUME DecisionInv, NEW u \in Users, Calculate(u)
  PROVE  DecisionInv'
<1> USE DEF Calculate
<1>1. TypeOK' /\ Reading
  BY CalculateTyped DEF DecisionInv, Reading
<1>2. PICK result \in Result, kind \in {"none", "view", "stage", "commit", "clear", "update"} :
        result = req[u].result /\ kind = req[u].kind
  BY DEF DecisionInv, TypeOK, Request
<1>3. Current(result)
  BY <1>2 DEF DecisionInv, ResultFits, Current
<1>4. DropsOff' /\ OneStagedGroup'
  BY <1>1, ReadingKeeps
<1>6. memo' \subseteq memo \cup {result}
  BY <1>2
<1>7. MemoGood'
  BY <1>1, <1>3, <1>6, ReadingKeeps
  DEF DecisionInv, MemoGood, Current, Reading, Settled
<1> QED BY <1>1, <1>2, <1>3, <1>4, <1>7, CalculatedKeeps DEF DecisionInv


\* Leads, status by status.
LEMMA LeadsTo ==
  ASSUME NEW from \in Status
  PROVE  /\ from \in {"none", "fulfilled", "withdrawn"} => "staged" \in Leads[from]
         /\ from = "staged" => "committed" \in Leads[from] /\ "withdrawn" \in Leads[from]
         /\ from = "committed" => "withdrawn" \in Leads[from]
         /\ from \in {"staged", "committed"} => "fulfilled" \in Leads[from]
BY DEF Leads, Status

LEMMA StageLoadKeeps ==
  ASSUME DecisionInv, NEW u \in Users, StageLoad(u)
  PROVE  DecisionInv'
<1>1. TypeOK' /\ Reading /\ UNCHANGED <<memo, page>>
  BY StageLoadTyped DEF DecisionInv, Reading, StageLoad
<1>2. /\ Alone(u) /\ sync.pc \in {"idle", "imported"} /\ req[u].pc = "load"
      /\ Current(req[u].result) /\ req[u].result \in Result
  BY OnlyOne DEF StageLoad, DecisionInv, ResultFits, Current, TypeOK, Request
<1>3. PICK selected \in SUBSET Candidates(req[u].result) :
        req' = [req EXCEPT ![u] =
                 Saving("stage",
                        [r \in (selected \ Staged) \cup (Staged \ selected) |->
                           IF r \in selected THEN "staged" ELSE "withdrawn"],
                        selected \cap Having("none"), selected)]
  BY DEF StageLoad
<1>4. /\ selected \subseteq Releases /\ selected \cap Committed = {}
      /\ Settled => selected \subseteq Outstanding
  BY <1>2, RowsTyped DEF Candidates, Result, Current
<1> DEFINE S == (selected \ Staged) \cup (Staged \ selected)
           w == [r \in S |-> IF r \in selected THEN "staged" ELSE "withdrawn"]
<1>5. S \in SUBSET Releases /\ w \in [S -> Status]
  BY <1>4, RowsTyped DEF Status
<1>6. \A r \in S : w[r] \in Leads[status[r]]
  <2>1. ASSUME NEW r \in S PROVE w[r] \in Leads[status[r]]
    <3>1. status[r] \in Status
      BY <1>5 DEF DecisionInv, TypeOK
    <3>2. CASE r \in selected
      <4>1. status[r] \in {"none", "fulfilled", "withdrawn"}
        BY <1>4, <3>1, <3>2 DEF Staged, Committed, Having, Status
      <4> QED BY <3>1, <3>2, <4>1, LeadsTo
    <3>3. CASE r \notin selected
      <4>1. status[r] = "staged"
        BY <3>3 DEF Staged, Having
      <4> QED BY <3>1, <3>3, <4>1, LeadsTo
    <3> QED BY <3>2, <3>3
  <2> QED BY <2>1
<1>7. \A r \in Releases : (IF r \in S THEN w[r] ELSE status[r]) = "staged" <=> r \in selected
  BY DEF Staged, Having
<1>8. Settled => \A r \in Releases :
        (IF r \in S THEN w[r] ELSE status[r]) \in {"staged", "committed"} => r \in Outstanding
  BY <1>4, <1>7 DEF DecisionInv, DropsOff, Settled, Active, Committed, Having
<1>9. PICK q \in Request :
        /\ q.pc = "save" /\ q.writes = w /\ q.selected = selected
        /\ req' = [req EXCEPT ![u] = q]
  <2> DEFINE q == Saving("stage", w, selected \cap Having("none"), selected)
  <2>1. q \in Request /\ q.pc = "save" /\ q.writes = w /\ q.selected = selected
    <3> HIDE DEF w, S
    <3> QED BY <1>4, <1>5, SavingTyped
  <2> QED BY <1>3, <2>1
<1>10. DOMAIN q.writes = S
  BY <1>9
<1>11. (ResultFits(q) /\ WritesFit(q))'
  <2>1. ResultFits(q)'
    BY <1>9 DEF ResultFits
  <2>2. /\ \A r \in DOMAIN q.writes : q.writes[r] \in Leads[status[r]]
        /\ \A r \in Releases : Afterwards(q, r) = "staged" <=> r \in q.selected
        /\ Settled => \A r \in Releases :
                        Afterwards(q, r) \in {"staged", "committed"} => r \in Outstanding
    <3> HIDE DEF S, w
    <3> QED BY <1>6, <1>7, <1>8, <1>9, <1>10 DEF Afterwards
  <2>3. WritesFit(q)'
    BY <1>1, <2>2, ReadingKeeps DEF Reading, WritesFit, Afterwards, Settled
  <2> QED BY <2>1, <2>3
<1>12. MemoGood' /\ DropsOff' /\ OneStagedGroup'
  BY <1>1, ReadingKeeps DEF DecisionInv, MemoGood, Reading
<1>13. PagesGood'
  BY <1>1, <1>2, <1>9, ReadingKeeps, PagesTyped DEF DecisionInv, TypeOK, PagesGood, Reading
<1> QED BY <1>1, <1>2, <1>9, <1>11, <1>12, <1>13, RequestKeeps DEF DecisionInv, Reading

LEMMA LoadKeeps ==
  ASSUME DecisionInv, NEW u \in Users, Calm, NEW kind \in {"commit", "clear", "update"},
         NEW rows \in SUBSET Active, NEW to \in {"committed", "withdrawn"},
         to = "committed" => rows \subseteq Staged, Load(u, kind, rows, to)
  PROVE  DecisionInv'
<1>1. rows \in SUBSET Releases /\ to \in Status
  BY RowsTyped DEF Active, Status
<1>2. TypeOK' /\ Reading /\ UNCHANGED memo /\ page' = [page EXCEPT ![u] = NoPage]
  BY <1>1, LoadTyped DEF DecisionInv, Reading, Load
<1> DEFINE w == [r \in rows |-> to]
<1>3. w \in [rows -> Status]
  BY <1>1
<1>4. PICK q \in Request :
        /\ q.pc = "save" /\ q.writes = w /\ q.selected = {}
        /\ req' = [req EXCEPT ![u] = q]
  <2>1. Saving(kind, w, {}, {}) \in Request
    BY <1>1, <1>3, SavingTyped
  <2>2. LET q == Saving(kind, w, {}, {})
        IN  q.pc = "save" /\ q.writes = w /\ q.selected = {}
    BY DEF Saving, Idle
  <2> QED BY <2>1, <2>2 DEF Load
<1>5. DOMAIN q.writes = rows /\ \A r \in rows : q.writes[r] = to
  BY <1>4
<1>6. \A r \in rows : to \in Leads[status[r]]
  <2>1. ASSUME NEW r \in rows PROVE to \in Leads[status[r]]
    <3>1. status[r] \in {"staged", "committed"} /\ status[r] \in Status
      BY DEF Active, Staged, Committed, Having, Status
    <3>2. to = "committed" => status[r] = "staged"
      BY DEF Staged, Having
    <3> QED BY <3>1, <3>2, LeadsTo
  <2> QED BY <2>1
<1>7. (ResultFits(q) /\ WritesFit(q))'
  <2>1. ResultFits(q)'
    BY <1>4 DEF ResultFits
  <2>2. \A r \in Releases : Afterwards(q, r) = "staged" => status[r] = "staged"
    BY <1>5 DEF Afterwards
  <2>3. \A r \in Releases : Afterwards(q, r) \in {"staged", "committed"} => r \in Active
    BY <1>5 DEF Afterwards, Active, Staged, Committed, Having
  <2>4. Settled => Active \subseteq Outstanding
    BY DEF DecisionInv, DropsOff, Settled
  <2>5. WritesFit(q)'
    BY <1>2, <1>4, <1>5, <1>6, <2>2, <2>3, <2>4, ReadingKeeps
    DEF Reading, WritesFit, Afterwards, Settled
  <2> QED BY <2>1, <2>5
<1>8. MemoGood' /\ DropsOff' /\ OneStagedGroup'
  BY <1>2, ReadingKeeps DEF DecisionInv, MemoGood, Reading
<1>9. PagesGood'
  BY <1>2, <1>4, ReadingKeeps, PagesTyped DEF DecisionInv, TypeOK, PagesGood, Reading
<1> QED BY <1>2, <1>4, <1>7, <1>8, <1>9, OnlyOne, RequestKeeps DEF DecisionInv, Reading


LEMMA SaveKeeps ==
  ASSUME DecisionInv, NEW u \in Users, Save(u)
  PROVE  DecisionInv'
<1> USE DEF Save
<1>1. /\ TypeOK' /\ Alone(u) /\ sync.pc \in {"idle", "imported"} /\ WritesFit(req[u])
      /\ UNCHANGED <<po, sync, memo, page>> /\ UNCHANGED Settled
  BY SaveTyped, OnlyOne DEF DecisionInv, Settled
<1>2. /\ OneBusy' /\ Undisturbed'
      /\ \A v \in Users : ResultFits(req[v])' /\ WritesFit(req[v])'
  <2>1. (ResultFits(Idle) /\ WritesFit(Idle))'
    BY IdleTyped DEF ResultFits, WritesFit
  <2> QED BY <1>1, <2>1, IdleTyped, RequestKeeps
<1>3. MemoGood'
  BY <1>1 DEF DecisionInv, MemoGood, Settled, Listed, Committed, Having
<1>4. CASE UNCHANGED <<status, group>>
  <2>1. DropsOff' /\ OneStagedGroup'
    BY <1>1, <1>4 DEF DecisionInv, DropsOff, OneStagedGroup, Outstanding, Active, Committed,
                      Staged, Having
  <2>2. PagesGood'
    BY <1>1, <1>4 DEF DecisionInv, TypeOK, PagesGood, Committed, Having
  <2> QED BY <1>1, <1>2, <1>3, <2>1, <2>2 DEF DecisionInv
<1>5. CASE /\ \A r \in Releases : status'[r] = Afterwards(req[u], r)
           /\ \A r \in Releases :
                group'[r] = IF status'[r] # "staged" THEN {}
                            ELSE IF r \in req[u].selected THEN req[u].selected
                            ELSE group[r]
  <2>1. DropsOff'
    BY <1>1, <1>5 DEF DropsOff, WritesFit, Settled, Outstanding, Active, Committed, Staged, Having
  <2>2. OneStagedGroup'
    <3>1. CASE \A r \in Releases :
                 Afterwards(req[u], r) = "staged" <=> r \in req[u].selected
      BY <1>5, <3>1 DEF OneStagedGroup, Staged, Having
    <3>2. CASE /\ req[u].selected = {}
               /\ \A r \in Releases :
                    Afterwards(req[u], r) = "staged" => status[r] = "staged"
      BY <1>5, <3>2 DEF DecisionInv, OneStagedGroup, Staged, Having
    <3> QED BY <1>1, <3>1, <3>2 DEF WritesFit
  <2>3. PagesGood'
    BY <1>1, PagesTyped DEF DecisionInv, TypeOK, PagesGood
  <2> QED BY <1>1, <1>2, <1>3, <2>1, <2>2, <2>3 DEF DecisionInv
<1>6. req[u].inserted \subseteq Having("none") =>
        /\ \A r \in Releases : status'[r] = Afterwards(req[u], r)
        /\ \A r \in Releases :
             group'[r] = IF status'[r] # "staged" THEN {}
                         ELSE IF r \in req[u].selected THEN req[u].selected
                         ELSE group[r]
  BY DEF Afterwards
<1> QED BY <1>4, <1>5, <1>6

-----------------------------------------------------------------------------
(***************************************************************************)
(* The specification.                                                      *)
(***************************************************************************)
LEMMA InitHolds ==
  ASSUME Init PROVE DecisionInv
<1> USE DEF Init
<1>1. TypeOK
  <2>1. page \in [Users -> Pages] /\ req \in [Users -> Request]
    BY IdleTyped, PagesTyped
  <2>2. epicor \in [Releases -> Row] /\ po \in [Releases -> Row]
    BY DEF Row
  <2>3. status \in [Releases -> Status] /\ group \in [Releases -> SUBSET Releases]
    BY DEF Status
  <2> QED BY <2>1, <2>2, <2>3 DEF TypeOK, Pages
<1>2. Resting /\ Active = {} /\ Staged = {} /\ Committed = {}
  BY IdleTyped DEF Resting, Active, Staged, Committed, Having
<1>3. OneBusy /\ \A u \in Users : ResultFits(req[u]) /\ WritesFit(req[u])
  BY <1>2 DEF Resting, OneBusy, ResultFits, WritesFit
<1> QED BY <1>1, <1>2, <1>3
        DEF DecisionInv, Undisturbed, MemoGood, DropsOff, PagesGood, OneStagedGroup, NoPage

\* What a user begins is a question or a list of rows to change.
Loading(u) ==
  \E kind \in {"commit", "clear", "update"}, rows \in SUBSET Active,
     to \in {"committed", "withdrawn"} :
    (to = "committed" => rows \subseteq Staged) /\ Load(u, kind, rows, to)

LEMMA BeginCases ==
  ASSUME NEW u \in Users, Begin(u)
  PROVE  \/ \E kind \in {"view", "stage"}, staged \in SUBSET Releases : Ask(u, kind, staged)
         \/ Loading(u)
<1>1. CASE View(u)
  BY <1>1, RowsTyped DEF View
<1>2. CASE \E ticked \in SUBSET Releases : Stage(u, ticked)
  BY <1>2 DEF Stage
<1>3. CASE CommitStaged(u)
  BY <1>3 DEF CommitStaged, Loading, Active
<1>4. CASE ClearStaged(u)
  BY <1>4 DEF ClearStaged, Loading, Active
<1>5. CASE \E keep \in SUBSET Releases : UpdateCommitted(u, keep)
  <2>1. PICK keep \in SUBSET Releases : Load(u, "update", Committed \ keep, "withdrawn")
    BY <1>5 DEF UpdateCommitted
  <2>2. (Committed \ keep) \in SUBSET Active
    BY DEF Active
  <2> QED BY <2>1, <2>2 DEF Loading
<1> QED BY <1>1, <1>2, <1>3, <1>4, <1>5 DEF Begin

LEMMA StepKeeps ==
  ASSUME DecisionInv, [CalmNext]_vars PROVE DecisionInv'
<1>1. CASE UNCHANGED vars
  BY <1>1, WorldKeeps DEF vars, DecisionInv, TypeOK
<1>2. CASE World
  BY <1>2, WorldKeeps DEF World, Expire, Changed, DecisionInv, TypeOK
<1>3. CASE BatchImport
  BY <1>3, BatchImportKeeps
<1>4. CASE Resting /\ ReconcileLoad
  BY <1>4, ReconcileLoadKeeps
<1>5. CASE ReconcileSave \/ BatchEnd
  BY <1>5, ReconcileSaveKeeps, BatchEndKeeps
<1>6. ASSUME NEW u \in Users, Calm, Begin(u) PROVE DecisionInv'
  <2>1. CASE \E kind \in {"view", "stage"}, staged \in SUBSET Releases : Ask(u, kind, staged)
    BY <1>6, <2>1, AskKeeps
  <2>2. CASE Loading(u)
    BY <1>6, <2>2, LoadKeeps DEF Loading
  <2> QED BY <1>6, <2>1, <2>2, BeginCases
<1>7. ASSUME NEW u \in Users, Continue(u) PROVE DecisionInv'
  BY <1>7, CalculateKeeps, StageLoadKeeps, SaveKeeps DEF Continue
<1> QED BY <1>1, <1>2, <1>3, <1>4, <1>5, <1>6, <1>7 DEF CalmNext

(***************************************************************************)
(* Each promise about the decisions that is a property of states, for any  *)
(* number of users: the staged releases are one joint scenario (stage,     *)
(* commit, clear), a received release drops off (reconcile), and a         *)
(* memoized result is for the purchase orders there are (run_batch).       *)
(***************************************************************************)
THEOREM StagedIsOneScenario == CalmSpec => []OneStagedGroup
<1>1. DecisionInv => OneStagedGroup
  BY DEF DecisionInv
<1> QED BY <1>1, InitHolds, StepKeeps, PTL DEF CalmSpec

THEOREM ReceivedAreClosed == CalmSpec => []ReceivedDropsOff
<1>1. DecisionInv => ReceivedDropsOff
  BY DEF DecisionInv, DropsOff, ReceivedDropsOff
<1> QED BY <1>1, InitHolds, StepKeeps, PTL DEF CalmSpec

THEOREM NoStaleResult == CalmSpec => []MemoFresh
<1>1. DecisionInv => MemoFresh
  BY DEF DecisionInv, MemoGood, Settled, MemoFresh
<1> QED BY <1>1, InitHolds, StepKeeps, PTL DEF CalmSpec

\* A step changes a status as the life cycle has it.
LEMMA StepLeadsOn ==
  ASSUME DecisionInv, [CalmNext]_vars
  PROVE  [\A r \in Releases : status'[r] = status[r] \/ status'[r] \in Leads[status[r]]]_vars
<1>1. CASE UNCHANGED status
  BY <1>1
<1>2. CASE ReconcileSave
  <2>1. ASSUME NEW r \in sync.close PROVE "fulfilled" \in Leads[status[r]]
    <3>1. status[r] \in {"staged", "committed"} /\ status[r] \in Status
      BY <1>2 DEF ReconcileSave, DecisionInv, Undisturbed, Received, Active,
                  Staged, Committed, Having, Status
    <3> QED BY <3>1, LeadsTo
  <2> QED BY <1>2, <2>1 DEF ReconcileSave
<1>3. ASSUME NEW u \in Users, Save(u)
      PROVE  \A r \in Releases : status'[r] = status[r] \/ status'[r] \in Leads[status[r]]
  <2>1. \A r \in DOMAIN req[u].writes : req[u].writes[r] \in Leads[status[r]]
    BY <1>3 DEF DecisionInv, WritesFit, Save
  <2> QED BY <1>3, <2>1 DEF Save
<1>4. UNCHANGED status \/ ReconcileSave \/ \E u \in Users : Save(u)
  BY BeginCases DEF CalmNext, vars, World, Expire, Changed, BatchImport,
     ReconcileLoad, BatchEnd, Continue, Calculate, StageLoad, Loading, Load, Ask
<1> QED BY <1>1, <1>2, <1>3, <1>4

(***************************************************************************)
(* A decision goes from staged to committed to fulfilled or withdrawn,     *)
(* although each request writes rows it loaded in an earlier step, for any *)
(* number of users.                                                        *)
(***************************************************************************)
THEOREM LifecycleKept == CalmSpec => Lifecycle
BY InitHolds, StepKeeps, StepLeadsOn, PTL DEF CalmSpec, Lifecycle

(***************************************************************************)
(* Saving the committed panel withdraws none of the releases the table     *)
(* listed when the page was calculated that the panel did not show, as     *)
(* long as one user works: update_committed_selection takes every other    *)
(* committed release for one that was unticked.                            *)
(***************************************************************************)
THEOREM PanelIsSafe ==
  ASSUME \A u, v \in Users : u = v
  PROVE  CalmSpec => NothingRemovedUnseen
<1>1. DecisionInv /\ [CalmNext]_vars =>
        [\A u \in Users, keep \in SUBSET Releases :
           UpdateCommitted(u, keep) =>
             (DOMAIN req'[u].writes) \cap page[u].listed \subseteq page[u].shown \ keep]_vars
  <2> SUFFICES ASSUME DecisionInv, NEW u \in Users, NEW keep \in SUBSET Releases,
                      UpdateCommitted(u, keep)
               PROVE  (DOMAIN req'[u].writes) \cap page[u].listed
                        \subseteq page[u].shown \ keep
    OBVIOUS
  <2> DEFINE w == [r \in Committed \ keep |-> "withdrawn"]
  <2>1. req'[u].writes = w
    BY DEF DecisionInv, TypeOK, UpdateCommitted, Load, Saving, Idle
  <2>2. Committed \cap page[u].listed \subseteq page[u].shown
    BY DEF DecisionInv, PagesGood
  <2> QED BY <2>1, <2>2
<1> QED BY <1>1, InitHolds, StepKeeps, PTL DEF CalmSpec, NothingRemovedUnseen

=============================================================================
