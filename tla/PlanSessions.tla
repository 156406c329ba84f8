----------------------------- MODULE PlanSessions ---------------------------
(***************************************************************************)
(* Planning sessions and their overrides (planning/workorder_plan): a      *)
(* planner moves single jobs, or a whole sales order, to other weeks.      *)
(* Moving an order commits job by job; every commit expires the loaded     *)
(* works orders, which are then read again by id, although an import may   *)
(* have replaced the whole table.                                          *)
(***************************************************************************)
EXTENDS PlanningRequests, Sequences, SequencesExt

CONSTANTS Sessions,
          Jobs, Orders,  \* the jobs, and the sales orders as sets of jobs
          PlanWeeks,     \* the values of an override
          MaxImports     \* bound: imports of works orders

ASSUME SessionsAssumption == /\ MaxImports \in Nat /\ Jobs \subseteq Nat
                             /\ IsFiniteSet(Jobs) /\ UNION Orders = Jobs

VARIABLES sessions,   \* the sessions that exist
          overrides,  \* the override of a job in a session
          works,      \* the works orders in the order of their ids
          imports,    \* imports of works orders so far
          moving      \* the request in progress of each planner

sessionVars == <<sessions, overrides, works, imports, moving>>

NoPlan    == [j \in Jobs |-> None]
NotMoving == [pc |-> "idle"]
Tables    == {t \in UNION {[1 .. n -> Jobs] : n \in 0 .. Cardinality(Jobs)} : IsInjective(t)}

SessionsInit == /\ sessions = Sessions
                /\ overrides = [s \in Sessions |-> NoPlan]
                /\ works \in SetToSeqs(Jobs)
                /\ imports = 0
                /\ moving = [p \in Planners |-> NotMoving]

----------------------------------------------------------------------------
(* The works orders are replaced: jobs have been completed or raised.      *)
ImportWorks == /\ imports < MaxImports
               /\ works' \in Tables
               /\ imports' = imports + 1
               /\ UNCHANGED <<sessions, overrides, moving>>

StartMove(p, request) == /\ moving[p] = NotMoving
                     /\ moving' = [moving EXCEPT ![p] = request]
                     /\ UNCHANGED <<sessions, overrides, works, imports>>

(* upsert_override() of one job: its row is sought, then written.          *)
FindOverride(p, s, j, v) ==
  StartMove(p, [pc |-> "write", session |-> s, week |-> v, jobs |-> {j},
            ids |-> <<>>, loaded |-> imports, moved |-> {}, job |-> j,
            found |-> overrides[s][j] # None, lost |-> FALSE])

(* upsert_order_override(): the open jobs of the order are selected, in    *)
(* the order in which the database returns them.                           *)
OpenJobs(o)   == {i \in DOMAIN works : works[i] \in o}
SelectJobs(p, s, o, v) ==
  \E ids \in SetToSeqs(OpenJobs(o)) :
  StartMove(p, [pc |-> "next", session |-> s, week |-> v,
            jobs |-> {works[i] : i \in OpenJobs(o)},
            ids |-> ids, loaded |-> imports, moved |-> {},
            job |-> IF ids = <<>> THEN None ELSE works[Head(ids)],
            found |-> FALSE, lost |-> FALSE])

(* The job an id stands for: as loaded until the first commit, then as     *)
(* read again.  PostgreSQL gives the rows of an import new ids, SQLite     *)
(* starts from 1 again.                                                    *)
Fresh(p) == moving[p].moved = {}
Gone(p)  == /\ ~Fresh(p)
            /\ \/ Database = "postgres" /\ moving[p].loaded # imports
               \/ Head(moving[p].ids) > Len(works)
JobOf(p) == IF Fresh(p) THEN moving[p].job ELSE works[Head(moving[p].ids)]

NextJob(p) ==
  LET r == moving[p] IN
  /\ r.pc = "next" /\ r.ids # <<>> /\ ~Gone(p)
  /\ moving' = [moving EXCEPT ![p] =
       [r EXCEPT !.pc = "write", !.lost = FALSE, !.ids = Tail(r.ids), !.job = JobOf(p),
                 !.found = overrides[r.session][JobOf(p)] # None]]
  /\ UNCHANGED <<sessions, overrides, works, imports>>

(* A unique key if another request added the row, no row if one deleted    *)
(* it, a foreign key if the session is gone (SQLite does not check it).    *)
WriteRefused(p) ==
  LET r == moving[p] IN
  \/ ~r.found /\ overrides[r.session][r.job] # None
  \/ r.lost
  \/ ~r.found /\ r.session \notin sessions /\ Database = "postgres"

WriteOverride(p) ==
  LET r == moving[p] IN
  /\ r.pc = "write" /\ ~WriteRefused(p)
  /\ overrides' = [overrides EXCEPT ![r.session][r.job] = r.week]
  /\ moving' = [moving EXCEPT ![p] =
       [r EXCEPT !.pc = "next", !.moved = r.moved \cup {r.job}]]
  /\ UNCHANGED <<sessions, works, imports>>

(* The request answers that it moved the order.                            *)
Moved(p) == /\ moving[p].pc = "next" /\ moving[p].ids = <<>>
            /\ moving' = [moving EXCEPT ![p] = NotMoving]
            /\ UNCHANGED <<sessions, overrides, works, imports>>

\* Mutant: a job that cannot be written is skipped.
MoveSkips(p) ==
  LET r == moving[p] IN
  /\ \/ r.pc = "write" /\ WriteRefused(p)
     \/ r.pc = "next" /\ r.ids # <<>> /\ Gone(p)
  /\ moving' = [moving EXCEPT ![p] =
       [r EXCEPT !.pc = "next", !.ids = IF r.pc = "next" THEN Tail(r.ids) ELSE r.ids]]
  /\ UNCHANGED <<sessions, overrides, works, imports>>

(* The request ends in an error; the jobs written stay written.            *)
MoveFails(p) ==
  /\ \/ moving[p].pc = "write" /\ WriteRefused(p)
     \/ moving[p].pc = "next" /\ moving[p].ids # <<>> /\ Gone(p)
  /\ moving' = [moving EXCEPT ![p] = NotMoving]
  /\ UNCHANGED <<sessions, overrides, works, imports>>

----------------------------------------------------------------------------
(* The requests that are about to write a row that is deleted here.        *)
Losing(s, jobs) ==
  moving' = [p \in Planners |->
    IF moving[p].pc = "write" /\ moving[p].session = s /\ moving[p].job \in jobs
       /\ moving[p].found
    THEN [moving[p] EXCEPT !.lost = TRUE] ELSE moving[p]]

RemoveOverride(s, j) ==
  /\ overrides[s][j] # None
  /\ overrides' = [overrides EXCEPT ![s][j] = None]
  /\ Losing(s, {j}) /\ UNCHANGED <<sessions, works, imports>>

DeleteSession(s) ==
  /\ s \in sessions
  /\ sessions' = sessions \ {s}
  /\ overrides' = [overrides EXCEPT ![s] = NoPlan]
  /\ Losing(s, Jobs) /\ UNCHANGED <<works, imports>>

(* clone_session() under a new name, or a new session.                     *)
AddSession(s, plan) ==
  /\ s \notin sessions
  /\ \A p \in Planners : moving[p] # NotMoving => moving[p].session # s
  /\ sessions' = sessions \cup {s}
  /\ overrides' = [overrides EXCEPT ![s] = plan]
  /\ UNCHANGED <<works, imports, moving>>
CloneSession(s, source) == source \in sessions /\ AddSession(s, overrides[source])

SessionsNext ==
  \/ ImportWorks
  \/ \E p \in Planners :
       \/ \E s \in sessions, v \in PlanWeeks :
            \/ \E j \in Jobs : FindOverride(p, s, j, v)
            \/ \E o \in Orders : SelectJobs(p, s, o, v)
       \/ NextJob(p) \/ WriteOverride(p) \/ Moved(p) \/ MoveFails(p)
  \/ \E s \in Sessions :
       \/ \E j \in Jobs : RemoveOverride(s, j)
       \/ DeleteSession(s) \/ AddSession(s, NoPlan)
       \/ \E source \in Sessions \ {s} : CloneSession(s, source)

----------------------------------------------------------------------------
(* "Apply a planning override to ALL jobs belonging to the same sales      *)
(* order": a request that answers with success has moved exactly the jobs  *)
(* that were open when it began, although it commits job by job while      *)
(* works orders are imported, and no other job's plan is touched.          *)
WholeOrderMoved ==
  [][\A p \in Planners :
       /\ Moved(p) => moving[p].moved = moving[p].jobs
       /\ WriteOverride(p) =>
            \A s \in Sessions, j \in Jobs : overrides'[s][j] # overrides[s][j] =>
               s = moving[p].session /\ j \in moving[p].jobs]_sessionVars
=============================================================================
