--------------------------- MODULE SyncScheduler ---------------------------
(***************************************************************************)
(* The background sync scheduler (app/core/scheduler.py) together with the *)
(* admin routes that write the same sync_jobs rows                         *)
(* (app/admin/services/sync.py).  Every gunicorn worker runs a ticker; a   *)
(* tick resets stuck rows, selects the due ones, claims each one with a    *)
(* conditional UPDATE and only then spawns one thread per claimed job.     *)
(* The sync_jobs table is the only thing the workers share.                *)
(*                                                                         *)
(* One SQL statement with its commit is one step.  now is the wall clock   *)
(* every datetime.now() reads; StaleAfter is the watchdog's one hour in    *)
(* the clock's unit.                                                       *)
(***************************************************************************)
EXTENDS Integers, FiniteSets

CONSTANTS
  Workers,      \* gunicorn workers, one ticker each
  Jobs,         \* SyncJob ids
  Items,        \* SyncJobItem ids
  Registered,   \* the items whose importer_key is in REGISTRY
  Runs,         \* threads that may execute a job
  Requests,     \* in-flight "Run now" requests
  NoOne,        \* the worker and the job of a thread or request not in use
  Intervals,    \* values of interval_minutes, in clock units
  StaleAfter,   \* the watchdog's threshold, in clock units
  MaxTime,      \* bound on the clock
  MaxFaults,    \* bound on database and thread-start failures
  MaxCrashes    \* bound on worker deaths

ASSUME SchedulerAssumption ==
  /\ Registered \subseteq Items
  /\ NoOne \notin Workers \cup Jobs
  /\ Intervals \subseteq Nat \ {0} /\ Intervals # {}
  /\ StaleAfter \in Nat \ {0}
  /\ MaxTime \in Nat /\ MaxFaults \in Nat /\ MaxCrashes \in Nat

VARIABLES
  now,      \* the wall clock
  row,      \* the sync_jobs table
  items,    \* the sync_job_items of each job
  tick,     \* each worker's ticker: phase and the locals of run_due_jobs
  run,      \* the threads inside _execute_job
  req,      \* "Run now" requests between their read and their commit
  faults,   \* failures injected so far
  crashes   \* worker deaths so far

vars == <<now, row, items, tick, run, req, faults, crashes>>

-----------------------------------------------------------------------------

\* SQL NULL in a timestamp column; every real timestamp is a natural number.
Null == -1
Timestamp == Nat \cup {Null}

Statuses == {"none", "success", "failed", "partial"}

\* A row of SyncJob.  Ids are never reused, so a deleted row stays deleted.
Row == [state    : {"unborn", "present", "deleted"},
        enabled  : BOOLEAN,
        running  : BOOLEAN,
        lastRun  : Timestamp,
        nextRun  : Timestamp,
        status   : Statuses,
        interval : Intervals]

\* due and claimed are the locals due_jobs and claimed_ids of run_due_jobs,
\* at the now it read when the tick began.
Ticker == [phase   : {"down", "idle", "watchdog", "select", "claim", "spawn"},
           at      : Nat,
           due     : SUBSET Jobs,
           claimed : SUBSET Jobs]

\* began is when the thread was started; todo and outcomes are item_ids and
\* item_statuses of _execute_job.
\* In "first" nothing was committed yet: the session still holds the rows as
\* they were loaded.
Thread == [pc       : {"free", "started", "first", "items"},
           worker   : Workers \cup {NoOne},
           job      : Jobs \cup {NoOne},
           began    : Nat,
           todo     : SUBSET Items,
           outcomes : SUBSET {"success", "failed"}]

\* enabled and interval are the values the request read with the row.
Request == [pc       : {"free", "checked"},
            worker   : Workers \cup {NoOne},
            job      : Jobs \cup {NoOne},
            enabled  : BOOLEAN,
            interval : Intervals]

Present(j) == row[j].state = "present"
Down(w)    == tick[w].phase = "down"
Ticking(w) == tick[w].phase \notin {"down", "idle"}
Busy(r)    == run[r].pc # "free"

\* Threads executing j, and workers that have claimed j but not spawned it.
Executing(j) == {r \in Runs : Busy(r) /\ run[r].job = j}
Claimants(j) == {w \in Workers : j \in tick[w].claimed}
Owned(j)     == Executing(j) # {} \/ Claimants(j) # {}

\* SyncJob.next_run_at == None or SyncJob.next_run_at <= now
DueBy(j, t) == row[j].nextRun = Null \/ row[j].nextRun <= t

\* Mutant: the claim leaves failed jobs alone.
ClaimableUnlessFailed(j, t) == /\ Present(j)
                               /\ row[j].enabled
                               /\ ~row[j].running
                               /\ DueBy(j, t)
                               /\ row[j].status # "failed"

\* The WHERE clause the SELECT and the claiming UPDATE share.
Claimable(j, t) == /\ Present(j)
                   /\ row[j].enabled
                   /\ ~row[j].running
                   /\ DueBy(j, t)

\* Mutant: the threshold off by one.
StaleEarly(j, t) ==
  /\ row[j].lastRun # Null
  /\ row[j].lastRun <= t - (StaleAfter - 1)

\* The watchdog's staleness test: the start time, or without one the time
\* the run was due, is an hour ago.  A comparison with NULL is never true.
Stale(j, t) ==
  \/ /\ row[j].lastRun # Null
     /\ row[j].lastRun <= t - StaleAfter
  \/ /\ row[j].lastRun = Null
     /\ row[j].nextRun # Null
     /\ row[j].nextRun <= t - StaleAfter

\* Mutants: the watchdog takes every running row; the WHERE clause of the
\* UPDATE drops is_running; disabled jobs are not looked at.
ResettableFresh(j, t, force) == Present(j) /\ row[j].running

ResettableIdle(j, t, force) == Present(j) /\ (force \/ Stale(j, t))

ResettableEnabled(j, t, force) == /\ Present(j)
                                  /\ row[j].running
                                  /\ row[j].enabled
                                  /\ ~force /\ Stale(j, t)

\* The rows _reset_stuck_jobs matches, and the table after its UPDATE.
Resettable(j, t, force) == /\ Present(j)
                           /\ row[j].running
                           /\ force \/ Stale(j, t)

ResetRows(t, force) ==
  [j \in Jobs |-> IF Resettable(j, t, force)
                    THEN [row[j] EXCEPT !.running = FALSE,
                                        !.status  = "failed",
                                        !.nextRun = t]
                    ELSE row[j]]

IdleTicker == [phase |-> "idle", at |-> 0, due |-> {}, claimed |-> {}]

FreeThread == [pc |-> "free", worker |-> NoOne, job |-> NoOne, began |-> 0,
               todo |-> {}, outcomes |-> {}]

FreeRequest(i) == [pc |-> "free", worker |-> NoOne, job |-> NoOne,
                   enabled |-> FALSE, interval |-> i]

Fault == /\ faults < MaxFaults
         /\ faults' = faults + 1

-----------------------------------------------------------------------------
(***************************************************************************)
(* Initial state: no job yet, every worker down.  The items of a job are   *)
(* given with it: adding one is part of module SyncJobItems.               *)
(***************************************************************************)
NewRow(i) == [state |-> "present", enabled |-> FALSE, running |-> FALSE,
              lastRun |-> Null, nextRun |-> Null, status |-> "none",
              interval |-> i]

Init ==
  /\ now = 0
  /\ \E i \in Intervals :
       /\ row = [j \in Jobs |-> [NewRow(i) EXCEPT !.state = "unborn"]]
       /\ req = [q \in Requests |-> FreeRequest(i)]
  /\ items \in [Jobs -> SUBSET Items]
  /\ \A j, k \in Jobs : j # k => items[j] \cap items[k] = {}
  /\ tick = [w \in Workers |-> [IdleTicker EXCEPT !.phase = "down"]]
  /\ run = [r \in Runs |-> FreeThread]
  /\ faults = 0
  /\ crashes = 0

-----------------------------------------------------------------------------
(***************************************************************************)
(* Worker start and death.                                                 *)
(***************************************************************************)

\* init_scheduler in a (re)starting worker: the forced reset, which logs and
\* swallows its own failure, then the ticker thread.
BootReset(w) ==
  /\ Down(w)
  /\ row' = ResetRows(now, TRUE)
  /\ tick' = [tick EXCEPT ![w] = IdleTicker]
  /\ UNCHANGED <<now, items, run, req, faults, crashes>>

BootResetFails(w) ==
  /\ Down(w)
  /\ Fault
  /\ tick' = [tick EXCEPT ![w] = IdleTicker]
  /\ UNCHANGED <<now, row, items, run, req, crashes>>

\* The process dies with its ticker, its job threads and its requests.
Crash(w) ==
  /\ ~Down(w)
  /\ crashes < MaxCrashes
  /\ crashes' = crashes + 1
  /\ tick' = [tick EXCEPT ![w] = [IdleTicker EXCEPT !.phase = "down"]]
  /\ run' = [r \in Runs |-> IF run[r].worker = w
                              THEN FreeThread
                              ELSE run[r]]
  /\ req' = [q \in Requests |-> IF req[q].worker = w
                                  THEN FreeRequest(req[q].interval)
                                  ELSE req[q]]
  /\ UNCHANGED <<now, row, items, faults>>

-----------------------------------------------------------------------------
(***************************************************************************)
(* run_due_jobs.                                                           *)
(***************************************************************************)
TickBegin(w) ==
  /\ tick[w].phase = "idle"
  /\ tick' = [tick EXCEPT ![w].phase = "watchdog", ![w].at = now]
  /\ UNCHANGED <<now, row, items, run, req, faults, crashes>>

Watchdog(w) ==
  /\ tick[w].phase = "watchdog"
  /\ row' = ResetRows(tick[w].at, FALSE)
  /\ tick' = [tick EXCEPT ![w].phase = "select"]
  /\ UNCHANGED <<now, items, run, req, faults, crashes>>

\* The watchdog's own try/except: roll back and go on with the tick.
WatchdogFails(w) ==
  /\ tick[w].phase = "watchdog"
  /\ Fault
  /\ tick' = [tick EXCEPT ![w].phase = "select"]
  /\ UNCHANGED <<now, row, items, run, req, crashes>>

SelectDue(w) ==
  /\ tick[w].phase = "select"
  /\ tick' = [tick EXCEPT ![w].phase = "claim",
                          ![w].due = {j \in Jobs : Claimable(j, tick[w].at)}]
  /\ UNCHANGED <<now, row, items, run, req, faults, crashes>>

\* Mutant: the start is not stamped.
ClaimedRowUnstamped(j, t) == [row[j] EXCEPT !.running = TRUE,
                                            !.nextRun = t + row[j].interval]

\* The row the claiming UPDATE leaves: the tick's own now is the start time.
ClaimedRow(j, t) == [row[j] EXCEPT !.running = TRUE,
                                   !.lastRun = t,
                                   !.nextRun = t + row[j].interval]

\* Mutant: the UPDATE names the row by id only.
ClaimUnconditional(w, j) ==
  /\ tick[w].phase = "claim"
  /\ j \in tick[w].due
  /\ Present(j)
  /\ row' = [row EXCEPT ![j] = ClaimedRow(j, tick[w].at)]
  /\ tick' = [tick EXCEPT ![w].due = @ \ {j}, ![w].claimed = @ \cup {j}]
  /\ UNCHANGED <<now, items, run, req, faults, crashes>>

\* The conditional UPDATE affected one row.
ClaimWon(w, j) ==
  /\ tick[w].phase = "claim"
  /\ j \in tick[w].due
  /\ Claimable(j, tick[w].at)
  /\ row' = [row EXCEPT ![j] = ClaimedRow(j, tick[w].at)]
  /\ tick' = [tick EXCEPT ![w].due = @ \ {j}, ![w].claimed = @ \cup {j}]
  /\ UNCHANGED <<now, items, run, req, faults, crashes>>

\* It affected none: another worker, or the admin, changed the row since the
\* SELECT.
ClaimLost(w, j) ==
  /\ tick[w].phase = "claim"
  /\ j \in tick[w].due
  /\ Present(j)
  /\ ~Claimable(j, tick[w].at)
  /\ tick' = [tick EXCEPT ![w].due = @ \ {j}]
  /\ UNCHANGED <<now, row, items, run, req, faults, crashes>>

\* The UPDATE or its commit failed and was rolled back.
ClaimFails(w, j) ==
  /\ tick[w].phase = "claim"
  /\ j \in tick[w].due
  /\ Present(j)
  /\ Fault
  /\ tick' = [tick EXCEPT ![w].due = @ \ {j}]
  /\ UNCHANGED <<now, row, items, run, req, crashes>>

\* Naming a job whose row has gone raises, in the except handler again, and
\* run_due_jobs returns without spawning what it already claimed.
ClaimRowGone(w) ==
  /\ tick[w].phase = "claim"
  /\ \E j \in tick[w].due : ~Present(j)
  /\ tick' = [tick EXCEPT ![w] = IdleTicker]
  /\ UNCHANGED <<now, row, items, run, req, faults, crashes>>

\* Any other exception that leaves run_due_jobs: the SELECT fails, the
\* database is still gone in the except handler, a thread cannot be started.
TickAborts(w) ==
  /\ tick[w].phase \in {"select", "claim", "spawn"}
  /\ Fault
  /\ tick' = [tick EXCEPT ![w] = IdleTicker]
  /\ UNCHANGED <<now, row, items, run, req, crashes>>

ClaimsDone(w) ==
  /\ tick[w].phase = "claim"
  /\ tick[w].due = {}
  /\ tick' = [tick EXCEPT ![w].phase = "spawn"]
  /\ UNCHANGED <<now, row, items, run, req, faults, crashes>>

NewThread(w, j) == [pc |-> "started", worker |-> w, job |-> j, began |-> now,
                    todo |-> {}, outcomes |-> {}]

Spawn(w, j, r) ==
  /\ tick[w].phase = "spawn"
  /\ j \in tick[w].claimed
  /\ ~Busy(r)
  /\ run' = [run EXCEPT ![r] = NewThread(w, j)]
  /\ tick' = [tick EXCEPT ![w].claimed = @ \ {j}]
  /\ UNCHANGED <<now, row, items, req, faults, crashes>>

TickEnd(w) ==
  /\ tick[w].phase = "spawn"
  /\ tick[w].claimed = {}
  /\ tick' = [tick EXCEPT ![w] = IdleTicker]
  /\ UNCHANGED <<now, row, items, run, req, faults, crashes>>

TickStep(w) ==
  \/ TickBegin(w) \/ Watchdog(w) \/ SelectDue(w) \/ ClaimRowGone(w)
  \/ \E j \in Jobs : ClaimWon(w, j) \/ ClaimLost(w, j)
  \/ ClaimsDone(w)
  \/ \E j \in Jobs, r \in Runs : Spawn(w, j, r)
  \/ TickEnd(w)

TickFault(w) == \/ WatchdogFails(w) \/ TickAborts(w)
                \/ \E j \in Jobs : ClaimFails(w, j)

-----------------------------------------------------------------------------
(***************************************************************************)
(* _execute_job.                                                           *)
(***************************************************************************)
\* The row is loaded and the item ids are copied; a missing row ends it.
RunStart(r) ==
  /\ run[r].pc = "started"
  /\ run' = [run EXCEPT ![r] =
               IF Present(run[r].job)
                 THEN [run[r] EXCEPT !.pc = "first",
                                     !.todo = items[run[r].job]]
                 ELSE FreeThread]
  /\ UNCHANGED <<now, row, items, tick, req, faults, crashes>>

\* One item: an unknown key is skipped, an import succeeds or fails.  From
\* the second import on an item is read again, and must still be there.  The
\* failure to save the item's own result is swallowed and changes nothing
\* here.
RunItem(r, i) ==
  /\ i \in run[r].todo
  /\ \/ run[r].pc = "first"
     \/ run[r].pc = "items" /\ i \in items[run[r].job]
  /\ \/ /\ i \notin Registered
        /\ run' = [run EXCEPT ![r].todo = @ \ {i}]
     \/ /\ i \in Registered
        /\ \E o \in {"success", "failed"} :
             run' = [run EXCEPT ![r].pc = "items",
                                ![r].todo = @ \ {i},
                                ![r].outcomes = @ \cup {o}]
  /\ UNCHANGED <<now, row, items, tick, req, faults, crashes>>

\* Mutant: a job all of whose items were skipped says so.
FinalStatusSkipped(outcomes) ==
  IF outcomes = {} THEN "skipped"
  ELSE IF outcomes = {"success"} THEN "success"
  ELSE IF outcomes = {"failed"} THEN "failed"
  ELSE "partial"

\* The job's last_status, from item_statuses.
FinalStatus(outcomes) ==
  IF outcomes \subseteq {"success"} THEN "success"
  ELSE IF outcomes = {"failed"} THEN "failed"
  ELSE "partial"

FinishedRow(j, s) == [row[j] EXCEPT !.running = FALSE,
                                    !.lastRun = now,
                                    !.status  = s]

RunFinish(r) ==
  /\ run[r].pc \in {"first", "items"}
  /\ run[r].todo = {}
  /\ Present(run[r].job)
  /\ row' = [row EXCEPT ![run[r].job] =
                          FinishedRow(run[r].job, FinalStatus(run[r].outcomes))]
  /\ run' = [run EXCEPT ![r] = FreeThread]
  /\ UNCHANGED <<now, items, tick, req, faults, crashes>>

\* The outer except: the client cannot be built, or an item or the job has
\* disappeared.  The row, if it is still there, is saved as failed.
RunRaises(r) ==
  /\ \/ run[r].pc = "first"
     \/ /\ run[r].pc = "items"
        /\ \/ ~Present(run[r].job)
           \/ \E i \in run[r].todo : i \notin items[run[r].job]
  /\ row' = IF Present(run[r].job)
              THEN [row EXCEPT ![run[r].job] = FinishedRow(run[r].job, "failed")]
              ELSE row
  /\ run' = [run EXCEPT ![r] = FreeThread]
  /\ UNCHANGED <<now, items, tick, req, faults, crashes>>

\* The last commit fails and is swallowed: the thread ends, the row keeps
\* is_running = True.
RunResultLost(r) ==
  /\ run[r].pc \in {"first", "items"}
  /\ Fault
  /\ run' = [run EXCEPT ![r] = FreeThread]
  /\ UNCHANGED <<now, row, items, tick, req, crashes>>

RunStep(r) == \/ RunStart(r) \/ RunFinish(r) \/ RunRaises(r)
              \/ \E i \in Items : RunItem(r, i)

-----------------------------------------------------------------------------
(***************************************************************************)
(* The admin routes.                                                       *)
(***************************************************************************)
JobCreate(j, i) ==
  /\ row[j].state = "unborn"
  /\ row' = [row EXCEPT ![j] = NewRow(i)]
  /\ UNCHANGED <<now, items, tick, run, req, faults, crashes>>

\* handle_sync_job_update with "enabled".
SetEnabled(j, b) ==
  /\ Present(j)
  /\ row' = [row EXCEPT ![j].enabled = b,
                        ![j].nextRun = IF b THEN now ELSE Null]
  /\ UNCHANGED <<now, items, tick, run, req, faults, crashes>>

\* ... with "interval_minutes": an enabled job is rescheduled from now.
SetInterval(j, i) ==
  /\ Present(j)
  /\ row' = [row EXCEPT ![j].interval = i,
                        ![j].nextRun = IF row[j].enabled THEN now + i ELSE @]
  /\ UNCHANGED <<now, items, tick, run, req, faults, crashes>>

\* ... with "last_status", sent by the page that ran the items one by one.
\* The row of a job a thread is executing is stamped like any other.
RecordLiveRun(j, s) ==
  /\ Present(j)
  /\ row' = [row EXCEPT ![j].status  = s,
                        ![j].lastRun = now,
                        ![j].nextRun = IF row[j].enabled
                                         THEN now + row[j].interval ELSE @]
  /\ UNCHANGED <<now, items, tick, run, req, faults, crashes>>

\* Deleting a job cascades to its items, whether or not it is running.
JobDelete(j) ==
  /\ Present(j)
  /\ row' = [row EXCEPT ![j] = [NewRow(row[j].interval) EXCEPT !.state = "deleted"]]
  /\ items' = [items EXCEPT ![j] = {}]
  /\ UNCHANGED <<now, tick, run, req, faults, crashes>>

ItemDelete(j, i) ==
  /\ i \in items[j]
  /\ Present(j)
  /\ items' = [items EXCEPT ![j] = @ \ {i}]
  /\ UNCHANGED <<now, row, tick, run, req, faults, crashes>>

Admin == \E j \in Jobs :
           \/ \E i \in Intervals : JobCreate(j, i) \/ SetInterval(j, i)
           \/ \E b \in BOOLEAN : SetEnabled(j, b)
           \/ \E s \in {"success", "failed", "partial"} : RecordLiveRun(j, s)
           \/ JobDelete(j)
           \/ \E i \in Items : ItemDelete(j, i)

\* handle_sync_job_run_now, up to the test of job.is_running.
RunNowCheck(q, w, j) ==
  /\ req[q].pc = "free"
  /\ ~Down(w)
  /\ Present(j)
  /\ ~row[j].running
  /\ req' = [req EXCEPT ![q] = [pc |-> "checked", worker |-> w, job |-> j,
                                enabled  |-> row[j].enabled,
                                interval |-> row[j].interval]]
  /\ UNCHANGED <<now, row, items, tick, run, faults, crashes>>

\* Its commit and run_job_in_thread.  The UPDATE names the row by id only;
\* last_run_at is not written.
RunNowCommit(q, r) ==
  /\ req[q].pc = "checked"
  /\ Present(req[q].job)
  /\ ~Busy(r)
  /\ row' = [row EXCEPT ![req[q].job].running = TRUE,
                        ![req[q].job].nextRun =
                            IF req[q].enabled THEN now + req[q].interval ELSE @]
  /\ run' = [run EXCEPT ![r] = NewThread(req[q].worker, req[q].job)]
  /\ req' = [req EXCEPT ![q] = FreeRequest(req[q].interval)]
  /\ UNCHANGED <<now, items, tick, faults, crashes>>

\* The commit fails (the row has gone, or the database has): a 500 answer.
RunNowFails(q) ==
  /\ req[q].pc = "checked"
  /\ \/ ~Present(req[q].job) /\ UNCHANGED faults
     \/ Present(req[q].job) /\ Fault
  /\ req' = [req EXCEPT ![q] = FreeRequest(req[q].interval)]
  /\ UNCHANGED <<now, row, items, tick, run, crashes>>

RunNow(q) == \/ \E w \in Workers, j \in Jobs : RunNowCheck(q, w, j)
             \/ \E r \in Runs : RunNowCommit(q, r)
             \/ RunNowFails(q)

-----------------------------------------------------------------------------
Clock ==
  /\ now < MaxTime
  /\ now' = now + 1
  /\ UNCHANGED <<row, items, tick, run, req, faults, crashes>>

\* What every environment below contains: tickers, threads, administrators,
\* failures and deaths.
Core == \/ \E w \in Workers : TickStep(w) \/ TickFault(w) \/ Crash(w)
                              \/ BootResetFails(w)
        \/ \E r \in Runs : RunStep(r) \/ RunResultLost(r)
        \/ Admin

\* The whole system.
Next == \/ Core
        \/ Clock
        \/ \E w \in Workers : BootReset(w)
        \/ \E q \in Requests : RunNow(q)

Spec == Init /\ [][Next]_vars

(***************************************************************************)
(* The circumstances under which the code's comments promise that no job   *)
(* is executed twice: only tickers start jobs, nothing takes an hour, and  *)
(* the forced reset of a starting worker finds nobody at work ("a full     *)
(* process restart kills every thread").                                   *)
(***************************************************************************)
Quiescent == \A j \in Jobs : ~Owned(j)

RunsKeepTime ==
  /\ \A j \in Jobs : Present(j) /\ Owned(j) => row[j].lastRun + StaleAfter > now + 1
  /\ \A w \in Workers : Ticking(w) => tick[w].at + StaleAfter > now + 1

TickerNext == \/ Core
              \/ RunsKeepTime /\ Clock
              \/ \E w \in Workers : Quiescent /\ BootReset(w)

TickerSpec == Init /\ [][TickerNext]_vars
=============================================================================
