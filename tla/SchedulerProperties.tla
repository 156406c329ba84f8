------------------------ MODULE SchedulerProperties ------------------------
(***************************************************************************)
(* What the scheduler must do, and the environments it is checked in.      *)
(***************************************************************************)
EXTENDS SyncScheduler

(***************************************************************************)
(* Types of every variable; a thread or a request in use has a worker and  *)
(* a job.                                                                  *)
(***************************************************************************)
TypeOK ==
  /\ now \in Nat
  /\ row \in [Jobs -> Row]
  /\ items \in [Jobs -> SUBSET Items]
  /\ tick \in [Workers -> Ticker]
  /\ run \in [Runs -> Thread]
  /\ req \in [Requests -> Request]
  /\ faults \in Nat /\ crashes \in Nat
  /\ \A r \in Runs : Busy(r) => run[r].job \in Jobs /\ run[r].worker \in Workers
  /\ \A q \in Requests :
       req[q].pc # "free" => req[q].job \in Jobs /\ req[q].worker \in Workers

(***************************************************************************)
(* No job is executed by two threads at once, nor executed while another   *)
(* worker holds an unspawned claim on it: "the atomic claim UPDATE is what *)
(* prevents double-execution" (scheduler.py, run_due_jobs and _execute_job)*)
(***************************************************************************)
SingleExecution ==
  \A j \in Jobs :
    /\ \A r, s \in Executing(j) : r = s
    /\ \A v, w \in Claimants(j) : v = w
    /\ Executing(j) = {} \/ Claimants(j) = {}

(***************************************************************************)
(* The row a status poll reads tells the truth: while a job has an owner,  *)
(* is_running is set.  A finishing thread, the watchdog and a starting     *)
(* worker all clear the flag, and none of them knows whose it is.          *)
(***************************************************************************)
OwnedMeansRunning ==
  \A j \in Jobs : Present(j) /\ Owned(j) => row[j].running

(***************************************************************************)
(* The inductive invariant: besides the above, an owned job was stamped    *)
(* less than StaleAfter ago and a tick in progress is younger than that,   *)
(* so that no watchdog can take an owned job for a stuck one; claims       *)
(* belong to ticks that are past their SELECT, and to jobs that exist or   *)
(* existed.                                                                *)
(***************************************************************************)
OwnedIsFresh ==
  \A j \in Jobs : Present(j) /\ Owned(j) =>
     /\ row[j].lastRun # Null
     /\ row[j].lastRun + StaleAfter > now

TicksAreFresh ==
  \A w \in Workers :
    /\ Ticking(w) => tick[w].at + StaleAfter > now /\ tick[w].at <= now
    /\ tick[w].claimed # {} => tick[w].phase \in {"claim", "spawn"}

OwnedWasCreated == \A j \in Jobs : Owned(j) => row[j].state # "unborn"

OneOwner == /\ SingleExecution
            /\ OwnedMeansRunning
            /\ OwnedIsFresh
            /\ TicksAreFresh
            /\ OwnedWasCreated

(***************************************************************************)
(* The lease of each job, as the table and the threads show it.  "broken"  *)
(* is no state of a lease: two owners, or an owner of a row marked idle.   *)
(***************************************************************************)
LeaseOf(j) ==
  CASE ~Present(j) -> "gone"
    [] Present(j) /\ ~Owned(j) /\ ~row[j].running -> "free"
    [] Present(j) /\ ~Owned(j) /\ row[j].running -> "orphan"
    [] OTHER -> IF SingleExecution /\ row[j].running THEN "held" ELSE "broken"

Lease == INSTANCE JobLease WITH lease <- [j \in Jobs |-> LeaseOf(j)]

\* The scheduler implements the lease.
LeaseSpec == Lease!Spec

(***************************************************************************)
(* A result that was saved stands: in no step does last_status change on a *)
(* row that is not marked running, except when a thread executing the job  *)
(* ends, or the page that ran the items records its own outcome.  "a job   *)
(* that finishes between the staleness check and the write can never have  *)
(* its fresh result clobbered" (_reset_stuck_jobs).                        *)
(***************************************************************************)
ThreadEnded(j) == \E r \in Executing(j) : run'[r].pc = "free"
LiveRunRecorded(j) == \E s \in Statuses : RecordLiveRun(j, s)

FinishedResultStands ==
  [][\A j \in Jobs :
       Present(j) /\ Present(j)' /\ row'[j].status # row[j].status =>
          row[j].running \/ ThreadEnded(j) \/ LiveRunRecorded(j)]_vars

(***************************************************************************)
(* The periodic watchdog resets a job that has a thread only when that     *)
(* thread began an hour ago: "only resets jobs that have been running for  *)
(* over an hour" (_reset_stuck_jobs), "We must NOT reset jobs that are     *)
(* legitimately running" (run_due_jobs).                                   *)
(***************************************************************************)
WatchdogSparesLiveRuns ==
  [][\A w \in Workers : Watchdog(w) =>
       \A j \in Jobs : row[j].running /\ ~row'[j].running =>
         \A r \in Executing(j) : run[r].began + StaleAfter <= now]_vars

-----------------------------------------------------------------------------
(***************************************************************************)
(* Environments.                                                           *)
(***************************************************************************)

\* Workers of one deployment boot one after the other and nothing fails: no
\* worker dies, no route but job creation and enabling is used.
BootNext == \/ \E w \in Workers : BootReset(w) \/ TickStep(w)
            \/ \E r \in Runs : RunStep(r)
            \/ \E j \in Jobs : \/ \E i \in Intervals : JobCreate(j, i)
                               \/ SetEnabled(j, TRUE)
BootSpec == Init /\ [][BootNext]_vars

\* The promised circumstances, and the "Run now" button.
ManualNext == TickerNext \/ \E q \in Requests : RunNow(q)
ManualSpec == Init /\ [][ManualNext]_vars

-----------------------------------------------------------------------------
(***************************************************************************)
(* Liveness.  Fairness: a worker that is down is started by gunicorn, a    *)
(* ticker keeps going (its loop swallows every exception), a thread ends   *)
(* (every request to Epicor has a timeout) and time passes.  Failures and  *)
(* deaths are bounded, and nobody is obliged to press a button.            *)
(***************************************************************************)
Fairness == /\ WF_vars(Clock)
            /\ \A w \in Workers : WF_vars(BootReset(w)) /\ WF_vars(TickStep(w))
            /\ \A r \in Runs : WF_vars(RunStep(r))

FairSpec == Spec /\ Fairness

\* Recovery is checked without the routes that only move timestamps or take
\* the row away, and without "Run now": creating, enabling and disabling stay.
RecoveryNext == \/ Clock
                \/ \E w \in Workers : \/ BootReset(w) \/ BootResetFails(w) \/ Crash(w)
                                       \/ TickStep(w) \/ TickFault(w)
                \/ \E r \in Runs : RunStep(r) \/ RunResultLost(r)
                \/ \E j \in Jobs : \/ \E i \in Intervals : JobCreate(j, i)
                                   \/ \E b \in BOOLEAN : SetEnabled(j, b)

RecoverySpec == Init /\ [][RecoveryNext]_vars /\ Fairness

Orphaned(j) == Present(j) /\ row[j].running /\ ~Owned(j)

(***************************************************************************)
(* A due job is executed: an enabled idle job whose time has come gets a   *)
(* thread, whatever dies or fails between its claim and its spawn, unless  *)
(* it is disabled.  Only a claim orphaned too late for the model's clock   *)
(* is excused.                                                             *)
(***************************************************************************)
DueJobRuns ==
  \A j \in Jobs :
    Claimable(j, now) ~> \/ Executing(j) # {}
                         \/ ~row[j].enabled
                         \/ Orphaned(j) /\ row[j].lastRun + StaleAfter > MaxTime

(***************************************************************************)
(* Failover: a job whose executor is gone (worker death, lost     *)
(* result, aborted tick) does not stay marked running; it is taken back    *)
(* once an hour has passed since its stamp, within the model's clock.      *)
(***************************************************************************)
OrphanRecovered ==
  \A j \in Jobs :
    Orphaned(j) /\ row[j].lastRun # Null /\ row[j].lastRun + StaleAfter <= MaxTime
      ~> ~Orphaned(j) \/ row[j].lastRun + StaleAfter > MaxTime

(***************************************************************************)
(* The same for every job with enough clock left, whatever its timestamps. *)
(***************************************************************************)
EveryOrphanRecovered ==
  \A j \in Jobs :
    Orphaned(j) /\ now + StaleAfter < MaxTime
      ~> ~Orphaned(j) \/ row[j].lastRun + StaleAfter > MaxTime
                      \/ row[j].nextRun + StaleAfter > MaxTime
=============================================================================
