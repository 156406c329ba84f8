# TLA+ models of Planning-Web-Project

The program is a Flask application for planning a factory: it copies data out of
Epicor (an ERP system) on a schedule, and lets several users plan on top of the
copy. This directory models the parts of it where order, concurrency and failure
matter, checks them with TLC on small instances, and proves the central
invariants with TLAPS for every value of the constants.

Paths below are relative to `planning_app/app/`.

## 1. Inventory

| Component | State | Operations | Interacts with | What is hard |
|---|---|---|---|---|
| Sync scheduler, `core/scheduler.py` | `sync_jobs` rows (`enabled`, `is_running`, `last_run_at`, `next_run_at`, `last_status`); per worker: a ticker thread with `due_jobs`, `claimed_ids`; one thread per claimed job | boot reset, tick (watchdog, select, claim, spawn), execute, save result | importers, admin routes, gunicorn (4 workers, one ticker each) | the table is the only thing workers share; a worker may die at any line; the watchdog guesses from timestamps |
| Sync admin, `admin/services/sync.py` | the same rows, `sync_job_items` with `sort_order` | create, delete, enable, change interval, Run now, record a live run; add, move, reorder, delete items | scheduler | read in one statement, written in another |
| Importer base, `core/epicor_sync.py` | target table, `import_batches` | run: pending batch, fetch, guard, replace, success, prune | database isolation, Epicor | overlapping runs, guard before the transaction, failures in between |
| Importers, `core/epicor_importers.py` | windows computed from the table and the last batch | sales (two importers, one table), production output (chunks), `run_batch` | release decisions, calculation cache | what a window leaves out is never fetched |
| Epicor client, `core/epicor_client.py` | none | paging | Epicor | page boundaries |
| Release decisions, `purchasing/materials/services/release_decisions.py`, `routes.py` | `release_decisions` rows, the page a user looks at | stage, clear, commit, update committed, reconcile | purchase orders, run_batch, the memo of `release_impact.py` | load and save far apart, several users, imports meanwhile |
| Material calculations, `purchasing/materials/services/` | none; a memo in front of the release impact | netting, projected balance, statuses, release impact, purchasing pages, shortage insights | stock, requirements, purchase orders | two versions of one algorithm that must agree; one supply counted for two demands |
| Projects, `projects/` | projects, activities, tasks with version columns, shares, log entries | save, delete, move, reorder, share, revoke, comment | users | rules over a whole subtree, guarded by the version of one row |
| Transport, `transport/` | saved manifests with their releases; loads and order releases | two importers, load board with readiness, loading-bay report | importers, works orders | a window fetched slice by slice while Epicor changes; overlapping runs; what counts as ready |
| Works-order planning, `planning/workorder_plan/` | sessions, overrides, default and weekly targets, customer groups and their members | save, clone, delete, bulk save, move a job or an order; the board | works orders, labour plan | check-then-insert, one commit per row, ids of rows that an import has replaced |
| Capacity planning, `planning/capacity/` | labour buckets | import, save, override, generate, delete | planning board | an import replaces the rows under an open page |
| Sales reports, operations reports, `sales/orders/`, `operations/` | none | read imported tables | sales and output importers | several rows per release; the same jobs counted in several queries |
| Login lockout, `core/security.py` | failures and lockouts, in the memory of each worker | check, record a failure, clear | auth routes | expiry and eviction at the table's limit |
| Forecasting, admin pages, API, templates | rows edited by one request each | forms | | |

What makes each correct: a job is executed by one thread at a time, is executed
when due, and is not lost with its worker; an importer's table is one import's
answer, and a failed import changes nothing; no order, no day of output is left
out for ever; a decision moves along its life cycle, is closed when its release
is received, and is not changed behind a user's back; a closed project has no
open work; a saved grid shows what was typed, a customer is in one group, a moved
order is moved whole, hours entered by hand stand; history keeps what was seen;
supply is promised once, and the pages that count the same rows agree.

## 2. Modules

| Module | Stands for |
|---|---|
| `SyncScheduler` | the scheduler and the admin routes on `sync_jobs`. One SQL statement with its commit is one step. `row` is the table, `tick[w]` the locals of `run_due_jobs` in worker `w`, `run[r]` a thread in `_execute_job`, `req[q]` a Run-now request between its read and its UPDATE. `Crash` kills a worker with its ticker and threads, `TickFault`, `RunResultLost` and `BootResetFails` are the swallowed exceptions |
| `JobLease` | abstract: what the scheduler promises of one job: a lease that is granted only when free, and taken back only from a holder that is gone |
| `SchedulerProperties` | properties, environments (`TickerSpec`, `RecoverySpec`, `BootSpec`, `ManualSpec`) and the refinement mapping onto `JobLease` |
| `MCSyncScheduler` | symmetry for TLC |
| `SchedulerProofs` | TLAPS |
| `SyncJobItems` | the items of a job and their order; a route's read and its commit are two steps |
| `BaqImport` | `EpicorBaqImporter.run`; `DeleteBegin`/`DeleteEnd`/`Insert`/`Commit` are the transaction, as SQLite (one writer) or PostgreSQL at READ COMMITTED performs it |
| `TableSnapshot` | abstract: the table always shows one import, later ones replace earlier ones in one step, and never by nothing |
| `ImportProperties`, `ImportProofs` | properties with the mapping onto `TableSnapshot`; TLAPS |
| `SalesSync` | `sales_open` and `sales_closed`: their windows and the table they share; any number of runs of either may be in progress |
| `MCSalesSync` | symmetry for TLC |
| `SalesProofs` | TLAPS |
| `OutputSync` | the production output importer: window, chunks, replacement of the days asked for |
| `ReleaseDecisions` | the decisions, the POST routes, the memo and `run_batch`'s reconcile step |
| `DecisionProofs` | TLAPS |
| `WorkItems` | `save_item` and `delete_item` on projects, activities and tasks. `row` is the committed table, `req[q]` a request from its load to its commit: `Create`, `Update` and `Delete` are the load with its checks, `Flush` is the UPDATE with the version (and the row's lock), `Commit` makes it visible. `root()`, `ancestors()` and `can_access` are `WayUp`, `descendants()` is `Descendants` |
| `MCWorkItems` | symmetry for TLC |
| `WorkProofs` | TLAPS |
| `PlanningRequests` | constants of the four planning modules: who may have a request in progress, which database |
| `WeekTargets` | default and weekly targets, group capacities, and the year grid that shows them all and posts them back in two transactions |
| `CustomerGroups` | the members of customer groups: a row is found, then deleted by id and replaced; groups deleted meanwhile |
| `PlanSessions` | sessions and overrides; a sales order is moved job by job, in whatever order the query gave its rows, with a commit after each, while works orders are re-imported |
| `LabourPlan` | labour buckets: import, override, save, generate |
| `PlanningDesk` | the four together: they share no row, so each behaviour picks one (`area`) |
| `TransportHistory` | `TransportManifestImporter`: slices of the window, compared with the saved manifests in one transaction |
| `LoginLockout` | the lockout of a worker, with an attempt split where the password is looked at; the dictionary is the remembered failures of each identifier and, for eviction, who was inserted after whom |
| `OfficeDesks` | `TransportHistory`, `SyncJobItems` and `LoginLockout` side by side |
| `DeskProofs` | TLAPS, of `PlanningDesk` and `OfficeDesks` |
| `Calendar` | days counted from today, weeks, sums over sets |
| `MaterialNetting` | `netting.py`, `pegging.py`, `status.py`, with the loaders they use |
| `ReleaseImpact` | `release_impact.py`: `_simulate`, `_simulate_incremental`, single releases, suppliers, bundles, the page |
| `PurchasingReports` | `dashboard.py`, `insights.py` |
| `PlanningWorkspace` | `get_planning_workspace` and the order groups and export beside it |
| `TransportReadiness`, `LoadingBay` | the order importer's collapse of rows, `readiness.py`; the loading-bay report |
| `SalesReports`, `OperationsReports` | `sales/orders/services.py`; `operations/services.py` |
| `Calculations` | the pure modules on bounded inputs: an action per kind of page opens it over one state of the tables, and the properties compare its figures with a definition of what they mean or with another page |
| `ReportProofs` | TLAPS, of `OutputSync` and `Calculations` |
| `AgreementProofs` | TLAPS, of the pages of `Calculations` that must agree with each other |

`SyncScheduler` leaves out the order of a job's items (that is `SyncJobItems`),
and the inside of an importer (that is `BaqImport`); `SalesSync` and `OutputSync`
take from `BaqImport` that a run either commits whole or changes nothing.

The pure modules hold operators only, one per query or function, named after it
where the source has a name. Rows are records of the columns that the figures
tell apart; a date is a number of days from today; a price is a small number.
Where a query and a Python loop compute the same thing, both are there.

## 3. Runs

| Run | Asks | Bounds |
|---|---|---|
| `ticker` | with tickers, threads, failures, deaths and administrators who create, enable, disable and delete: is a job ever executed twice (`SingleExecution`), is an owned job always fresh in the table (`OneOwner`), does the scheduler implement `JobLease`, does the watchdog leave live runs alone | 2 workers, 1 job, 2 threads, clock 0..2 with a one-"hour" of 2, 1 failure, 1 death |
| `system` | the same with Run now and boots at any time: types, and that a saved result stands (`FinishedResultStands`) | 1 worker, 1 job, 2 threads, 1 request |
| `recovery` | is a due job executed, is an orphaned one taken back | 2 workers, 1 failure, 1 death, clock 0..2 |
| `boot` | violated: `SingleExecution` when workers boot one after the other | no failures |
| `import` | overlapping runs: are the rows one import's (`OneSnapshot`), does every run end; while runs come one at a time: is the table the newest success, is it never wiped by an empty answer, does the importer implement `TableSnapshot` | 2 at once, 4 runs, the newest 2 batches kept, 1 failure, SQLite |
| `sales` | runs that overlap: is an order in the table as open and as closed only after a run of `sales_closed` has overtaken one of `sales_open` (`NotTwice`); is a prompt closing recorded | 2 orders, 2 runs at once, days -1..3, overlap 1, cap 3, windows by hand that begin and end at day 0 |
| `output_steady` | no day skipped, every run advances, the backlog is worked off | 7 days, 3 a run, chunks of 2, 1 failure |
| `decisions_calm` | one staged group, life cycle, closed when received, nothing listed removed unseen, memo fresh | 2 releases that come, go, and lose their date or quantity; 1 user, 1 memoized result |
| `work_items` | one request at a time: is work under closed work closed (`ClosingKept`), is the tree sound (`TreeKept`); requests that overlap: does an item's status follow its transitions and a deleted item stay deleted (`HistoryRespected`) | 1 project, 2 tasks, 2 requests |
| `planning` | does a saved grid show what was typed (`GridAsSaved`), is a customer never in two groups nor lost on the way (`MovedNotLost`), is an order moved whole (`WholeOrderMoved`), do hours entered by hand stand (`ManualHoursStand`) | 2 planners, 2 weeks, targets of 0 or 2 units on 0, 2 or 4 days, capacities 0 and 1, 2 groups, 2 customers, 2 sessions, an order of 2 jobs, 1 import of works orders, 4 row ids, PostgreSQL |
| `offices` | is every saved manifest one that Epicor showed (`ContentsObserved`), does history catch up (`HistoryCatchesUp`); are items in the order asked for (`OrderAsAsked`); is an account locked exactly while its failures justify it (`LockoutIsExact`) | 1 load, 2 releases, 2 importers, 2 slices, 3 changes in Epicor; 4 items, 1 request; 1 worker, 3 identifiers in a table of 2; SQLite |
| `calculations` | netting and balance (`NettingSound`), what-if against netting everything again (`WhatIfIsExact`), purchasing, sales, bay and output pages (`ReportsAgree`), the planning board (`BoardAddsUp`), work lists (`WorkListsAgree`), readiness (`ClearIsEarned`) | 105,275 inputs, one step each |

Why the bounds are enough. A double execution needs two executors of one job, so
two workers, two threads and one job show it; further jobs only add claims that
do not touch each other's rows (the proofs need no such argument). The clock
has to pass the watchdog's threshold once after a stamp. Two overlapping runs are
what isolation anomalies need; four batches with `KeepNewest = 2` make pruning
hit the batch of a run in progress. Two orders are needed for one to hold the
floor while the other closes, and two runs for one to overtake the other. Seven days are two full windows and a part of a
third, with a chunk boundary inside each. A project, a task and a subtask
are as deep as the closing rule has to reach, and two tasks can be moved under
each other; activities behave as projects do for the rules (they are in the
proofs, which need no bound). Two requests that find a row before either writes it,
with a third party's import or deletion in between, are what the planning
modules are about; an order of two jobs has one commit behind and one ahead. Three
identifiers overflow a lockout table of two. The inputs of `calculations` hold,
for each calculation, two demands and three supplies around every date and
quantity at which a branch turns: early, late and undated, today, the edge of a
week, zero and negative stock, a requirement that is fully issued, a release in two rows, a job without an order, groups
that are promised less and more than the week's target, purchase orders with a
supplier's name, an id, both or neither, void lines in the bay, a plan week, a
category or a search that hides a job of an order, a load with two headers.

Environments. The comments in `scheduler.py` claim that a job is never executed
twice; that needs circumstances, and `TickerSpec` names them: a worker boots only
while no job is owned by a ticker or a thread (`Quiescent`), there is no Run now,
and no run or tick lasts longer than the watchdog's hour (`RunsKeepTime`).
`overlapped` (`WorkItems`) tells whether two requests were ever in flight at once.
`InTime`, `steady` and `crossed` (`SalesSync`; `crossed` says that a run of `sales_closed`
committed while the last run of `sales_open` had its answer in hand), `NoGap`
and `DayDone` (`OutputSync`) and `CalmNext` (`ReleaseDecisions`) do the same for
the other modules. `alone` (`BaqImport`) picks the behaviours in which importer runs come one at a time,
and `Overlap` (`WeekTargets`, `LabourPlan`) whether planners' requests may; customer
groups and sessions always overlap. Outside of these circumstances the properties
fail, see section 6.

Fairness. `RecoverySpec`: gunicorn restarts a dead worker, a ticker's loop
swallows every exception and goes on, a thread ends because every request to
Epicor has a timeout, and time passes. Failures and deaths are bounded; no user is
obliged to do anything. `BaqImport!FairSpec`: a run's own next step is taken (a
lock wait ends since its holder's run ends; that is part of what `EveryRunEnds`
checks). `SteadySpec`: the scheduler keeps starting the importer. `DeskSpec`: the
sync job keeps starting the manifest importer, and every call of it ends; nobody is
obliged to log in or to edit.

Deadlock is checked for the scheduler, where time or a user can always move until
the clock's bound (`Next` then still offers the routes). The other modules stop
when their ids or their days are used up, and a page of `Calculations` is opened once,
so their configurations say `CHECK_DEADLOCK FALSE`.

## 4. Proofs

`SchedulerProofs` proves for any workers, jobs, threads and clock bounds:

* `TypeCorrect`: `Spec => []TypeOK`.
* `OneOwnerAlways`: `TickerSpec => [](TypeOK /\ OneOwner)`, and from it
  `NoDoubleExecution`: `TickerSpec => []SingleExecution`. `SingleExecution` is not
  inductive: a watchdog that took an owned row for a stuck one would free it and the
  next tick would claim it. `OneOwner` adds that the row of an owned job is marked
  running (`OwnedMeansRunning`) and was stamped less than `StaleAfter` ago
  (`OwnedIsFresh`), that a tick's own idea of the time is less than `StaleAfter` old
  and not in the future (`TicksAreFresh`), so its watchdog matches no owned row,
  and that claims belong to ticks past their SELECT. The step proof goes action by
  action over `TickerNext`.
* `LiveRunsSpared`: `TickerSpec => WatchdogSparesLiveRuns`, from `OwnedIsFresh` and
  `TicksAreFresh`: a row that a live thread executes is younger than `StaleAfter` to
  every tick that may reset it.
* `ResultStands`: `Spec => FinishedResultStands`, with Run now, boots and deaths at any
  time: a row's status changes only while its job is marked running, when a thread that
  executes it ends or the outcome of a live run is recorded.
* `ImplementsLease`: `TickerSpec => LeaseSpec`, for every job. Initial states map to
  initial states; a step that moves a job's owners or its row grants or releases its
  lease, creates or deletes the job, abandons the leases of a holder that disappears
  or reclaims orphaned ones, and every other step leaves the lease alone. A grant is
  legal because the row of an owned job is marked running, a reclaim because an owned
  row is fresh: both come from `OneOwner`.

`ImportProofs` proves:

* `TypeCorrect`: `Spec => []TypeOK` on either database.
* `SerializedSnapshot`: on SQLite, any number of overlapping runs, `[]OneSnapshot`.
  The strengthening (`Serialized`) says that only one run has an open transaction,
  that its snapshot is the table, and that what it deletes is all it saw.
* `GuardHolds`: `NotWiped`, for any number of importers: as long as their runs came
  one at a time, a run that fetched nothing and is past the guard still faces an
  empty table.
* `NewestSuccessShown`: `Spec => []TableIsLastSuccess`, on either database, as long as
  runs come one at a time. Two invariants carry it: `Trail` ties rows and runs to the
  audit trail (the batch of every row was issued and has neither failed nor is it
  pending; the rows of a run in progress are not in the table before its commit),
  `Current` says which batch the table shows and that no later one has succeeded.
* `ShowsOneImport`: `Spec => ShownSpec`, the refinement of `TableSnapshot`: of all the
  steps of a run only its commit changes the table, and from one whole import to
  another.

`WorkProofs` proves, for any projects, activities, tasks and number of requests:

* `TypeCorrect`, and `HistoryKept`: `Spec => HistoryRespected`. The invariant
  (`Versioned`) says that a request whose row has not changed since its load still
  fits that row, that a flushed request is such a request, and that no two flushed
  requests hold one row. So the version in the WHERE clause is enough for one row.
* `ClosedStaysClosed` and `TreeStaysSound`: `Spec => []ClosingKept` and
  `Spec => []TreeKept`. As long as no two requests overlapped, the invariant
  (`Calm`) relates each live item to its parent only (`LocalTree`: the parent is
  live, a closed parent has closed children, a subtask's parent is no subtask) and
  says that what the one request in flight was checked against still holds
  (`Pending`). The statements about whole branches follow by choosing the set that
  `WayUp` quantifies over: the live open items for the closing rule, the items of
  higher kinds for the absence of cycles.

`DeskProofs` proves of the four planning modules, each under `PlanningSpec`, for any
planners, weeks, groups, customers, sessions, jobs, departments and hours:

* `NobodyLost`: `MovedNotLost`, on PostgreSQL, all requests overlapping. The invariant
  (`GroupsInv`): ids are unique and none is above the last one given (`IdsUnique`,
  `IdsUsed`), a customer has one row (`OneRow`), and a row that a request has seen is
  still of the customer, or of the group, that the request is about, or it is gone
  (`SeenTheirs`). The delete by id then removes nobody else's row; it rests on ids that
  are never given again, which SQLite does not promise.
* `OrderMovesWhole`: `WholeOrderMoved`, on PostgreSQL, planners and imports in each
  other's way. The invariant (`SessionsInv`) gives every move the table it was selected
  from (`Accounts`): the order's jobs are those moved, the one in hand and those whose
  ids are left, as long as that table has not been replaced.
* `GridStands`: `GridAsSaved`, one request at a time, for any targets, zero included. The
  invariant (`TargetsInv`): there is one default (`DefaultIs`); of the edited week
  and of every other of some units and days (`Judged`), what a save still has to
  write is what its planner saw or entered (`WeeksDue`), and what it has written reads as
  that (`WeeksDone`). The edited week keeps what was entered, zero units too. Of other
  weeks of zero units nothing is said: a zero is shown as the default and posted back as
  that (section 6).
* `ByHandStands`: `ManualHoursStand`, on PostgreSQL, one request at a time. The
  invariant (`LabourInv`): ids and slots are unique (`TableOk`), the id a page was drawn
  with belongs to a row of its slot or to none (`PageOk`), and so do the rows a save has
  loaded (`WriteOk`). Imports come in between as they please.

and of the other desks, under `DeskSpec`:

* `ShippedContents`: `ContentsObserved`, on SQLite, for any loads, releases and
  overlapping importers. The invariant (`HistoryInv`): what an importer compares with is
  the table itself while it holds the database's one write lock (`LockedRead`), and it
  has one record for a load and a slice (`OneRecordPerSlice`).
* `OrderFollowsRequests`: `OrderAsAsked`, one request at a time. The invariant
  (`OrderInv`) says of an add, a move and a reordering between their read and their
  commit how the numbers still to be written fit those in the table (`Pending`).
* `LockoutStands`: `LockoutIsExact`, for any identifiers, limits and durations, attempts
  overlapping. The invariant (`LockoutInv`): what is remembered of an identifier are its
  newest failures (`Remembered`), none is missing that is recent and after which too few
  others failed to put it out (`NoneMissing`), and the dictionary is in the order of the last
  failures (`InLine`), so whoever is put out of a full table has seen all the others
  fail after it.

`DecisionProofs` proves of `CalmSpec`, for any releases, users and size of the memo:

* `StagedIsOneScenario`, `ReceivedAreClosed`, `NoStaleResult`, `LifecycleKept`:
  `OneStagedGroup`, `ReceivedDropsOff`, `MemoFresh`, `Lifecycle`. The invariant
  (`DecisionInv`) says what a request in flight may rely on: the result it has is for
  the decisions as they are, and for the orders as they are unless a batch has
  replaced them (`ResultFits`); what it is about to write leads on from the statuses
  there are and leaves one staged group of outstanding releases (`WritesFit`); a
  reconciliation meets no request (`Undisturbed`). A memoized result may be older than
  the orders only while a batch is running (`MemoGood`).
* `PanelIsSafe`: `NothingRemovedUnseen`, for one user: the committed panel on the page
  shows every committed release that the table listed when the page was calculated
  (`PagesGood`). A release without a date or quantity is not listed, though it is open
  (section 6).

`SalesProofs` proves, for any orders, days, overlap and lookback:

* `TwiceOnlyByCrossing`: `Spec => []NotTwice`, for any number of runs that overlap. What
  is in the table as closed is closed in Epicor (`Apart`), so what `sales_open` fetches is
  not there yet; it stays so until its commit unless a run of `sales_closed` commits in
  between, and that run marks it as overtaken (`RunGood`).
* `ClosuresRecorded`: `Spec => []PromptClosuresRecorded`. While the schedule is kept, a
  window reaches back to the last run minus the overlap, or covers this year
  (`WindowReaches`), whatever the floor and the cap make of it, and whatever other runs are in progress; so a run secures every
  order that has closed in time when it starts, and every such order that closed
  before the last run is in the table (`Complete`).

`ReportProofs` proves of `SteadySpec`, for any window, chunk, backlog and output:

* `NothingLeftBehind`: `[]BehindIsComplete`, and `WindowAdvances`: `EachRunAdvances`.
  The window of a run in progress is still the one it would be given now, and what it
  has fetched of past days is what Epicor has (`RunIsOn`); nothing is stored of days to
  come (`NothingAhead`); and no window that ends before today is without output
  (`GapsAreShort`), so the newest day moves.

and of the calculations, for any tables and not only for the bounded ones that the run
enumerates. Each theorem about tables comes with one about `PagesSpec`
(`ClearStands`, `WorkListsStand`, `BoardStands`, `NettingStands`, `WhatIfStands`), which shows that the
run's inputs are such tables:

* `ReadinessIsEarned`: any board, loads with several rows included, and any finite set of
  joined rows of one quantity and hold per release. What is summarised of a load is its
  last row (`LastHeaderIs`); the totals over loads are zero, or equal, only if each
  load's are.
* `SameWorkShown` and `QuickWinsAreClear`: any search on any floor of finitely many jobs
  whose departments have names, and no plan week called "Overdue" like the pivot's
  column. The pivot partitions the listed jobs by operation and column. `QuickWinsAreClear`
  decides of every order that no filter hides a part of (`InView`) whether all its active
  jobs are quick wins, from the whole order (`Finishable`).
* `BoardIsWhole`: any plan of finitely many jobs and customer groups with integer
  quantities, targets and shares. A week is over its target without a cell to show it
  when its groups are promised more than the target, so `NoHiddenOverload` is stated of
  the weeks in which they are not; the plan may say otherwise, and the board then hides
  the overload.
* `NettingIsSound`: any finite requirements, releases and stock with ids of their own,
  quantities of any sign, and lead days that are not negative
  (`admin/forms.py`: `NumberRange(min=0)`). Sorting is shown to list every row once in
  order (`RanksAre`, `RowsInOrder`); the pool that netting carries along is what the
  rows before have left (`NettingRuns`, `HandsOut`, `AllocationIsSound`); the balance
  of pegging is stock plus what has come less what has gone (`Balances`), so where it
  is negative the demand up to there exceeds the supply that netting may count, and
  some row of it is short (`ShortageIsNetted`, `AlarmsDoAgree`).

* `FiguresAreExact` and `NoPairIsMissed`: any such tables in which a job is for one order
  (`OneOrder`: the code's dictionary of the orders of jobs keeps one entry per job, and
  an order could stay "ready" when a job it shares is not), any committed and staged
  releases. Two nettings of the same requirements, with fewer and with more releases,
  are run side by side: the stock goes the same way, and at every requirement the second
  has used at least as much of the releases, and at most what the extra ones bring in
  time more (`MoreRelieves`). So no requirement is shorter for a release more, and one
  is relieved only if an extra release reaches it: looking at the reachable jobs only
  loses nothing (`ImpactIsExact`). A netting reads only its own material
  (`NettingOfTouched`, `NettingOfOthers`), so the sums that `_simulate_incremental`
  patches are those of the full one (`IncrementalShows`); and a staged release that is
  not shown relieves nothing (`StagedExact`). The list of bundles is cut off after
  `_MAX_BUNDLE_RESULTS`; the theorem is about the bundles found.

`AgreementProofs` proves `ReportsAgree` area by area, and `ReportsStand`:
`PagesSpec => []ReportsAgree`, which shows that the run's tables are such tables
(`PagesShow`). Each theorem reads every figure of every page as a part of one sum over
the same rows, by a key (`Keyed`, `SumByKey`): two pages agree because their keys divide
the same set.

* `OutputAddsUp`: any finite entries. A week's column adds the days it holds, and a
  period in which every week had output has as many targets as weeks (`Reads`).
* `BayViewsAgree`: any finite orders whose releases, void or not, have finite jobs and prices
  that are not negative (`IsBay`); the bays hold the void lines too, the report does not; that the first days are worth no more than the first weeks needs
  the sign.
* `TrendIsFair`: any months whose values are not negative (`IsMonths`). The two spans of a
  trend do not overlap and are as long as each other unless there are too few months
  (`SpansAre`).
* `PurchasingAgrees`, from `PurchasesAddUp`, `CoverageAddsUp` and `InsightsAddUp`: any such
  site, and any sales table (`IsNeed`). The two supplier pages have keys of their own, and
  agree on the suppliers in `NamedSuppliers`. The statuses are those of the netting above, so
  the lemmas of `ReportProofs` about lines (`LineSays`) carry over.
* `SalesPagesAgree`: any finite rows with ids of their own in which the rows of one order
  have one customer and one type, and the rows of one release one price and one date
  (`IsSales`): the columns that Epicor's answer repeats on every part of a release. The
  book deduplicates releases by their first row (`EachReleaseOnce`), an order's entry
  and date come from its releases (`EntriesAre`, `FirstDue`), a sorted book of `n` entries
  has each on one of its pages (`OnOnePage`), and the customers (`CustomerShows`) and the
  models with the lines of no model (`ModelShows`) divide the rows. What is late of an
  order is never more than the order's whole value (`LateIsWithin`), which is what
  the overdue figure of an account manager shows.

A proof attempt corrected one statement. That the insights' total is the report's total
of shortages holds only of rows that still need material, or whose stock is not
negative: a row that is fully issued is short by what the stock is below zero, and its
status is "ok", so the report adds it and the insights leave it out
(`materials/services/insights.py:38`, `netting.py:57`). The bounded sites had
no such row; they have now (`net` from 0).

The totals in these pages are sums over finite sets, and netting and pegging are
recursive functions over `0 .. n`. Both are reasoned about with induction over sets: the
set of the numbers (or subsets) for which a statement holds is everything (`StepByStep`,
`SetInduction`), from the well-foundedness of the natural numbers and of finite sets. A
first group of lemmas establishes that a sum exists, splits over a partition, and
is monotone; the rest of the proofs cite those.

Assumptions. On the constants: `SchedulerAssumption`, `ImportAssumption`,
`WorkAssumption`, `PlanningAssumption`, `TargetsAssumption`, `LabourAssumption`,
`DecisionsAssumption`, `SalesAssumption`, `OutputAssumption`, `LockoutAssumption`,
`CalculationsAssumption`, `NoDateAssumption` and those of the sessions, groups, history and items: the types of the constants, that the
overlap is shorter than the lookback, that the three kinds of work have ids of their
own, that departments, days and identifiers are finitely many, that a lockout lasts at
least a minute, that no number of hours is the empty value, that "not known" is
neither a load nor a quantity, and that no date is not a day. TLC evaluates them in
the runs. Beside them some theorems have a hypothesis of their own, named in their
statement: the database (`Database`; `Engine` in `TransportHistory`), or that requests do not overlap (`Overlap`,
`OneAtATime`); section 6 shows what happens without.

Only model-checked: liveness (`DueJobRuns`, `OrphanRecovered`, `EveryRunEnds`,
`CatchesUp`, `HistoryCatchesUp`), which is out of the provers' reach. Every safety
invariant and every action property that a passing run checks is a theorem.

## 5. Not modelled

Field mapping and validation of records, formatting, logging, HTTP and sessions;
paging of the Epicor client, over answers the repository does not define;
forecasting (floating-point fits); roles, users, departments and settings, edited
one row and one commit at a time; registration, password reset and the JSON API;
the pages over saved manifests and the transport overview; the capacity dashboard
and the department calendar; `set_group_members`, which no route calls; the
templates. `WorkItems` leaves out sibling order (`sort_order`), sharing,
assignment, log entries, names, dates and money; who may do what (`can_edit`) only
narrows what is possible; row locks are those of PostgreSQL; of a deleted row
only that it is deleted is kept, since no modelled query reads more of it. Two
runs of one job that outlive the watchdog's hour are excluded by an assumption of
`TickerSpec`. The row guard of the materials importers, which counts the whole
shared table (`core/epicor_importers.py:196`), is not that of `BaqImport`. Text
searches are sets of rows they find; lists cut to a first few are whole.
`Bundles` tries `MaxCandidates` releases (18 in the code) in bundles of up to `MaxBundle` (3).
`SalesSync` takes the deletions, insertions and commit of a run for one step, as
SQLite's one writer makes them; that runs overlap otherwise is modelled. In
`WeekTargets` a planner edits one week of the grid and posts the others as shown.

## 6. What does not hold

Where a comment or a document promises more than the code does, a configuration
reproduces it. One is a regular run:

| Configuration | Violates | How |
|---|---|---|
| `boot` | `SingleExecution` | a worker that boots later force-resets a job another worker has begun (`core/scheduler.py:382`) |

These are kept beside it, each with the one property it violates:

| Configuration | Violates | How |
|---|---|---|
| `manual_race` | `SingleExecution` | Run now reads `is_running` and writes it later (`admin/services/sync.py:317`) |
| `stuck` | `EveryOrphanRecovered` | a row with neither timestamp matches no branch of the watchdog (`scheduler.py:192`) |
| `sales_missed` | `NeverMissed` | an order closes; `sales_open` removes it; the floor it held is gone when `sales_closed` computes its window (`core/epicor_importers.py:845`) |
| `decisions_two_users` | `OneStagedGroup` | each request withdraws only the staged rows it loaded (`release_decisions.py:129`) |
| `work_closed` | `ClosedAllTheWay` | "Closing a project/activity requires **every live descendant** [...] to be completed or cancelled" (`projects/README.md:299`): the descendants are read before the commit, and only the closed item's version is compared, so a task created or reopened meanwhile stays open under it (`projects/services.py:468`) |

The others differ from a configuration by what the second column says, with the
one property of the third:

| Configuration | Changed | Violates | How |
|---|---|---|---|
| `manual_race` | `Workers = {w1, w2}`, `MaxTime = 3` | `WatchdogSparesLiveRuns` | Run now does not stamp `last_run_at` (`sync.py:322`) |
| `import` | `Database = "postgres"` | `OneSnapshot` | at READ COMMITTED the second DELETE does not see the first run's inserts (`core/epicor_sync.py:168`) |
| `sales_missed` | `Lookback = 2` | `WindowReachesBack` | the cap applies to the floor even when the last run lies further back (`epicor_importers.py:851`) |
| `sales` | `NeverTwice` in place of `NotTwice` | `NeverTwice` | `sales_open` fetches, the order closes, `sales_closed` fetches and commits, and the commit of `sales_open` deletes the open rows only and puts the order's open row beside the closed one (`epicor_importers.py:746`); `sales_orders` has no unique key (`sales/orders/models.py:165`) |
| `decisions_calm` | `SPECIFICATION ScheduledSpec` | `ReceivedDropsOff` | only `run_batch` reconciles; the scheduler calls the importer directly (`core/scheduler.py:99`) |
| `decisions_calm` | | `NothingOpenRemovedUnseen` | a committed release that has lost its date is not listed (`release_impact.py:206`), stays open (`release_decisions.py:239`), and the next save of the panel withdraws it (`release_decisions.py:195`) |
| `decisions_two_users` | | `Lifecycle` | commit writes rows that were withdrawn meanwhile (`release_decisions.py:162`) |
| `decisions_two_users` | | `MemoFresh` | a calculation in progress stores its result after the clear (`epicor_importers.py:1173`) |
| `decisions_calm` | `Users = {u1, u2}` | `NothingRemovedUnseen` | the committed panel of an older page (`release_decisions.py:195`) |
| `output_steady` | `SPECIFICATION IdleSpec` | `EachRunAdvances` | a window without output stores nothing and is asked for again (`epicor_importers.py:983`) |
| `work_closed` | | `EveryWayUpEnds` | two tasks moved under each other by two requests: each looks only at the other's committed parent, and `root()` then never ends (`services.py:433`) |
| `offices` | `Engine = "postgres"` | `ContentsObserved` | a slower run deletes and inserts release rows that a faster one has replaced (`transport/manifest_importer.py:140`) |
| `offices` | | `DistinctOrders` | `max(...) or -1` with a maximum of 0 (`sync.py:423`) |
| `planning` | | `ZeroStands` | "0 is valid" (`planning/workorder_plan/services.py:275`), but the grid shows the default for it and posts that back, and the row goes (`services.py:276`) |
| `planning` | | `ImportAccepted` | the labour plan's import meets the unique key when its sheet has a day that was entered by hand, and is refused whole (`planning/capacity/importers.py:98`) |
| `calculations` | | `UnitsReconcile` | "so the value/unit KPI totals reconcile exactly with the Order Book dashboard": the dashboard leaves out what has no model (`sales/orders/services.py`, `get_model_overview`) |
| `calculations` | | `SameSuppliers` | "Per-supplier summary of open and overdue PO lines": an order without a supplier's name is under "Unknown" on the dashboard (`materials/services/dashboard.py:116`) and under the supplier's id on the delivery page (`dashboard.py:190`) |
| `calculations` | | `BaysAreReported` | "finished goods by location": the bays have void lines, which the report leaves out (`transport/services.py:346` and `:49`) |
| `calculations` | | `WholeOrdersAreReady` | the earliest operation "across the whole order" (`operations/services.py:460`) is that of the jobs which the search, the category and the plan week leave |
| `calculations` | | `HeadersAreCarried` | "opposite quantity mismatches must not cancel each other out" (`transport/readiness.py:15`): of two rows of one load (`load_id` is not unique, `transport/models.py:23`) only the last is compared (`readiness.py:17`) |
| `calculations` | | `ExportIsTheList` | with "no shortage" the list's `NOT IN` leaves out jobs without an order, the file keeps them (`operations/services.py`, `get_wip_export`) |

Two docstrings say that rows of zero units, and capacities of zero, are deleted
(`planning/workorder_plan/services.py:252` and `services.py:391`); the code keeps them unless they repeat the
default (`services.py:276` and `services.py:417`), and so does the model.

`NotWiped` is stated of runs that come one at a time: the guard counts before the
transaction (`epicor_sync.py:153`).

## 7. Plan

1. The rest of the projects: sharing and revoking, assignment, reordering of
   siblings.
2. The capacity dashboard and the history pages, as pure modules.
