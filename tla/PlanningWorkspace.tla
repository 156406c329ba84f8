-------------------------- MODULE PlanningWorkspace -------------------------
(***************************************************************************)
(* The capacity board (workorder_plan/services.py): works orders placed in *)
(* weeks by a planning session's overrides, by Epicor's planned week or by *)
(* their due date, summed up by state and by customer group against the    *)
(* targets, with an overdue row, the list of jobs under it, and that list  *)
(* grouped by order.  A job is one operation of the plan; loads are whole  *)
(* numbers, so the rounding of the code changes nothing.                   *)
(***************************************************************************)
EXTENDS Calendar

CONSTANTS NoDept,   \* a job whose next operation maps to no department
          Raw,      \* a planned week that is no week of the calendar
          Mixed     \* an order whose jobs are in several weeks

(* A plan: its jobs; the session's overrides, job id to week or NoDate;    *)
(* the active groups' members; the weekly capacity of groups, of the week  *)
(* and of the labour plan; the minutes per unit of every department; and   *)
(* the page's first week, weeks, department, state filter and measure.     *)
States == {"unfirm", "firm", "released"}

EffectiveWeek(plan, job) ==
  IF job.id \in DOMAIN plan.overrides /\ plan.overrides[job.id] # NoDate
  THEN plan.overrides[job.id]
  ELSE IF job.planned # NoDate THEN job.planned
  ELSE IF job.due # NoDate THEN WeekOf(job.due) ELSE Raw

Remaining(job) == Floor(job.required - job.completed)
LoadValue(plan, job) ==
  IF plan.measure = "smv" /\ job.dept # NoDept /\ plan.smv[job.dept] > 0
  THEN Remaining(job) * plan.smv[job.dept] ELSE Remaining(job)

StateOf(job) == IF job.released THEN "released" ELSE IF job.firm THEN "firm" ELSE "unfirm"

CellStatus(avail, load) ==
  IF avail = 0 THEN "no-data"
  ELSE IF load > avail THEN "over"
  ELSE IF load * 100 >= avail * 85 THEN "warning" ELSE "ok"

(* Named models only, for the board; the list shows every open job.        *)
AllActive(plan) == {job \in plan.jobs : ~job.complete /\ job.named}
Display(plan) ==
  {job \in plan.jobs : ~job.complete /\ (plan.filter = "all" \/ StateOf(job) = plan.filter)}

InDept(plan, job) == job.dept # NoDept /\ (plan.dept = NoDept \/ job.dept = plan.dept)
OnBoard(plan, week) ==
  {job \in AllActive(plan) : EffectiveWeek(plan, job) = week /\ InDept(plan, job)}
Overdue(plan) ==
  {job \in AllActive(plan) : IsBefore(job.due, 0) /\ InDept(plan, job)}

----------------------------------------------------------------------------
(* Cells: jobs and load by state, for a week or the overdue row, as a      *)
(* whole, for each group, and for the customers of no group.               *)
Cell(plan, jobs) ==
  [jobs |-> Cardinality(jobs), load |-> Total(jobs, LAMBDA j : LoadValue(plan, j))]
StatusCells(plan, jobs) == [s \in States |-> Cell(plan, {j \in jobs : StateOf(j) = s})]
Sum(cells) == [jobs |-> Total(States, LAMBDA s : cells[s].jobs),
               load |-> Total(States, LAMBDA s : cells[s].load)]

ActiveGroups(plan) == DOMAIN plan.groupCap
OfGroup(plan, g, jobs) == {j \in jobs : j.customer \in DOMAIN plan.member
                                        /\ plan.member[j.customer] = g}
Ungrouped(plan, jobs)  == {j \in jobs : j.customer \notin DOMAIN plan.member}

NamedCapacity(plan, week) == Total(ActiveGroups(plan), LAMBDA g : plan.groupCap[g][week])
\* Mutant: the groups' share is kept.
WholeCapacity(plan, week) == plan.target[week]
StandardCapacity(plan, week) == Floor(plan.target[week] - NamedCapacity(plan, week))
LabourHours(plan, week) ==
  Total({d \in DOMAIN plan.labour : plan.dept = NoDept \/ d = plan.dept},
        LAMBDA d : plan.labour[d][week])

Row(plan, jobs) ==
  [total    |-> Sum(StatusCells(plan, jobs)),
   groups   |-> [g \in ActiveGroups(plan) |-> Sum(StatusCells(plan, OfGroup(plan, g, jobs)))],
   standard |-> Sum(StatusCells(plan, Ungrouped(plan, jobs)))]

WeekStatus(plan, week, row) ==
  [week     |-> CellStatus(IF plan.target[week] > 0 THEN plan.target[week]
                           ELSE LabourHours(plan, week), row.total.load),
   groups   |-> [g \in ActiveGroups(plan) |->
                   CellStatus(plan.groupCap[g][week], row.groups[g].load)],
   standard |-> CellStatus(StandardCapacity(plan, week), row.standard.load)]

----------------------------------------------------------------------------
(* The list: with a department chosen, the jobs of every department that   *)
(* is mapped; it is not narrowed to the one chosen.                        *)
Listed(plan) ==
  {job \in Display(plan) : /\ EffectiveWeek(plan, job) \in plan.weeks
                           /\ plan.dept # NoDept => job.dept # NoDept}

OverdueIn(plan, week) ==
  Cardinality({j \in Listed(plan) : EffectiveWeek(plan, j) = week /\ IsBefore(j.due, 0)})

OrderGroup(plan, order) ==
  LET jobs   == {j \in Listed(plan) : j.order = order}
      weeks  == {EffectiveWeek(plan, j) : j \in jobs}
      states == {StateOf(j) : j \in jobs} IN
  [order     |-> order,
   jobs      |-> jobs,
   remaining |-> Total(jobs, Remaining),
   load      |-> Total(jobs, LAMBDA j : IF plan.dept = NoDept THEN Remaining(j)
                                        ELSE LoadValue(plan, j)),
   due       |-> EarliestOf({j.due : j \in jobs}),
   primary   |-> CHOOSE s \in states :
                   \/ s = "released"
                   \/ s = "firm" /\ "released" \notin states
                   \/ s = "unfirm" /\ states = {"unfirm"},
   week      |-> IF Cardinality(weeks) = 1 THEN CHOOSE w \in weeks : TRUE ELSE Mixed,
   overridden |-> \E j \in jobs : j.id \in DOMAIN plan.overrides]
GroupedOrders(plan) == {OrderGroup(plan, o) : o \in {j.order : j \in Listed(plan)}}

(* What Epicor is sent: one line for each override of the session.         *)
DmtExport(plan) ==
  {[job |-> id, week |-> plan.overrides[id],
    remaining |-> Total({j \in plan.jobs : j.id = id}, Remaining),
    state |-> {StateOf(j) : j \in {x \in plan.jobs : x.id = id}} \ {"unfirm"}] :
      id \in DOMAIN plan.overrides}

----------------------------------------------------------------------------
(* The board adds up and hides no overload: groups and the rest make up    *)
(* every row; a week whose target is set, and is no less than what its     *)
(* groups are promised of it, is over only if one of its cells is over, or *)
(* has no capacity of its own while it carries load; and with every state  *)
(* shown, each job counted on the board can be found in the list under it, *)
(* in the order it belongs to, in the same week.                           *)
AddsUp(plan, jobs) ==
  LET row == Row(plan, jobs) IN
  /\ row.total.jobs = row.standard.jobs + Total(ActiveGroups(plan), LAMBDA g : row.groups[g].jobs)
  /\ row.total.load = row.standard.load + Total(ActiveGroups(plan), LAMBDA g : row.groups[g].load)

NoHiddenOverload(plan, week) ==
  LET row == Row(plan, OnBoard(plan, week))
      status == WeekStatus(plan, week, row)
      troubled(s, load) == s = "over" \/ (s = "no-data" /\ load > 0) IN
  plan.target[week] > 0 /\ NamedCapacity(plan, week) <= plan.target[week] /\ status.week = "over" =>
    \/ troubled(status.standard, row.standard.load)
    \/ \E g \in ActiveGroups(plan) : troubled(status.groups[g], row.groups[g].load)

DrillsDown(plan, week) ==
  plan.filter = "all" => \A job \in OnBoard(plan, week) :
    \E group \in GroupedOrders(plan) :
      job \in group.jobs /\ group.week \in {week, Mixed}

BoardAddsUpFor(plan) ==
  /\ AddsUp(plan, Overdue(plan))
  /\ \A week \in plan.weeks :
       AddsUp(plan, OnBoard(plan, week)) /\ NoHiddenOverload(plan, week) /\ DrillsDown(plan, week)

(* Not kept with a department chosen: the overdue count of a week is taken *)
(* from the list, which holds the jobs of the other departments too.       *)
OverdueIsOnBoardFor(plan) ==
  \A week \in plan.weeks : plan.filter = "all" =>
    OverdueIn(plan, week) <= Cardinality(OnBoard(plan, week))
=============================================================================
