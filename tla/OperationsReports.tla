-------------------------- MODULE OperationsReports -------------------------
(***************************************************************************)
(* The reports of the production floor (operations/services.py): the jobs  *)
(* in progress as a pivot, as a list and as a file, the "quick wins", and  *)
(* the daily output.  A department answers to the operations named by its  *)
(* own name and its op_code; a search is the set of jobs it finds.         *)
(***************************************************************************)
EXTENDS Calendar

CONSTANTS NoOrder,   \* a job that belongs to no sales order
          NoWeek,    \* no plan week
          NoOp       \* no next operation

(* A floor is [jobs, depts, fabric, component]: a job [id, order, op,      *)
(* week, due, qty, released, complete, real, flag]; a department [name,    *)
(* ops, flow]; the availability of each order's materials, "no_data" for   *)
(* an order without requirements.                                          *)
Active(j)   == j.released /\ ~j.complete /\ j.op # NoOp
InCategory(j, category) ==
  CASE category = "models" -> j.real [] category = "parts" -> ~j.real [] OTHER -> TRUE
InPlanWeek(j, week) == week = "any" \/ (week = "unplanned" /\ j.week = NoWeek) \/ j.week = week

DeptOps(depts, name) == UNION {d.ops : d \in {x \in depts : x.name = name}}
InDepartment(depts, j, name) ==
  DeptOps(depts, name) # {} => j.op \in DeptOps(depts, name)

(* What the filters leave, without and with the department.                *)
Scope(floor, args) ==
  {j \in floor.jobs : /\ Active(j) /\ j.id \in args.found
                      /\ InCategory(j, args.category) /\ InPlanWeek(j, args.week)}
Base(floor, args) == {j \in Scope(floor, args) : InDepartment(floor.depts, j, args.dept)}

OrdersOnFloor(jobs) == {j.order : j \in jobs} \ {NoOrder}
AtRisk(jobs, status) == {o \in OrdersOnFloor(jobs) : status[o] \notin {"ok", "no_data"}}

(* _wip_status_filters                                                     *)
StatusPasses(j, asked, status) ==
  CASE asked = ""        -> TRUE
    [] asked = "ok"      -> j.order = NoOrder \/ status[j.order] \in {"ok", "no_data"}
    [] asked = "no_data" -> j.order = NoOrder \/ status[j.order] = "no_data"
    [] OTHER             -> j.order # NoOrder /\ status[j.order] = asked
StatusesPass(floor, args, j) ==
  StatusPasses(j, args.fabric, floor.fabric) /\ StatusPasses(j, args.component, floor.component)

(* "Shortages only", by group.  NOT IN leaves out the rows that are NULL,  *)
(* unless the set is empty and the filter is dropped; Python's does not.   *)
Short(floor, base, group) ==
  LET fabric == AtRisk(base, floor.fabric)   component == AtRisk(base, floor.component) IN
  CASE group = "component" -> component
    [] group \in {"either", "no_shortage"} -> fabric \cup component
    [] OTHER -> fabric
NotIn(sql, o, S) == o \notin S /\ (sql /\ S # {} => o # NoOrder)
ShortPasses(sql, floor, base, args, j) ==
  CASE args.only = "off"         -> TRUE
    [] args.only = "no_shortage" -> NotIn(sql, j.order, Short(floor, base, args.only))
    [] args.only = "mtl_flag"    -> j.flag
    [] OTHER                     -> j.order \in Short(floor, base, args.only)

Listed(floor, args) ==
  LET base == Base(floor, args) IN
  {j \in base : StatusesPass(floor, args, j) /\ ShortPasses(TRUE, floor, base, args, j)}
Exported(floor, args) ==
  LET base == Base(floor, args) IN
  {j \in base : StatusesPass(floor, args, j) /\ ShortPasses(FALSE, floor, base, args, j)}

(* The pivot: what is overdue, and what is not in the week it is planned.  *)
Columns(jobs) == {"Overdue"} \cup ({j.week : j \in jobs} \ {NoWeek})
\* Mutant: overdue work also counts in its week.
InPlannedColumn(j, column) ==
  IF column = "Overdue" THEN IsBefore(j.due, 0) ELSE j.week = column
InColumn(j, column) ==
  IF column = "Overdue" THEN IsBefore(j.due, 0) ELSE j.week = column /\ ~IsBefore(j.due, 0)
Pivot(jobs) ==
  [op \in {j.op : j \in jobs} |-> [column \in Columns(jobs) |->
     LET here == {j \in jobs : j.op = op /\ InColumn(j, column)} IN
     [jobs |-> Cardinality(here), qty |-> Total(here, LAMBDA j : j.qty)]]]

ShownDepts(floor, args) ==
  {d \in floor.depts : d.ops \cap {j.op : j \in Scope(floor, args)} # {}}

WipOverview(floor, args) ==
  LET base == Base(floor, args)   listed == Listed(floor, args)
      CountShort(S) == Cardinality({j \in base : j.order \in S})
      fabric == AtRisk(base, floor.fabric)   component == AtRisk(base, floor.component) IN
  [total |-> Cardinality(base), shortages |-> CountShort(fabric),
   componentShortages |-> CountShort(component),
   eitherShortages |-> CountShort(fabric \cup component),
   flagged |-> Cardinality({j \in base : j.flag}),
   jobs |-> listed, pivot |-> Pivot(listed), depts |-> ShownDepts(floor, args)]

----------------------------------------------------------------------------
(* Quick wins: orders partly complete, or of a single job, with their      *)
(* materials available, of which no active job is before upholstery.       *)
LastPlace == 9999
Flow(floor, op) ==
  LET answering == {d \in floor.depts : op \in d.ops} IN
  IF answering = {} THEN LastPlace ELSE (CHOOSE d \in answering : TRUE).flow
PartlyComplete(floor) == OrdersOnFloor({j \in floor.jobs : j.complete})
SingleJob(floor, args) ==
  LET rows == {j \in floor.jobs : j.released /\ j.id \in args.found
                                  /\ InCategory(j, args.category)} IN
  {o \in OrdersOnFloor(rows) : Cardinality({j \in rows : j.order = o}) = 1}

QuickWins(floor, rows, args, upholstery) ==
  LET flow(j) == Flow(floor, j.op)
      candidates == OrdersOnFloor(rows) \cap (PartlyComplete(floor) \cup SingleJob(floor, args))
      clear == candidates \ (AtRisk(rows, floor.fabric) \cup AtRisk(rows, floor.component))
      ready == {o \in clear :
        Min({flow(j) : j \in {x \in rows : x.order = o}}) >= Flow(floor, upholstery)} IN
  IF \A d \in floor.depts : upholstery \notin d.ops THEN {}
  ELSE {j \in rows : j.order \in ready /\ flow(j) >= Flow(floor, upholstery)}

QuickWinsShown(floor, args, upholstery)    == QuickWins(floor, Scope(floor, args), args, upholstery)
QuickWinsExported(floor, args, upholstery) == QuickWins(floor, Scope(floor, args), args, upholstery)

----------------------------------------------------------------------------
(* Daily output: entries [id, day, dept, qty] from one day to another,     *)
(* of one department or of all; targets on some weekdays.                  *)
WeekdayOf(day) == (day + Weekday) % 7
OutputIn(entries, from, to, section) ==
  {e \in entries : from <= e.day /\ e.day <= to /\ (section # "" => e.dept = section)}
DailyOutput(entries, from, to, section, tracked, target, targetDays) ==
  LET shown == OutputIn(entries, from, to, section)
      depts == {e.dept : e \in shown}
      Sum(rows) == Total(rows, LAMBDA e : e.qty)
      dayTarget(d) == IF WeekdayOf(d) \in targetDays THEN target ELSE 0
      weeks == {WeekOf(e.day) : e \in shown} IN
  [depts |-> IF tracked = {} THEN depts ELSE depts \cap tracked,
   total |-> Sum(shown),
   pivot |-> [d \in depts |-> [day \in from .. to |-> Sum({e \in shown : e.dept = d /\ e.day = day})]],
   weekPivot |-> [d \in depts |-> [w \in weeks |-> Sum({e \in shown : e.dept = d /\ WeekOf(e.day) = w})]],
   dayTotals |-> [day \in from .. to |-> Sum({e \in shown : e.day = day})],
   weekTotals |-> [w \in weeks |-> Sum({e \in shown : WeekOf(e.day) = w})],
   target |-> Total(from .. to, dayTarget),
   weekTarget |-> Total({d \in from .. to : WeekOf(d) \in weeks}, dayTarget)]

----------------------------------------------------------------------------
(* The list, the file and the pivot show the same work: the file holds the *)
(* listed jobs and, when orders with shortages are excluded, jobs without  *)
(* an order, which the list drops; the pivot counts every listed job once  *)
(* except undated work with no plan week; choosing departments one by one  *)
(* goes through all the work.                                              *)
WorkShownAgreesFor(floor, args) ==
  LET overview == WipOverview(floor, args)   listed == overview.jobs
      pivot == overview.pivot IN
  /\ listed \subseteq Exported(floor, args)
  /\ Exported(floor, args) \ listed
       \subseteq (IF args.only = "no_shortage" THEN {j \in floor.jobs : j.order = NoOrder} ELSE {})
  /\ Total(DOMAIN pivot, LAMBDA op : Total(DOMAIN pivot[op], LAMBDA c : pivot[op][c].jobs))
       = Cardinality({j \in listed : j.week # NoWeek \/ IsBefore(j.due, 0)})
  /\ overview.eitherShortages
       <= overview.shortages + overview.componentShortages
  /\ (\A j \in Scope(floor, args) : Flow(floor, j.op) < LastPlace) =>
       Base(floor, [args EXCEPT !.dept = ""])
         = UNION {Base(floor, [args EXCEPT !.dept = d.name]) : d \in ShownDepts(floor, args)}

(* What a quick win promises, looking at the whole order: its materials    *)
(* are available and its earliest active job has reached upholstery.       *)
OrderJobs(floor, o) == {j \in floor.jobs : j.order = o}
Finishable(floor, upholstery, o) ==
  /\ \/ \E j \in OrderJobs(floor, o) : j.complete
     \/ Cardinality({j \in OrderJobs(floor, o) : j.released}) = 1
  /\ floor.fabric[o] \in {"ok", "no_data"} /\ floor.component[o] \in {"ok", "no_data"}
  /\ \A j \in OrderJobs(floor, o) : Active(j) => Flow(floor, j.op) >= Flow(floor, upholstery)

(* The search, the category and the plan week hide none of the order.      *)
InView(floor, args, o) ==
  \A j \in OrderJobs(floor, o) : /\ j.id \in args.found /\ InCategory(j, args.category)
                                 /\ Active(j) => InPlanWeek(j, args.week)

(* Of an order that is wholly in view the quick wins are every active job, *)
(* if the order can be finished, and none if it cannot, whatever           *)
(* department is on the screen; of an order the search, the category or    *)
(* the plan week hides a part of, the jobs that are left are judged.       *)
QuickWinsAreClearFor(floor, args, upholstery) ==
  LET wins == QuickWinsShown(floor, args, upholstery)
      placed == \E d \in floor.depts : upholstery \in d.ops IN
  /\ wins = QuickWinsExported(floor, [args EXCEPT !.dept = "", !.only = "off"], upholstery)
  /\ \A o \in OrdersOnFloor(floor.jobs) : InView(floor, args, o) =>
       {j \in wins : j.order = o}
         = IF placed /\ Finishable(floor, upholstery, o)
           THEN {j \in OrderJobs(floor, o) : Active(j)} ELSE {}
  /\ \A j \in wins, x \in Scope(floor, args) : x.order = j.order =>
       Flow(floor, x.op) >= Flow(floor, upholstery) /\ x \in wins

(* Every quick win's order, seen or not, is past the operations before     *)
(* upholstery.  An earlier job in another plan week is not looked at.      *)
WholeOrdersAreReadyFor(floor, args, upholstery) ==
  \A j \in QuickWinsShown(floor, args, upholstery), x \in floor.jobs :
    Active(x) /\ x.order = j.order => Flow(floor, x.op) >= Flow(floor, upholstery)

(* The days, the weeks and the departments of one period add up to the     *)
(* same output, and a period in which every week had output to the same    *)
(* target.                                                                 *)
OutputAddsUpFor(entries, from, to, section, tracked, target, targetDays) ==
  LET report == DailyOutput(entries, from, to, section, tracked, target, targetDays)
      Sum(f) == Total(DOMAIN f, LAMBDA x : f[x]) IN
  /\ Sum(report.dayTotals) = report.total /\ Sum(report.weekTotals) = report.total
  /\ Total(DOMAIN report.pivot, LAMBDA d : Sum(report.pivot[d])) = report.total
  /\ \A d \in DOMAIN report.pivot : Sum(report.pivot[d]) = Sum(report.weekPivot[d])
  /\ DOMAIN report.weekTotals = PeriodWeeks(from, WeekOf(to) - WeekOf(from) + 1)
       => report.weekTarget = report.target
=============================================================================
