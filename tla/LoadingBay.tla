------------------------------ MODULE LoadingBay ----------------------------
(***************************************************************************)
(* The loading-bay report (transport/services.py): open sales orders with  *)
(* goods in a bay, sorted into ready and partial, held or not, and summed  *)
(* up five times over: headline figures, a shipping horizon in days, a     *)
(* loading plan in weeks, customers, and the filtered list.  Days are      *)
(* counted from today.                                                     *)
(***************************************************************************)
EXTENDS Calendar

(* An order is [releases, customer, held]; a release [id, day, staged,     *)
(* void, price, named, jobs] with the jobs its rows name, each [id, done,  *)
(* required, complete].                                                    *)
Required(r) == Total(r.jobs, LAMBDA j : j.required)
Done(r)     == Total(r.jobs, LAMBDA j : j.done)
FullyMade(r) == Required(r) > 0 /\ Done(r) >= Required(r)

ReleaseStatus(r) ==
  IF FullyMade(r) \/ (r.named /\ \A j \in r.jobs : j.complete) THEN "finished"
  ELSE IF \/ \E j \in r.jobs : j.done > 0
          \/ r.named /\ \E j \in r.jobs : j.complete THEN "in_progress"
  ELSE "not_started"

InBay(o)       == {r \in o.releases : r.staged}

(* The report leaves void lines out.                                       *)
Live(o)        == [o EXCEPT !.releases = {r \in @ : ~r.void}]
Reported(orders) == {o \in {Live(x) : x \in orders} : InBay(o) # {}}

ShipBy(o) == EarliestOf({r.day : r \in o.releases})

Invoiceable(o) == Total(InBay(o), LAMBDA r : r.price)
UnitsReady(o)  == Total({r \in o.releases : ReleaseStatus(r) = "finished"}, Done)
IsReady(o)     == \A r \in o.releases : ReleaseStatus(r) = "finished"

BayGroups == {"ready", "ready_hold", "partial", "partial_hold"}
BayGroup(o) ==
  CASE IsReady(o) /\ ~o.held -> "ready"
    [] IsReady(o) /\ o.held  -> "ready_hold"
    [] ~IsReady(o) /\ ~o.held -> "partial"
    [] OTHER                 -> "partial_hold"

InGroup(orders, g) == {o \in orders : BayGroup(o) = g}
ValueOf(orders)       == Total(orders, Invoiceable)

(* The headline figures, and the summary of a filtered list.               *)
Kpis(orders) == [total |-> ValueOf(orders),
                 value |-> [g \in BayGroups |-> ValueOf(InGroup(orders, g))],
                 count |-> [g \in BayGroups |-> Cardinality(InGroup(orders, g))]]

Filtered(orders, status) == IF status = "" THEN orders ELSE InGroup(orders, status)

(* Overdue, today, 1-3, 4-7, 8-14, 15 days and more, no date.              *)
HorizonBar(o) ==
  LET d == ShipBy(o) IN
  IF d = NoDate THEN 6
  ELSE CASE d < 0 -> 0 [] d = 0 -> 1 [] d \in 1 .. 3 -> 2
         [] d \in 4 .. 7 -> 3 [] d \in 8 .. 14 -> 4 [] OTHER -> 5

ShippingHorizon(orders) ==
  [held \in BOOLEAN |-> [bar \in 0 .. 6 |->
     ValueOf({o \in orders : IsReady(o) /\ o.held = held /\ HorizonBar(o) = bar})]]

(* Overdue, the six weeks from this Monday, later or no date.              *)
WeekBar(o) ==
  LET d == ShipBy(o) IN
  IF d = NoDate THEN 7
  ELSE CASE d < 0 -> 0 [] d >= 0 /\ d < Monday(6) -> WeekOf(d) + 1 [] OTHER -> 7

WeeklyLoading(orders) ==
  [g \in BayGroups |-> [bar \in 0 .. 7 |->
     ValueOf({o \in orders : BayGroup(o) = g /\ WeekBar(o) = bar})]]

Customers(orders) == {o.customer : o \in orders}
CustomerTable(orders) ==
  [c \in Customers(orders) |->
     LET mine == {o \in orders : o.customer = c} IN
     [value |-> ValueOf(mine), count |-> Cardinality(mine),
      group |-> [g \in BayGroups |-> ValueOf(InGroup(mine, g))]]]

(* get_loading_bay_state: the finished job rows of open orders by location,*)
(* every row with the price of its release, void lines too.                *)
FinishedRows(orders) ==
  UNION {{[release |-> r, job |-> j.id] :
            j \in {x \in r.jobs : x.required > 0 /\ x.done >= x.required}} :
         r \in UNION {o.releases : o \in orders}}
BayBoard(orders, staged) ==
  LET lines == {row \in FinishedRows(orders) : row.release.staged = staged} IN
  [value |-> Total(lines, LAMBDA row : row.release.price), count |-> Cardinality(lines)]

BarSum(bars) == Total(DOMAIN bars, LAMBDA i : bars[i])
Finished(r) == IF FullyMade(r) THEN r.price ELSE 0
VoidInBay(all) == {r \in UNION {InBay(o) : o \in all} : r.void}

----------------------------------------------------------------------------
(* The five views of one report never contradict each other: every order   *)
(* is in one group, one bar of days and one bar of weeks, the bars and the *)
(* customers add up to the groups, the two overdue bars agree, and what is *)
(* due within a week is not planned later than next week.  Where every     *)
(* release has one job, the bays hold what the report says is invoiceable  *)
(* and finished, and the void lines that are staged and finished.          *)
BayViewsAgreeFor(all) ==
  LET orders == Reported(all)
      kpi == Kpis(orders)   horizon == ShippingHorizon(orders)
      weekly == WeeklyLoading(orders)   table == CustomerTable(orders) IN
  /\ kpi.total = Total(BayGroups, LAMBDA g : kpi.value[g])
  /\ Cardinality(orders) = Total(BayGroups, LAMBDA g : kpi.count[g])
  /\ BarSum(horizon[FALSE]) = kpi.value["ready"]
  /\ BarSum(horizon[TRUE]) = kpi.value["ready_hold"]
  /\ \A g \in BayGroups :
       /\ BarSum(weekly[g]) = kpi.value[g]
       /\ Total(DOMAIN table, LAMBDA c : table[c].group[g]) = kpi.value[g]
       /\ Kpis(Filtered(orders, g)).total = kpi.value[g]
  /\ weekly["ready"][0] = horizon[FALSE][0]
  /\ horizon[FALSE][0] + horizon[FALSE][1] + horizon[FALSE][2] + horizon[FALSE][3]
       <= weekly["ready"][0] + weekly["ready"][1] + weekly["ready"][2]
  /\ \A o \in orders : IsReady(o) =>
       UnitsReady(o) = Total(o.releases, Done)
  /\ (\A o \in all : \A r \in o.releases : Cardinality(r.jobs) <= 1) =>
       BayBoard(all, TRUE).value
         = Total(UNION {InBay(o) : o \in orders}, Finished) + Total(VoidInBay(all), Finished)

(* The bays hold what the report says is finished, and nothing else.  This *)
(* does not hold of void lines.                                            *)
BaysAreReportedFor(all) ==
  \A row \in FinishedRows(all) : row.release.staged =>
    \E o \in Reported(all) : row.release \in InBay(o)
=============================================================================
