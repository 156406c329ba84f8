---------------------------- MODULE SalesReports ----------------------------
(***************************************************************************)
(* The sales pages read one table of joined rows, a row for each job of a  *)
(* release, and each sums it up for itself (sales/orders/services.py): the *)
(* order book and its dashboard, the overdue report, the overview of all   *)
(* models, and the reports on chosen customers or models.  Days are        *)
(* counted from today; lists cut to the first ten or fifteen are whole.    *)
(***************************************************************************)
EXTENDS Calendar, Sequences

CONSTANT NoModel     \* a line without a model, or a "Scatter" line

(* A row is [id, order, line, customer, model, type, part, due, placed,    *)
(* month, price, qty, open, void, held]; line stands for line and release, *)
(* month for the month of the order date.                                  *)
RealModel(r) == r.model # NoModel
UnitQty(r)   == IF RealModel(r) THEN r.qty ELSE 0
Late(r)      == IsBefore(r.due, 0)

Value(rows)  == Total(rows, LAMBDA r : r.price)
Qty(rows)    == Total(rows, LAMBDA r : r.qty)
Units(rows)  == Total(rows, UnitQty)
OrdersIn(rows) == {r.order : r \in rows}
CountOrders(rows) == Cardinality(OrdersIn(rows))

OfStatus(table, open) == {r \in table : r.open = open}
\* Mutant: every job of a release counts.
DedupJobs(rows) == rows
Dedup(rows) ==
  {r \in rows : \A x \in rows : x.order = r.order /\ x.line = r.line => r.id <= x.id}
OpenBook(table) == Dedup(OfStatus(table, TRUE))

Entry(rows, o) ==
  LET mine == {r \in rows : r.order = o} IN
  [order |-> o, due |-> EarliestOf({r.due : r \in mine}), value |-> Value(mine),
   qty |-> Qty(mine), units |-> Units(mine), lines |-> Cardinality({r.line : r \in mine})]
Entries(rows) == {Entry(rows, o) : o \in OrdersIn(rows)}
LateEntries(rows) == {e \in Entries(rows) : IsBefore(e.due, 0)}

----------------------------------------------------------------------------
(* The order book: one status, filters on its releases, a page at a time,  *)
(* by due date or by number.                                               *)
OrderBook(table, open, passing) == Entries(Dedup(OfStatus(table, open)) \cap passing)

Precedes(sort, e, f) ==
  IF sort = "number" \/ e.due = f.due THEN e.order < f.order ELSE IsBefore(e.due, f.due)
OnPage(book, sort, page, perPage) ==
  {e \in book : LET rank == Cardinality({f \in book : Precedes(sort, f, e)}) IN
                rank \in perPage * (page - 1) .. perPage * page - 1}
PageCount(total, perPage) == (total + perPage - 1) \div perPage

Summary(table, open) ==
  LET rows == OfStatus(table, open)   releases == Dedup(rows) IN
  [total |-> CountOrders(rows), overdue |-> CountOrders({r \in rows : Late(r)}),
   value |-> Value(releases), overdueValue |-> Value({r \in releases : Late(r)}),
   units |-> Units(releases), held |-> CountOrders({r \in rows : r.held})]

(* Bar 0 is what was due before this week; undated and far orders are in   *)
(* no bar.                                                                 *)
BarOf(e, weeks) ==
  CASE e.due = NoDate                -> -1
    [] e.due # NoDate /\ e.due < Monday(0) -> 0
    [] e.due # NoDate /\ e.due >= Monday(0) ->
         IF WeekOf(e.due) < weeks THEN WeekOf(e.due) + 1 ELSE -1
DueByWeek(entries, weeks, units) ==
  [bar \in 0 .. weeks |->
     LET here == {e \in entries : BarOf(e, weeks) = bar} IN
     [value |-> Total(here, LAMBDA e : e.value), units |-> Total(here, LAMBDA e : e[units])]]

Breakdown(rows, key, missing) ==
  [k \in {r[key] : r \in rows} \ missing |->
     LET mine == {r \in rows : r[key] = k} IN
     [value |-> Value(mine), units |-> Units(mine), orders |-> CountOrders(mine)]]

LeadBand(days) ==
  CASE days < 14 -> 0 [] days >= 14 /\ days < 28 -> 1 [] days >= 28 /\ days < 56 -> 2
    [] days >= 56 /\ days < 84 -> 3 [] days >= 84 /\ days < 168 -> 4 [] OTHER -> 5
LeadTime(rows) ==
  [band \in 0 .. 5 |-> Cardinality({r \in rows :
     NoDate \notin {r.placed, r.due} /\ LeadBand(r.due - r.placed) = band})]

HorizonGrid(releases) ==
  LET near == {r \in releases : RealModel(r) /\ r.due # NoDate /\ WeekOf(r.due) \in 0 .. 3} IN
  [m \in {r.model : r \in near} |-> [week \in 0 .. 3 |->
     Qty({r \in near : r.model = m /\ WeekOf(r.due) = week})]]

Intake(table) ==
  LET taken == {r \in Dedup(table) : r.placed # NoDate /\ ~r.void} IN
  Breakdown(taken, "month", {})

Dashboard(table) ==
  LET releases == OpenBook(table) IN
  [summary |-> Summary(table, TRUE),
   weeks   |-> DueByWeek(Entries(releases), 10, "units"),
   customers |-> Breakdown(releases, "customer", {}),
   models  |-> Breakdown(releases, "model", {NoModel}),
   types   |-> Breakdown(releases, "type", {}),
   lead    |-> LeadTime(releases), horizon |-> HorizonGrid(releases),
   intake  |-> Intake(table)]

----------------------------------------------------------------------------
(* The overdue report: late releases, by order, customer and order type.   *)
AgeBand(days) ==
  CASE days <= 7 -> 0 [] days \in 8 .. 14 -> 1 [] days \in 15 .. 30 -> 2
    [] days \in 31 .. 60 -> 3 [] OTHER -> 4
OverdueReport(table) ==
  LET late == {r \in OpenBook(table) : Late(r)}
      keys == {<<r.order, r.customer, r.type>> : r \in late}
      of(k) == {r \in late : <<r.order, r.customer, r.type>> = k}
      days(k) == -EarliestOf({r.due : r \in of(k)}) IN
  [orders |-> Cardinality(keys), value |-> Total(keys, LAMBDA k : Value(of(k))),
   ages |-> [band \in 0 .. 4 |-> Cardinality({k \in keys : AgeBand(days(k)) = band})],
   customers |-> Breakdown(late, "customer", {})]

----------------------------------------------------------------------------
(* The overview of all models.  Closed rows count from 360 days back and   *)
(* are not reduced to releases; lines without a model are a row of their   *)
(* own, folded into the totals with everything they carry.                 *)
ClosedSince(table, days) ==
  {r \in OfStatus(table, FALSE) : r.placed # NoDate /\ r.placed >= -days}

ModelRow(table, m) ==
  LET of(rows) == {r \in rows : r.model = m}
      open == of(OpenBook(table))   closed == of(ClosedSince(table, 360))
      late == {r \in open : Late(r)} IN
  [parts |-> Cardinality({r.part : r \in of(table)}),
   openOrders |-> CountOrders(open), openUnits |-> Qty(open), openValue |-> Value(open),
   overdueOrders |-> CountOrders(late), overdueValue |-> Value(late),
   closedOrders |-> CountOrders(closed), closedUnits |-> Qty(closed),
   closedValue |-> Value(closed)]

ModelsIn(table) == {r.model : r \in {x \in table : RealModel(x)}}

ModelOverview(table) ==
  LET row == [m \in ModelsIn(table) \cup {NoModel} |-> ModelRow(table, m)]
      Over(F(_)) == Total(DOMAIN row, LAMBDA m : F(row[m]))
      open == OfStatus(table, TRUE) IN
  [models |-> Cardinality(ModelsIn(table)), rows |-> row,
   openOrders |-> CountOrders(open),
   overdueOrders |-> CountOrders({r \in open : Late(r)}),
   closedOrders |-> CountOrders(ClosedSince(table, 360)),
   openUnits |-> Over(LAMBDA x : x.openUnits), openValue |-> Over(LAMBDA x : x.openValue),
   overdueValue |-> Over(LAMBDA x : x.overdueValue),
   closedUnits |-> Over(LAMBDA x : x.closedUnits),
   closedValue |-> Over(LAMBDA x : x.closedValue),
   weeks |-> DueByWeek(Entries(OpenBook(table)), 12, "units"),
   intake |-> Breakdown(ClosedSince(table, 365), "month", {}),
   types |-> Breakdown(OpenBook(table), "type", {})]

----------------------------------------------------------------------------
(* The reports on chosen customers and on chosen models count an order as  *)
(* overdue with the value of all its releases.  Units are those of real    *)
(* models for a customer, all quantities for a model; lead times count     *)
(* every pair of dates once, whatever its status.                          *)
OpenSummary(open, counted) ==
  [orders |-> CountOrders(open), overdue |-> Cardinality(LateEntries(open)),
   value |-> Total(Entries(open), LAMBDA e : e.value),
   overdueValue |-> Total(LateEntries(open), LAMBDA e : e.value),
   units |-> Qty(open \cap counted)]
ClosedSummary(closed) ==
  [orders |-> Cardinality({<<r.order, r.placed, r.type>> : r \in closed}),
   value |-> Value(closed), units |-> Qty(closed)]
OverdueAges(late) ==
  [band \in 0 .. 4 |-> Cardinality({e \in late : AgeBand(-e.due) = band})]
LeadPairs(rows) ==
  LET pairs == {<<r.placed, r.due>> : r \in {x \in rows : NoDate \notin {x.placed, x.due}}} IN
  [band \in 0 .. 5 |-> Cardinality({p \in pairs : LeadBand(p[2] - p[1]) = band})]

ReportOn(table, chosen, counted) ==
  LET open == OpenBook(table) \cap chosen
      since(days) == ClosedSince(table, days) \cap chosen IN
  [open |-> OpenSummary(open, counted), closed |-> ClosedSummary(since(360)),
   weeks |-> DueByWeek(Entries(open), 12, "qty"),
   mix |-> Breakdown(open, "model", {NoModel}),
   types |-> Breakdown(open, "type", {}),
   products |-> Breakdown(since(360), "part", {}),
   intake |-> Breakdown(since(365), "month", {}),
   ages |-> OverdueAges(LateEntries(open)), lead |-> LeadPairs(table \cap chosen)]

CustomerReport(table, customers) ==
  ReportOn(table, {r \in table : r.customer \in customers}, {r \in table : RealModel(r)})
ModelReport(table, models) ==
  ReportOn(table, {r \in table : r.model \in models}, table)

(* _compute_sales_performance: the months that had sales, oldest first; a  *)
(* change, rounded to a tenth of a percent, counts when it exceeds one.    *)
SumOver(months, from, to) ==
  Total({i \in 1 .. Len(months) : from <= i /\ i <= to}, LAMBDA i : months[i].value)
TrendSpan(n) == IF n >= 6 THEN 3 ELSE IF n \div 2 > 1 THEN n \div 2 ELSE 1
Trend(months) ==
  LET n == Len(months)   span == TrendSpan(n)
      recent == SumOver(months, n - span + 1, n)
      prior  == SumOver(months, IF n >= 2 * span THEN n - 2 * span + 1 ELSE 1, n - span) IN
  CASE n < 2     -> "none"
    [] n >= 2 /\ prior = 0 -> IF recent > 0 THEN "up" ELSE "flat"
    [] OTHER     -> IF 2000 * (recent - prior) > 21 * prior THEN "up"
                    ELSE IF 2000 * (recent - prior) < -21 * prior THEN "down" ELSE "flat"
Consistency(months) ==
  LET n == Len(months)
      sum == Total(1 .. n, LAMBDA i : months[i].units)
      spread == n * Total(1 .. n, LAMBDA i : months[i].units * months[i].units) - sum * sum IN
  CASE n < 2            -> "none"
    [] n >= 2 /\ sum <= 0 -> "No recent demand"
    [] OTHER -> IF 100 * spread < 9 * sum * sum THEN "Consistent"
                ELSE IF 100 * spread < 36 * sum * sum THEN "Seasonal" ELSE "Highly Variable"

----------------------------------------------------------------------------
(* The pages tell one story of the same table.  Every open order is on     *)
(* exactly one page of the book; the book, the dashboard, the overview of  *)
(* models and the reports on each customer and each model add up to the    *)
(* same orders, values and overdue orders although a release has several   *)
(* rows, an order several models and a line none; a late release is never  *)
(* left out of the overdue value an account manager is shown.              *)
StoryAgrees(table, book, board, overdue, all, byCustomer, byModel, everyone) ==
  LET sum == board.summary
      OverCustomers(F(_)) == Total(DOMAIN byCustomer, LAMBDA c : F(byCustomer[c])) IN
  /\ \A e \in book : \A per \in 1 .. 2 :
       /\ Cardinality({n \in 1 .. PageCount(sum.total, per) : e \in OnPage(book, "due", n, per)}) = 1
       /\ Cardinality({n \in 1 .. PageCount(sum.total, per) : e \in OnPage(book, "number", n, per)}) = 1
  /\ Total(book, LAMBDA e : e.value) = sum.value
  /\ sum.value = Total({<<r.order, r.line>> : r \in OfStatus(table, TRUE)}, LAMBDA k :
        (CHOOSE r \in table : r.open /\ <<r.order, r.line>> = k).price)
  /\ overdue.orders = sum.overdue /\ overdue.value = sum.overdueValue
  /\ sum.overdue = Cardinality({e \in book : IsBefore(e.due, 0)})
  /\ all.openValue = sum.value /\ all.overdueValue = sum.overdueValue
  /\ all.openOrders = sum.total /\ all.overdueOrders = sum.overdue
  /\ \A bar \in DOMAIN board.weeks : all.weeks[bar] = board.weeks[bar]
  /\ OverCustomers(LAMBDA x : x.open.value) = sum.value
  /\ OverCustomers(LAMBDA x : x.open.orders) = sum.total
  /\ OverCustomers(LAMBDA x : x.open.units) = sum.units
  /\ OverCustomers(LAMBDA x : x.open.overdue) = sum.overdue
  /\ OverCustomers(LAMBDA x : x.open.overdueValue) >= sum.overdueValue
  /\ \A bar \in DOMAIN all.weeks :
       OverCustomers(LAMBDA x : x.weeks[bar].value) = all.weeks[bar].value
  /\ Total(DOMAIN byModel, LAMBDA m : byModel[m].open.value)
       + all.rows[NoModel].openValue = sum.value
  /\ Total(DOMAIN byModel, LAMBDA m : byModel[m].open.units) = sum.units
  /\ \A m \in DOMAIN byModel :
       /\ byModel[m].closed.value = all.rows[m].closedValue
       /\ byModel[m].open.orders = all.rows[m].openOrders
       /\ byModel[m].open.overdue = all.rows[m].overdueOrders
  /\ everyone.closed.value = all.closedValue
  /\ \A m \in DOMAIN all.intake :
       OverCustomers(LAMBDA x : IF m \in DOMAIN x.intake THEN x.intake[m].value ELSE 0)
         = all.intake[m].value
  /\ \A c \in DOMAIN byCustomer :
       Total(0 .. 4, LAMBDA band : byCustomer[c].ages[band]) = byCustomer[c].open.overdue
SalesReportsAgreeFor(table) ==
  LET customers == {r.customer : r \in table} IN
  StoryAgrees(table, OrderBook(table, TRUE, table), Dashboard(table), OverdueReport(table),
              ModelOverview(table), [c \in customers |-> CustomerReport(table, {c})],
              [m \in ModelsIn(table) |-> ModelReport(table, {m})], CustomerReport(table, customers))

(* The trend compares months that do not overlap: sales that never rise    *)
(* are not called rising, nor falling ones that never fall, and equal      *)
(* months are steady and consistent.                                       *)
TrendIsFairFor(months) ==
  LET rises(i) == months[i + 1].value >= months[i].value
      falls(i) == months[i + 1].value <= months[i].value
      steps == 1 .. Len(months) - 1 IN
  /\ (\A i \in steps : falls(i)) => Trend(months) # "up"
  /\ (\A i \in steps : rises(i)) => Trend(months) # "down"
  /\ Len(months) > 1 /\ (\A i \in steps : months[i + 1] = months[i]) =>
       Consistency(months) = IF months[1].units > 0 THEN "Consistent" ELSE "No recent demand"

(* "the value/unit KPI totals reconcile exactly with the Order Book        *)
(* dashboard" (docstring of get_model_overview).                           *)
UnitsReconcileFor(table) ==
  ModelOverview(table).openUnits = Summary(table, TRUE).units
=============================================================================
