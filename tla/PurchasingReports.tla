-------------------------- MODULE PurchasingReports -------------------------
(***************************************************************************)
(* The purchasing pages: spend and overdue purchase orders, deliveries by  *)
(* supplier, open sales orders by week and material status, lines netted   *)
(* by week (materials/services/dashboard.py) and the shortage insights     *)
(* (insights.py), all over one site.  Days are counted from today; lists   *)
(* cut to the first ten are whole.                                         *)
(***************************************************************************)
EXTENDS MaterialNetting

(* A purchase release also has its value, and its supplier's name and id,  *)
(* either of which may be missing; a row of the sales table is             *)
(* [order, line, job, req, price, customer, shipped].                      *)
OpenPos(site) == {po \in site.pos : po.qty > 0}
PoOverdue(po) == IsBefore(po.due, 0)
PoThisWeek(po) == po.due # NoDate /\ WeekOf(po.due) = 0
Spend(pos) == [lines |-> Cardinality(pos), value |-> Total(pos, LAMBDA po : po.value)]

Within(day, weeks)  == day # NoDate /\ day <= 7 * weeks
OverdueWeek == -1
WeekKey(day) == IF day < Monday(0) THEN OverdueWeek ELSE WeekOf(day)
WeekKeys(days) == {OverdueWeek} \cup {WeekOf(d) : d \in {x \in days : x >= Monday(0)}}
InWeek(day, key) == IF key = OverdueWeek THEN day < Monday(0)
                    ELSE day >= Monday(0) /\ WeekOf(day) = key

(* The supplier under whom the dashboard, and the delivery page, file it.  *)
Filed(name) == IF name = None THEN "Unknown" ELSE name
BoardSupplier(po) == Filed(po.name)
DeliverySupplier(po) == IF po.name # None THEN po.name ELSE Filed(po.supplier)

PurchasingDashboard(site, weeks) ==
  LET open == OpenPos(site)   shown == {po \in open : Within(po.due, weeks)} IN
  [total |-> Spend(open), overdue |-> Spend({po \in open : PoOverdue(po)}),
   weeks |-> [key \in WeekKeys({po.due : po \in shown}) |->
                Spend({po \in shown : InWeek(po.due, key)})],
   suppliers |-> [s \in {BoardSupplier(po) : po \in open} |->
     [all |-> Spend({po \in open : BoardSupplier(po) = s}),
      overdue |-> Spend({po \in open : BoardSupplier(po) = s /\ PoOverdue(po)})]]]

SupplierDelivery(site) ==
  LET open == OpenPos(site) IN
  [s \in {DeliverySupplier(po) : po \in open} |->
     LET mine == {po \in open : DeliverySupplier(po) = s} IN
     [all |-> Spend(mine), overdue |-> Spend({po \in mine : PoOverdue(po)}),
      thisWeek |-> Spend({po \in mine : PoThisWeek(po)})]]

----------------------------------------------------------------------------
(* Open sales orders by the week of their first release that is due within *)
(* the horizon and not shipped; a release counts once for all its jobs.    *)
NeedStatuses == {"ok", "med_risk", "late_po", "high_risk"}
CoverageStatus(site, order, group) ==
  LET fabric == SoMaterialStatus(site, order)   component == SoComponentStatus(site, order) IN
  CASE group = "component" -> component
    [] group = "all"       -> Worst({fabric}, component)
    [] OTHER               -> fabric
Shown(status) == IF status = "no_data" THEN "ok" ELSE status

NeededReleases(table, weeks) ==
  {[order |-> r.order, line |-> r.line, req |-> r.req, price |-> r.price,
    customer |-> r.customer] : r \in {x \in table : Within(x.req, weeks) /\ ~x.shipped}}
CoverageOrders(site, table, weeks, group) ==
  LET releases == NeededReleases(table, weeks) IN
  {LET mine == {r \in releases : r.order = o} IN
   [order |-> o, due |-> EarliestOf({r.req : r \in mine}),
    value |-> Total(mine, LAMBDA r : r.price),
    customer |-> Min({r.customer : r \in mine}),
    status |-> Shown(CoverageStatus(site, o, group))] : o \in {r.order : r \in releases}}

Bucket(orders) == [count |-> Cardinality(orders), value |-> Total(orders, LAMBDA o : o.value)]
ByStatus(orders) == [s \in NeedStatuses |-> Bucket({o \in orders : o.status = s})]

SoWeeks(orders) ==
  [weeks  |-> [key \in WeekKeys({o.due : o \in orders}) |->
                 ByStatus({o \in orders : InWeek(o.due, key)})],
   totals |-> ByStatus(orders), orders |-> orders]
WeeklySoBreakdown(site, table, weeks, group) == SoWeeks(CoverageOrders(site, table, weeks, group))

CustomerCoverage(orders) ==
  [c \in {o.customer : o \in orders} |-> ByStatus({o \in orders : o.customer = c})]

WeeklyAvailability(site, weeks) ==
  LET lines == {l \in ReportRows(site, "fabric") : Within(l.row.due, weeks)} IN
  [w \in {WeekOf(l.row.due) : l \in lines} |->
     LET mine == {l \in lines : WeekOf(l.row.due) = w} IN
     [total |-> Cardinality(mine), short |-> Cardinality({l \in mine : l.shortage > 0}),
      qty |-> Total(mine, LAMBDA l : l.shortage)]]

----------------------------------------------------------------------------
(* insights.py, over the lines of one report.                              *)
RiskTiers == {"med_risk", "late_po", "high_risk"}
RiskQty(l) == Floor(l.net - l.stockBefore)
ShortageInsights(lines) ==
  LET atRisk == {l \in lines : RowStatus(l) \in RiskTiers}
      Of(key(_), k) == {l \in atRisk : key(l) = k} IN
  [counts |-> [s \in RiskTiers |-> Cardinality({l \in atRisk : RowStatus(l) = s})],
   shortage |-> Total({l \in atRisk : l.shortage > 0}, LAMBDA l : l.shortage),
   materials |-> [m \in {l.row.material : l \in atRisk} |->
     LET mine == Of(LAMBDA l : l.row.material, m) IN
     [tier |-> [s \in RiskTiers |-> Total({l \in mine : RowStatus(l) = s}, RiskQty)],
      worst |-> Worst({RowStatus(l) : l \in mine}, "no_data"),
      due |-> EarliestOf({l.row.due : l \in mine}), jobs |-> Cardinality({l.row.job : l \in mine}),
      shortage |-> Total(mine, LAMBDA l : l.shortage), cover |-> Total(mine, LAMBDA l : l.poCover)]],
   classes |-> [c \in {l.row.class : l \in atRisk} |->
     LET mine == Of(LAMBDA l : l.row.class, c) IN
     [qty |-> Total(mine, RiskQty), lines |-> Cardinality(mine)]]]

----------------------------------------------------------------------------
(* Every purchase order and every open order the buyers look at is counted *)
(* once: each supplier page adds up to the headline, and they agree on     *)
(* every supplier under whose name no nameless order is filed; the weeks   *)
(* and the headline agree, what is overdue is in the overdue bar or in     *)
(* this week's; the weeks, the customers and the headline of the coverage  *)
(* page agree, an order is called ok over all materials only if it is for  *)
(* both groups; and no shortage of the report is missing from the weeks,   *)
(* nor from the insights unless its row needs nothing more and only the    *)
(* stock is below zero.                                                    *)
NamedSuppliers(open) ==
  LET nameless == {po \in open : po.name = None} IN
  {po.name : po \in open \ nameless} \ ({"Unknown"} \cup {DeliverySupplier(po) : po \in nameless})

PurchasesAgree(named, board, delivery, beyond) ==
  /\ Total(DOMAIN board.suppliers, LAMBDA s : board.suppliers[s].all.value) = board.total.value
  /\ Total(DOMAIN delivery, LAMBDA s : delivery[s].all.value) = board.total.value
  /\ Total(DOMAIN delivery, LAMBDA s : delivery[s].overdue.value) = board.overdue.value
  /\ \A s \in named : delivery[s].all = board.suppliers[s].all
                      /\ delivery[s].overdue = board.suppliers[s].overdue
  /\ Total(DOMAIN board.weeks, LAMBDA w : board.weeks[w].lines) = board.total.lines - beyond
  /\ board.weeks[OverdueWeek].lines <= board.overdue.lines
  /\ board.overdue.lines <= board.weeks[OverdueWeek].lines
                             + Total(DOMAIN delivery, LAMBDA s : delivery[s].thisWeek.lines)

CoverageAgrees(cover, customers, fabric, component) ==
  /\ \A s \in NeedStatuses :
       /\ Total(DOMAIN cover.weeks, LAMBDA w : cover.weeks[w][s].value) = cover.totals[s].value
       /\ Total(DOMAIN customers, LAMBDA c : customers[c][s].count) = cover.totals[s].count
  /\ \A o \in cover.orders : o.status = "ok" <=>
       /\ \E f \in fabric : f.order = o.order /\ f.status = "ok"
       /\ \E c \in component : c.order = o.order /\ c.status = "ok"

InsightsAgree(lines, insights, weekly, weeks) ==
  LET found == insights.materials IN
  /\ insights.shortage = Total({l \in lines : l.net > 0 \/ l.stockBefore >= 0}, LAMBDA l : l.shortage)
  /\ Total(DOMAIN found, LAMBDA m : found[m].shortage) = insights.shortage
  /\ Total(DOMAIN insights.classes, LAMBDA c : insights.classes[c].lines)
       = Total(RiskTiers, LAMBDA s : insights.counts[s])
  /\ \A m \in DOMAIN found : found[m].shortage <= Total(RiskTiers, LAMBDA s : found[m].tier[s])
  /\ Total(DOMAIN weekly, LAMBDA w : weekly[w].qty)
       = Total({l \in lines : Within(l.row.due, weeks)}, LAMBDA l : l.shortage)
  /\ \A w \in DOMAIN weekly : weekly[w].qty > 0 <=> weekly[w].short > 0

CoverageAgreesIn(cover, fabric, component) ==
  CoverageAgrees(cover, CustomerCoverage(cover.orders), fabric, component)
PurchasingAgreesFor(site, table, weeks) ==
  LET orders(group) == CoverageOrders(site, table, weeks, group)   lines == ReportRows(site, "fabric") IN
  /\ PurchasesAgree(NamedSuppliers(OpenPos(site)), PurchasingDashboard(site, weeks),
                    SupplierDelivery(site),
                    Cardinality({po \in OpenPos(site) : ~Within(po.due, weeks)}))
  /\ CoverageAgreesIn(WeeklySoBreakdown(site, table, weeks, "all"), orders("fabric"), orders("component"))
  /\ InsightsAgree(lines, ShortageInsights(lines), WeeklyAvailability(site, weeks), weeks)

(* "Per-supplier summary of open and overdue PO lines": both pages show    *)
(* the same suppliers.  This does not hold of orders without a name, which *)
(* one page files as "Unknown" and the other under the supplier's id.      *)
SameSuppliersFor(site, weeks) ==
  DOMAIN PurchasingDashboard(site, weeks).suppliers = DOMAIN SupplierDelivery(site)
=============================================================================
