---------------------------- MODULE Calculations ----------------------------
(***************************************************************************)
(* The pure calculations of the application on bounded inputs: a step      *)
(* opens a page over one state of the imported tables, and the properties  *)
(* compare what its figures say with a definition of what they mean, or    *)
(* with the other pages over the same tables.                              *)
(***************************************************************************)
EXTENDS ReleaseImpact

CONSTANTS NoModel, NoOrder, NoWeek, NoOp, NoDept, Raw, Mixed, Unknown, Loads, Releases, MaxQty

(* "Not known" is no load, no quantity and neither yes nor no; no plan     *)
(* week is called as the pivot's column of overdue work.                   *)
ASSUME CalculationsAssumption == /\ MaxQty \in Nat /\ NoWeek # "Overdue"
                                 /\ Unknown \notin Loads /\ Unknown \notin 0 .. MaxQty /\ Unknown \notin BOOLEAN

Buying   == INSTANCE PurchasingReports
Sales    == INSTANCE SalesReports
Floors   == INSTANCE OperationsReports
Board    == INSTANCE PlanningWorkspace
Bay      == INSTANCE LoadingBay
Transport == INSTANCE TransportReadiness

VARIABLE page     \* the kind of page that is open, and what it is computed from

----------------------------------------------------------------------------
(* Materials: a job of each of two orders needs m1 before or after the     *)
(* other, one of them m2 too; three purchase releases, early, late or      *)
(* undated, of suppliers with a name or an id, both or neither; stock that *)
(* may be negative.  A sales table with a release in two rows, an order of *)
(* two releases, one shipped.                                              *)
ReqRow(id, m, job, due, net) ==
  [id |-> id, material |-> m, job |-> job, so |-> job, due |-> due, required |-> net + 1,
   issued |-> 1, open |-> TRUE, class |-> "A101",
   group |-> IF m = "m1" THEN "fabric" ELSE "component"]
Po(id, m, due, qty, supplier, name) ==
  [id |-> id, order |-> id, material |-> m, due |-> due, qty |-> qty, supplier |-> supplier,
   name |-> name, value |-> 10 * id]

Site(n, due, job, d1, q, m, d3, stock) ==
  [rows |-> {ReqRow(1, "m1", 1, 1, n[1]), ReqRow(2, "m1", 2, due, n[2]), ReqRow(3, "m2", job, 2, n[3])},
   pos  |-> {Po(1, "m1", d1, q, "s1", "Smith"),
             IF m = "m1" THEN Po(2, m, 2, 1, "s1", "Smith") ELSE Po(2, m, 2, 1, None, None),
             Po(3, "m2", d3, 2, "s2", IF job = 1 THEN "Jones" ELSE None)},
   stock |-> {[material |-> "m1", usable |-> stock]}, lead |-> [fabric |-> 1, component |-> 0],
   classes |-> [fabric |-> {"A101"}, component |-> {}], exempt |-> {}]
Sites ==
  {Site(n, due, job, d1, q, m, d3, stock) :
     n \in [1 .. 3 -> 0 .. 2], due \in {1, 3, NoDate}, job \in 1 .. 2,
     d1 \in {-1, 1, 2}, q \in 1 .. 2, m \in {"m1", "m2"}, d3 \in {1, NoDate}, stock \in -1 .. 1}

NeedRow(order, line, job, req, price, shipped) ==
  [order |-> order, line |-> line, job |-> job, req |-> req, price |-> price,
   customer |-> order, shipped |-> shipped]
NeedTable == {NeedRow(1, 1, 1, -3, 5, FALSE), NeedRow(1, 1, 2, -3, 5, FALSE),
              NeedRow(1, 2, 3, 9, 7, FALSE), NeedRow(2, 1, 4, 2, 11, FALSE),
              NeedRow(2, 2, 5, -1, 13, TRUE)}

(* Sales: two rows of one release, a second line of any model, date and    *)
(* customer, and another order, open or closed.                            *)
SalesRow(id, order, line, customer, model, due, open) ==
  [id |-> id, order |-> order, line |-> line, customer |-> customer, model |-> model,
   type |-> "retail", part |-> line, due |-> due, placed |-> -20, month |-> 1,
   price |-> 10 + line, qty |-> 1 + line, open |-> open, void |-> FALSE, held |-> FALSE]
SalesTable(m1, d1, m2, d2, customer, m3, d3, open) ==
  {SalesRow(1, 1, 1, "c1", m1, d1, TRUE), SalesRow(2, 1, 1, "c1", m1, d1, TRUE),
   SalesRow(3, 1, 2, "c1", m2, d2, TRUE), SalesRow(4, 2, 1, customer, m3, d3, open),
   SalesRow(5, 3, 3, customer, "a", 80, TRUE)}
SalesTables ==
  {SalesTable(m1, d1, m2, d2, c, m3, d3, open) :
     m1 \in {"a", NoModel}, d1 \in {-9, -1, 3, NoDate}, m2 \in {"a", "b", NoModel},
     d2 \in {-1, 3, 75, NoDate}, c \in {"c1", "c2"}, m3 \in {"a", NoModel},
     d3 \in {-1, 0, 9}, open \in BOOLEAN}

(* The months of a model's closed sales, oldest first.                     *)
MonthTables == UNION {[1 .. n -> {[value |-> v, units |-> v] : v \in 0 .. 2}] : n \in 1 .. 6}

----------------------------------------------------------------------------
(* The floor: three jobs of two orders or none, at sewing, upholstery or   *)
(* an operation of no department.                                          *)
FloorJob(id, order, op, week, due, complete) ==
  [id |-> id, order |-> order, op |-> op, week |-> week, due |-> due, qty |-> id,
   released |-> TRUE, complete |-> complete, real |-> id # 2, flag |-> id = 1]
FloorJobs(op1, op2, w, d1, d2, o3, c3) ==
  {FloorJob(1, 1, op1, w, d1, FALSE), FloorJob(2, 1, op2, NoWeek, d2, FALSE),
   FloorJob(3, o3, "SEW", "w1", 5, c3), FloorJob(4, NoOrder, "UPHOL", "w1", -1, FALSE)}
FloorDepts == {[name |-> "Sewing", ops |-> {"SEW"}, flow |-> 1],
               [name |-> "Upholstery", ops |-> {"UPHOL"}, flow |-> 2]}
FloorStates ==
  {[jobs |-> FloorJobs(op1, op2, w, d1, d2, o3, c3), depts |-> FloorDepts,
    fabric |-> [o \in {1, 2} |-> IF o = 1 THEN f ELSE "ok"],
    component |-> [o \in {1, 2} |-> IF o = 1 THEN "no_data" ELSE g]] :
     op1 \in {"SEW", "UPHOL", "PACK"}, op2 \in {"SEW", "UPHOL", NoOp}, w \in {"w1", NoWeek},
     d1 \in {-1, 2}, d2 \in {-1, NoDate}, o3 \in {1, 2, NoOrder}, c3 \in BOOLEAN,
     f \in {"ok", "late_po"}, g \in {"ok", "high_risk"}}
Searches == [category : {"models", ""}, dept : {"", "Sewing"}, week : {"any", "unplanned"},
             found : {1 .. 4, 2 .. 4}, fabric : {"", "ok", "late_po"}, component : {""},
             only : {"off", "fabric", "either", "no_shortage", "mtl_flag"}]

Outputs == {{[id |-> 1, day |-> 0, dept |-> "Sewing", qty |-> 2],
             [id |-> 2, day |-> d2, dept |-> "Sewing", qty |-> 3],
             [id |-> 3, day |-> d3, dept |-> "Upholstery", qty |-> 5]} : d2, d3 \in {-8, -3, 0, 4, 6}}

(* The board: three jobs, one of them overridden, with and without a       *)
(* group, a target, a department and a state chosen.                       *)
BoardJob(id, dept, planned, due, customer, released) ==
  [id |-> id, dept |-> dept, planned |-> planned, due |-> due, customer |-> customer,
   order |-> 1 + id \div 3, required |-> 3, completed |-> id - 1, released |-> released,
   firm |-> id = 2, complete |-> FALSE, named |-> id # 3 \/ released]
BoardJobs(d1, p1, due, r, c3) ==
  {BoardJob(1, d1, p1, due, "c1", FALSE), BoardJob(2, "sew", 0, -1, "c2", r),
   BoardJob(3, "uph", 1, 9, c3, r)}
Plans ==
  [jobs : {BoardJobs(d1, p1, due, r, c3) :
             d1 \in {"sew", "uph", NoDept}, p1 \in {0, 1, NoDate}, due \in {-2, 8, NoDate},
             r \in BOOLEAN, c3 \in {"c1", "c2"}},
   overrides : {<<>>, 1 :> 1, 2 :> NoDate}, member : {[c \in {"c1"} |-> "g"]},
   groupCap : {[g \in {"g"} |-> [w \in {0, 1} |-> cap]] : cap \in {0, 3, 6}},
   target : {[w \in {0, 1} |-> t] : t \in {0, 4}},
   labour : {[d \in {"sew", "uph"} |-> [w \in {0, 1} |-> 2]]},
   smv : {[d \in {"sew", "uph"} |-> IF d = "sew" THEN 2 ELSE 0]}, weeks : {{0, 1}},
   dept : {NoDept, "sew"}, filter : {"all", "released"}, measure : {"units", "smv"}]

----------------------------------------------------------------------------
(* The bay: an order of two releases with one or two jobs, and another; no *)
(* release or one of them is void.                                         *)
BayJob(id, done) == [id |-> id, done |-> done, required |-> 2, complete |-> done = 2]
BayRelease(id, day, staged, void, jobs) ==
  [id |-> id, day |-> day, staged |-> staged, void |-> id = void, price |-> 10 + id,
   named |-> jobs # {}, jobs |-> jobs]
BayTable(h, d1, s1, q1, more, d2, s2, q2, customer, d3, void) ==
  {[customer |-> "c1", held |-> h,
    releases |-> {BayRelease(1, d1, s1, void, {BayJob(1, q1)} \cup more),
                  BayRelease(2, d2, s2, void, {BayJob(3, q2)})}],
   [customer |-> customer, held |-> FALSE,
    releases |-> {BayRelease(3, d3, TRUE, void, {BayJob(4, 2)})}]}
Extra == {{}, {BayJob(2, 2)}}
BayOrders ==
  {BayTable(h, d1, s1, q1, more, d2, s2, q2, c, d3, void) :
     h \in BOOLEAN, d1 \in {-3, 0, 5, NoDate}, s1 \in BOOLEAN, s2 \in BOOLEAN, q1 \in {0, 1, 2}, q2 \in {0, 1, 2},
     more \in Extra, d2 \in {-1, 30}, c \in {"c1", "c2"}, d3 \in {3, 60}, void \in {0, 2, 3}}

(* The transport board: a header or two, of one load or of different ones, *)
(* and the joined rows of up to two releases, which give a release one     *)
(* load and one quantity.                                                  *)
Headers == {<<>>} \cup {<<h>> : h \in Transport!BoardRows}
           \cup {<<h, k>> : h, k \in {x \in Transport!BoardRows : x.qty # Unknown}}
JoinedPart == [release : Releases, load : Loads, job : {"complete", "blank"},
               credit : {FALSE, Unknown}, held : {FALSE, TRUE}, qty : 1 .. MaxQty]
Joined == {rows \in {{}} \cup {{x, y} : x, y \in JoinedPart} : Transport!Collapsible(rows)}

----------------------------------------------------------------------------
Open(kind, input) == page' = [kind |-> kind, in |-> input]

OpenMaterials == \E site \in Sites : Open("materials", site)
OpenSales     == \E table \in SalesTables : Open("sales", table)
OpenMonths    == \E months \in MonthTables : Open("months", months)
OpenFloor     == \E floor \in FloorStates : Open("floor", floor)
OpenOutput    == \E entries \in Outputs : Open("output", entries)
OpenBoard     == \E plan \in Plans : Open("board", plan)
OpenBay       == \E orders \in BayOrders : Open("bay", orders)
OpenTransport == \E h \in Headers, rows \in Joined :
                   Open("transport", [board |-> h, rows |-> rows])

NoPage == page = [kind |-> "none", in |-> {}]
OpenPage == page.kind = "none" /\ (\/ OpenMaterials \/ OpenSales \/ OpenMonths \/ OpenFloor \/ OpenOutput
                                   \/ OpenBoard \/ OpenBay \/ OpenTransport)
PagesSpec == NoPage /\ [][OpenPage]_page

On(kind) == page.kind = kind

----------------------------------------------------------------------------
(* netting.py and pegging.py: no stock and no purchase release is promised *)
(* twice, no shortage is reported while something that arrives in time is  *)
(* left, and the projected balance alarms only where the netting does.     *)
NettingSound == On("materials") => NettingSoundFor(page.in)

(* release_impact.py: what a release, a supplier or a bundle is said to    *)
(* unlock is what netting everything again from the start would show,      *)
(* though only the touched materials are netted again, and no two releases *)
(* that unlock a job only together are missed.                             *)
WhatIfIsExact == On("materials") =>
  /\ \A committed \in {{}, {3}} :
       WhatIfIsExactFor(page.in, {"fabric", "component"}, committed, {1, 2})
  /\ BundlesCompleteFor(page.in, {"fabric", "component"}, {})

(* The purchasing, sales, loading-bay and output pages each count the same *)
(* rows several times over, in different queries and loops: their totals,  *)
(* weeks, customers, suppliers and models agree, a release with several    *)
(* rows counts once, and nothing overdue is left out.                      *)
ReportsAgree ==
  /\ On("materials") => Buying!PurchasingAgreesFor(page.in, NeedTable, 1)
  /\ On("sales") => Sales!SalesReportsAgreeFor(page.in)
  /\ On("months") => Sales!TrendIsFairFor(page.in)
  /\ On("bay") => Bay!BayViewsAgreeFor(page.in)
  /\ On("output") => \A section \in {"", "Sewing"}, to \in {0, 6} :
       Floors!OutputAddsUpFor(page.in, -9, to, section, {"Sewing"}, 4, {0, 1, 3})

(* workorder_plan/services.py: the capacity board's groups make up its     *)
(* rows, an overloaded week shows at least one overloaded cell, and every  *)
(* job that is counted can be found in the list below.                     *)
BoardAddsUp == On("board") => Board!BoardAddsUpFor(page.in)

(* operations/services.py: the jobs listed, counted in the pivot, exported *)
(* and offered as quick wins are the same work under every filter; of an   *)
(* order that no filter hides a part of, the quick wins are the active     *)
(* jobs exactly when the order can be finished.                            *)
WorkListsAgree == On("floor") => \A args \in Searches :
  /\ Floors!WorkShownAgreesFor(page.in, args)
  /\ Floors!QuickWinsAreClearFor(page.in, args, "UPHOL")

(* transport/readiness.py: loads are called clear exactly when every row   *)
(* Epicor gave for them is complete and not held, and each load carries    *)
(* the quantity of its own header, the last if it has several.             *)
ClearIsEarned == On("transport") => Transport!ClearIsEarnedFor(page.in.board, page.in.rows)

----------------------------------------------------------------------------
(* Promises of the code's own comments that its figures do not keep.       *)
(* "so the value/unit KPI totals reconcile exactly with the Order Book     *)
(* dashboard" (sales/orders/services.py, get_model_overview).              *)
UnitsReconcile == On("sales") => Sales!UnitsReconcileFor(page.in)

(* "Per-supplier summary of open and overdue PO lines"                     *)
(* (materials/services/dashboard.py): orders without a supplier's name are *)
(* under "Unknown" on one page and under the supplier's id on the other.   *)
SameSuppliers == On("materials") => Buying!SameSuppliersFor(page.in, 1)

(* The two pages of the loading bay show the same goods                    *)
(* (transport/services.py): the state page has void lines too.             *)
BaysAreReported == On("bay") => Bay!BaysAreReportedFor(page.in)

(* "Evaluate the earliest operation across the whole order"                *)
(* (operations/services.py, get_wip_overview): a job the plan week, the    *)
(* category or the search hides is not looked at.                          *)
WholeOrdersAreReady == On("floor") => \A args \in Searches :
  Floors!WholeOrdersAreReadyFor(page.in, args, "UPHOL")

(* "opposite quantity mismatches must not cancel each other out and imply  *)
(* that the group has complete coverage" (transport/readiness.py): of two  *)
(* rows of one load only the last is compared.                             *)
HeadersAreCarried == On("transport") => Transport!HeadersAreCarriedFor(page.in.board, page.in.rows)

(* "Download WIP job detail with the overview's availability and scope     *)
(* filters" (operations/services.py, get_wip_export).                      *)
ExportIsTheList == On("floor") => \A args \in Searches :
  Floors!Exported(page.in, args) = Floors!Listed(page.in, args)
=============================================================================
