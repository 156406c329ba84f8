-------------------------- MODULE AgreementProofs --------------------------
(***************************************************************************)
(* That the pages over one table agree (ReportsAgree of Calculations): for *)
(* any rows of the output, of the loading bay, of a model's months, of     *)
(* materials and purchases and of the sales, the figures of every page are *)
(* parts of one sum over the same rows.  First the sums by keys, then one  *)
(* theorem per area, and at the end the pages of PagesSpec.                *)
(***************************************************************************)
EXTENDS ReportProofs

-----------------------------------------------------------------------------
(***************************************************************************)
(* Sums by keys, and the daily output.                                     *)
(***************************************************************************)
(* The elements that a function gives one key.                             *)
Keyed(S, key, k) == {x \in S : key[x] = k}

(* A sum by keys, and a count by keys.                                     *)
LEMMA SumByKey ==
  ASSUME NEW S, IsFiniteSet(S), NEW f, \A x \in S : f[x] \in Int, NEW key, NEW K, IsFiniteSet(K),
         \A x \in S : key[x] \in K, NEW h, \A k \in K : h[k] = SumFunctionOnSet(f, Keyed(S, key, k))
  PROVE  SumFunctionOnSet(h, K) = SumFunctionOnSet(f, S)
<1> DEFINE part == [k \in K |-> Keyed(S, key, k)]
<1>1. \A k \in K : part[k] \in SUBSET S /\ part[k] = Keyed(S, key, k)
  BY DEF Keyed
<1>2. \A k, l \in K : k # l => part[k] \cap part[l] = {}
  BY DEF Keyed
<1>3. Whole(part, K) = S
  <2>1. \A k \in K : \A x : x \in part[k] <=> x \in S /\ key[x] = k
    BY DEF Keyed
  <2> HIDE DEF part
  <2> QED BY <2>1 DEF Whole
<1> HIDE DEF part
<1>4. \A k \in K : IsFiniteSet(part[k])
  BY <1>1, FS_Subset
<1>5. \A k \in K : \A x \in part[k] : f[x] \in Int
  BY <1>1
<1>6. \A k \in K : h[k] = SumFunctionOnSet(f, part[k])
  BY <1>1
<1>7. SumFunctionOnSet(f, Whole(part, K)) = SumFunctionOnSet(h, K)
  BY SMTT(60), <1>2, <1>4, <1>5, <1>6, SumByParts
<1> QED BY <1>3, <1>7

LEMMA CountByKey ==
  ASSUME NEW S, IsFiniteSet(S), NEW key, NEW K, IsFiniteSet(K),
         \A x \in S : key[x] \in K, NEW h, \A k \in K : h[k] = Cardinality(Keyed(S, key, k))
  PROVE  SumFunctionOnSet(h, K) = Cardinality(S)
<1> DEFINE part == [k \in K |-> Keyed(S, key, k)]
<1>1. \A k \in K : part[k] \in SUBSET S /\ part[k] = Keyed(S, key, k)
  BY DEF Keyed
<1>2. \A k, l \in K : k # l => part[k] \cap part[l] = {}
  BY DEF Keyed
<1>3. Whole(part, K) = S
  <2>1. \A k \in K : \A x : x \in part[k] <=> x \in S /\ key[x] = k
    BY DEF Keyed
  <2> HIDE DEF part
  <2> QED BY <2>1 DEF Whole
<1> HIDE DEF part
<1>4. \A k \in K : IsFiniteSet(part[k]) /\ h[k] = Cardinality(part[k])
  BY <1>1, FS_Subset
<1>7. Cardinality(Whole(part, K)) = SumFunctionOnSet(h, K)
  BY <1>2, <1>4, CountByParts
<1> QED BY <1>3, <1>7

-----------------------------------------------------------------------------
(* The output of some entries of a list is their part of the sum over it.  *)
LEMMA OutputSum ==
  ASSUME NEW shown, IsFiniteSet(shown), \A e \in shown : e.qty \in Int, NEW P \in SUBSET shown
  PROVE  Floors!SumFunction([e \in P |-> e.qty]) = SumFunctionOnSet([e \in shown |-> e.qty], P)
<1> DEFINE f == [e \in P |-> e.qty]   g == [e \in shown |-> e.qty]
<1>1. DOMAIN f = P /\ \A e \in P : f[e] \in Int /\ g[e] = f[e]
  OBVIOUS
<1>2. IsFiniteSet(P)
  BY FS_Subset
<1> HIDE DEF f, g
<1>3. SumFunctionOnSet(f, P) = SumFunctionOnSet(g, P)
  BY <1>1, <1>2, SumSame
<1>4. Floors!SumFunction(f) = SumFunctionOnSet(f, P)
  BY <1>1, FloorsFigures DEF SumFunction
<1> QED BY <1>3, <1>4 DEF f, g

(* Entries as the table holds them.                                        *)
IsOutput(entries) == IsFiniteSet(entries) /\ \A e \in entries : e.day \in Int /\ e.qty \in Int

(* What the report of a period shows, as parts of one sum.                 *)
Reads(report, D, shown, qty, dept, day, week) ==
  /\ IsFiniteSet(shown) /\ \A e \in shown : qty[e] \in Int
  /\ report.total = SumFunctionOnSet(qty, shown)
  /\ DOMAIN report.dayTotals = D /\ DOMAIN report.weekTotals = Images(week, shown)
  /\ DOMAIN report.pivot = Images(dept, shown) /\ DOMAIN report.weekPivot = Images(dept, shown)
  /\ \A d \in D : report.dayTotals[d] = SumFunctionOnSet(qty, Keyed(shown, day, d))
  /\ \A w \in Images(week, shown) :
       report.weekTotals[w] = SumFunctionOnSet(qty, Keyed(shown, week, w))
  /\ \A n \in Images(dept, shown) :
       /\ DOMAIN report.pivot[n] = D
       /\ DOMAIN report.weekPivot[n] = Images(week, shown)
       /\ \A d \in D : report.pivot[n][d]
            = SumFunctionOnSet(qty, Keyed(Keyed(shown, dept, n), day, d))
       /\ \A w \in Images(week, shown) : report.weekPivot[n][w]
            = SumFunctionOnSet(qty, Keyed(Keyed(shown, dept, n), week, w))

LEMMA OutputShows ==
  ASSUME NEW entries, IsOutput(entries), NEW from \in Int, NEW to \in Int, NEW section, NEW tracked,
         NEW target, NEW targetDays
  PROVE  LET shown == Floors!OutputIn(entries, from, to, section) IN
         Reads(Floors!DailyOutput(entries, from, to, section, tracked, target, targetDays),
               from .. to, shown, [e \in shown |-> e.qty], [e \in shown |-> e.dept],
               [e \in shown |-> e.day], [e \in shown |-> Floors!WeekOf(e.day)])
<1> DEFINE report == Floors!DailyOutput(entries, from, to, section, tracked, target, targetDays)
           shown == Floors!OutputIn(entries, from, to, section)
           qty == [e \in shown |-> e.qty]
           dept == [e \in shown |-> e.dept]   day == [e \in shown |-> e.day]
           week == [e \in shown |-> Floors!WeekOf(e.day)]
           F(P) == Floors!SumFunction([e \in P |-> e.qty])
<1>1. shown \in SUBSET entries
  BY DEF Floors!OutputIn
<1>2. IsFiniteSet(shown) /\ (\A e \in shown : e.qty \in Int) /\ \A e \in shown : qty[e] \in Int
  BY <1>1, FS_Subset DEF IsOutput
<1>3. \A P \in SUBSET shown : F(P) = SumFunctionOnSet(qty, P)
  BY <1>2, OutputSum
<1>4. {Floors!WeekOf(e.day) : e \in shown} = Images(week, shown) /\ {e.dept : e \in shown} = Images(dept, shown)
  BY DEF Images
<1>5. /\ \A d : {e \in shown : e.day = d} = Keyed(shown, day, d)
      /\ \A w : {e \in shown : Floors!WeekOf(e.day) = w} = Keyed(shown, week, w)
      /\ \A n, d : {e \in shown : e.dept = n /\ e.day = d} = Keyed(Keyed(shown, dept, n), day, d)
      /\ \A n, w : {e \in shown : e.dept = n /\ Floors!WeekOf(e.day) = w}
                     = Keyed(Keyed(shown, dept, n), week, w)
  BY DEF Keyed
<1>6. \A S \in SUBSET shown : \A f, k : Keyed(S, f, k) \in SUBSET shown
  BY DEF Keyed
<1>7. /\ report.total = F(shown)
      /\ report.dayTotals = [d \in from .. to |-> F({e \in shown : e.day = d})]
      /\ report.weekTotals = [w \in {Floors!WeekOf(e.day) : e \in shown} |->
                                F({e \in shown : Floors!WeekOf(e.day) = w})]
      /\ report.pivot = [n \in {e.dept : e \in shown} |-> [d \in from .. to |->
                           F({e \in shown : e.dept = n /\ e.day = d})]]
      /\ report.weekPivot = [n \in {e.dept : e \in shown} |->
                               [w \in {Floors!WeekOf(e.day) : e \in shown} |->
                                  F({e \in shown : e.dept = n /\ Floors!WeekOf(e.day) = w})]]
  BY DEF Floors!DailyOutput, Floors!Total
<1> HIDE DEF report, shown, qty, dept, day, week, F
<1>8. /\ report.total = SumFunctionOnSet(qty, shown)
      /\ DOMAIN report.dayTotals = from .. to /\ DOMAIN report.weekTotals = Images(week, shown)
      /\ DOMAIN report.pivot = Images(dept, shown) /\ DOMAIN report.weekPivot = Images(dept, shown)
  BY <1>3, <1>4, <1>7
<1>9. ASSUME NEW d \in from .. to
      PROVE  report.dayTotals[d] = SumFunctionOnSet(qty, Keyed(shown, day, d))
  BY <1>3, <1>5, <1>6, <1>7, ZenonT(60)
<1>10. ASSUME NEW w \in Images(week, shown)
       PROVE  report.weekTotals[w] = SumFunctionOnSet(qty, Keyed(shown, week, w))
  BY <1>3, <1>4, <1>5, <1>6, <1>7
<1>11. ASSUME NEW n \in Images(dept, shown)
       PROVE  /\ DOMAIN report.pivot[n] = from .. to
              /\ DOMAIN report.weekPivot[n] = Images(week, shown)
              /\ \A d \in from .. to : report.pivot[n][d]
                         = SumFunctionOnSet(qty, Keyed(Keyed(shown, dept, n), day, d))
              /\ \A w \in Images(week, shown) : report.weekPivot[n][w]
                         = SumFunctionOnSet(qty, Keyed(Keyed(shown, dept, n), week, w))
  <2>1. \A f, k : Keyed(Keyed(shown, dept, n), f, k) \in SUBSET shown
    BY <1>6
  <2>2. /\ report.pivot[n] = [d \in from .. to |-> F({e \in shown : e.dept = n /\ e.day = d})]
        /\ report.weekPivot[n] = [w \in Images(week, shown) |->
                                  F({e \in shown : e.dept = n /\ Floors!WeekOf(e.day) = w})]
    BY <1>4, <1>7
  <2>3. ASSUME NEW d \in from .. to
        PROVE  report.pivot[n][d] = SumFunctionOnSet(qty, Keyed(Keyed(shown, dept, n), day, d))
    <3>1. report.pivot[n][d] = F({e \in shown : e.dept = n /\ e.day = d})
      BY <2>2
    <3>2. report.pivot[n][d] = F(Keyed(Keyed(shown, dept, n), day, d))
      BY <3>1, <1>5, Zenon
    <3> QED BY <3>2, <1>3, <2>1
  <2>4. ASSUME NEW w \in Images(week, shown)
        PROVE  report.weekPivot[n][w] = SumFunctionOnSet(qty, Keyed(Keyed(shown, dept, n), week, w))
    <3>1. report.weekPivot[n][w] = F({e \in shown : e.dept = n /\ Floors!WeekOf(e.day) = w})
      BY <2>2
    <3>2. report.weekPivot[n][w] = F(Keyed(Keyed(shown, dept, n), week, w))
      BY <3>1, <1>5, Zenon
    <3> QED BY <3>2, <1>3, <2>1
  <2> QED BY <2>2, <2>3, <2>4
<1>12. Reads(report, from .. to, shown, qty, dept, day, week)
  BY <1>2, <1>8, <1>9, <1>10, <1>11 DEF Reads
<1> QED BY <1>12 DEF report, shown, qty, dept, day, week

(* operations/services.py: the days, the weeks and the departments of any  *)
(* period add up to its output, and its weeks to its target.               *)
THEOREM OutputAddsUp ==
  ASSUME NEW entries, IsOutput(entries), NEW from \in Int, NEW to \in Int, NEW section, NEW tracked,
         NEW target, NEW targetDays
  PROVE  Floors!OutputAddsUpFor(entries, from, to, section, tracked, target, targetDays)
<1> DEFINE report == Floors!DailyOutput(entries, from, to, section, tracked, target, targetDays)
           shown == Floors!OutputIn(entries, from, to, section)
           qty == [e \in shown |-> e.qty]
           dept == [e \in shown |-> e.dept]   day == [e \in shown |-> e.day]
           week == [e \in shown |-> Floors!WeekOf(e.day)]
           Of(f) == [x \in DOMAIN f |-> f[x]]
           D == from .. to   W == Images(week, shown)   N == Images(dept, shown)
           all == [n \in DOMAIN report.pivot |-> Floors!SumFunction(Of(report.pivot[n]))]
<1>1. Reads(report, D, shown, qty, dept, day, week)
  BY OutputShows
<1>5. \A e \in shown : day[e] \in D /\ week[e] \in W /\ dept[e] \in N
  <2>1. ASSUME NEW e \in shown PROVE e.day \in D
    <3>1. e \in entries /\ from <= e.day /\ e.day <= to
      BY DEF Floors!OutputIn
    <3>2. e.day \in Int
      BY <3>1 DEF IsOutput
    <3> QED BY <3>1, <3>2
  <2> HIDE DEF shown, D
  <2> QED BY <2>1 DEF Images
<1>6. IsFiniteSet(D) /\ IsFiniteSet(W) /\ IsFiniteSet(N)
  <2>1. IsFiniteSet(shown)
    BY <1>1 DEF Reads
  <2> HIDE DEF shown, week, dept
  <2> QED BY <2>1, FS_Interval, ImageFinite
<1>7. \A f : Floors!SumFunction(Of(f)) = SumFunctionOnSet(Of(f), DOMAIN f)
            /\ \A x \in DOMAIN f : Of(f)[x] = f[x]
  BY FloorsFigures DEF SumFunction
<1>8. \A d \in D : Floors!WeekOf(d) \in Floors!PeriodWeeks(from, Floors!WeekOf(to) - Floors!WeekOf(from) + 1)
  BY CalendarAssumption DEF Floors!WeekOf, Floors!PeriodWeeks
<1>9. Floors!OutputAddsUpFor(entries, from, to, section, tracked, target, targetDays) <=>
      /\ Floors!SumFunction(Of(report.dayTotals)) = report.total
      /\ Floors!SumFunction(Of(report.weekTotals)) = report.total
      /\ Floors!SumFunction(all) = report.total
      /\ \A n \in DOMAIN report.pivot :
           Floors!SumFunction(Of(report.pivot[n])) = Floors!SumFunction(Of(report.weekPivot[n]))
      /\ DOMAIN report.weekTotals = Floors!PeriodWeeks(from, Floors!WeekOf(to) - Floors!WeekOf(from) + 1)
           => report.weekTarget = report.target
  BY Zenon DEF Floors!OutputAddsUpFor, Floors!Total
<1>10. DOMAIN report.weekTotals = Floors!PeriodWeeks(from, Floors!WeekOf(to) - Floors!WeekOf(from) + 1)
           => report.weekTarget = report.target
  <2> SUFFICES ASSUME W = Floors!PeriodWeeks(from, Floors!WeekOf(to) - Floors!WeekOf(from) + 1)
               PROVE  report.weekTarget = report.target
    BY <1>1 DEF Reads
  <2>1. {d \in D : Floors!WeekOf(d) \in W} = D
    BY <1>8
  <2>2. W = {Floors!WeekOf(e.day) : e \in shown}
    BY DEF Images
  <2>3. {d \in D : Floors!WeekOf(d) \in {Floors!WeekOf(e.day) : e \in shown}} = D
    BY <2>1, <2>2, Zenon
  <2> DEFINE T(d) == IF Floors!WeekdayOf(d) \in targetDays THEN target ELSE 0
  <2>4. /\ report.target = Floors!SumFunction([d \in from .. to |-> T(d)])
        /\ report.weekTarget = Floors!SumFunction(
             [d \in {x \in from .. to : Floors!WeekOf(x) \in {Floors!WeekOf(e.day) : e \in shown}} |-> T(d)])
    BY DEF Floors!DailyOutput, Floors!Total
  <2> HIDE DEF T, report
  <2> QED BY <2>3, <2>4
<1> HIDE DEF report, shown, qty, dept, day, week, Of
<1>2. /\ IsFiniteSet(shown) /\ \A e \in shown : qty[e] \in Int
      /\ report.total = SumFunctionOnSet(qty, shown)
      /\ DOMAIN report.dayTotals = D /\ DOMAIN report.weekTotals = W
      /\ DOMAIN report.pivot = N /\ DOMAIN report.weekPivot = N
      /\ \A d \in D : report.dayTotals[d] = SumFunctionOnSet(qty, Keyed(shown, day, d))
      /\ \A w \in W : report.weekTotals[w] = SumFunctionOnSet(qty, Keyed(shown, week, w))
  BY <1>1 DEF Reads
<1>3. \A n \in N : /\ DOMAIN report.pivot[n] = D /\ DOMAIN report.weekPivot[n] = W
                   /\ \A d \in D : report.pivot[n][d]
                        = SumFunctionOnSet(qty, Keyed(Keyed(shown, dept, n), day, d))
                   /\ \A w \in W : report.weekPivot[n][w]
                        = SumFunctionOnSet(qty, Keyed(Keyed(shown, dept, n), week, w))
  BY <1>1 DEF Reads
<1> HIDE DEF D, W, N
<1>11. Floors!SumFunction(Of(report.dayTotals)) = report.total
  <2> DEFINE h == Of(report.dayTotals)
  <2>1. \A d \in D : h[d] = SumFunctionOnSet(qty, Keyed(shown, day, d))
    BY <1>2, <1>3, <1>7
  <2>2. Floors!SumFunction(h) = SumFunctionOnSet(h, D)
    BY <1>2, <1>7
  <2> HIDE DEF h
  <2>3. SumFunctionOnSet(h, D) = SumFunctionOnSet(qty, shown)
    BY <1>2, <1>5, <1>6, <2>1, SumByKey
  <2> QED BY <1>2, <2>2, <2>3 DEF h
<1>12. Floors!SumFunction(Of(report.weekTotals)) = report.total
  <2> DEFINE h == Of(report.weekTotals)
  <2>1. \A w \in W : h[w] = SumFunctionOnSet(qty, Keyed(shown, week, w))
    BY <1>2, <1>3, <1>7
  <2>2. Floors!SumFunction(h) = SumFunctionOnSet(h, W)
    BY <1>2, <1>7
  <2> HIDE DEF h
  <2>3. SumFunctionOnSet(h, W) = SumFunctionOnSet(qty, shown)
    BY <1>2, <1>5, <1>6, <2>1, SumByKey
  <2> QED BY <1>2, <2>2, <2>3 DEF h
<1>13. ASSUME NEW n \in N
       PROVE  /\ Floors!SumFunction(Of(report.pivot[n])) = SumFunctionOnSet(qty, Keyed(shown, dept, n))
              /\ Floors!SumFunction(Of(report.weekPivot[n])) = SumFunctionOnSet(qty, Keyed(shown, dept, n))
  <2> DEFINE S == Keyed(shown, dept, n)   g == Of(report.pivot[n])   h == Of(report.weekPivot[n])
  <2>1. S \in SUBSET shown
    BY DEF Keyed
  <2>2. IsFiniteSet(S) /\ \A e \in S : qty[e] \in Int /\ day[e] \in D /\ week[e] \in W
    BY <1>2, <1>5, <2>1, FS_Subset
  <2>3. \A d \in D : g[d] = SumFunctionOnSet(qty, Keyed(S, day, d))
    BY <1>2, <1>3, <1>7
  <2>4. \A w \in W : h[w] = SumFunctionOnSet(qty, Keyed(S, week, w))
    BY <1>2, <1>3, <1>7
  <2>5. /\ Floors!SumFunction(g) = SumFunctionOnSet(g, D)
        /\ Floors!SumFunction(h) = SumFunctionOnSet(h, W)
    BY <1>2, <1>3, <1>7
  <2> HIDE DEF S, g, h
  <2>6. SumFunctionOnSet(g, D) = SumFunctionOnSet(qty, S)
    BY <1>6, <2>2, <2>3, SumByKey
  <2>7. SumFunctionOnSet(h, W) = SumFunctionOnSet(qty, S)
    BY <1>6, <2>2, <2>4, SumByKey
  <2> QED BY <2>5, <2>6, <2>7 DEF S, g, h
<1>14. Floors!SumFunction(all) = report.total
  <2>1. \A n \in N : all[n] = SumFunctionOnSet(qty, Keyed(shown, dept, n))
    BY <1>2, <1>13
  <2>2. DOMAIN all = N
    BY <1>2
  <2> HIDE DEF all
  <2>3. SumFunctionOnSet(all, N) = SumFunctionOnSet(qty, shown)
    BY <1>2, <1>5, <1>6, <2>1, SumByKey
  <2>4. Floors!SumFunction(all) = SumFunctionOnSet(all, N)
    BY <2>2, FloorsFigures DEF SumFunction
  <2> QED BY <1>2, <2>3, <2>4
<1> HIDE DEF all
<1>15. \A n \in DOMAIN report.pivot :
         Floors!SumFunction(Of(report.pivot[n])) = Floors!SumFunction(Of(report.weekPivot[n]))
  BY <1>2, <1>13
<1> QED BY <1>9, <1>10, <1>11, <1>12, <1>14, <1>15

-----------------------------------------------------------------------------
(***************************************************************************)
(* The loading bay.                                                        *)
(***************************************************************************)
(* The bay's sums, counts and least days are those above.                  *)
LEMMA BayFigures ==
  /\ \A f : Bay!SumFunction(f) = SumFunctionOnSet(f, DOMAIN f)
  /\ \A S : Bay!Cardinality(S) = Cardinality(S)
<1>1. \A f : Bay!SumFunction(f) = SumFunctionOnSet(f, DOMAIN f)
  BY DEF Bay!SumFunction, Bay!SumFunctionOnSet, Bay!FoldFunctionOnSet, Bay!MapThenFoldSet,
         SumFunctionOnSet, FoldFunctionOnSet, MapThenFoldSet
<1>2. \A S : Bay!Cardinality(S) = Cardinality(S)
  BY DEF Bay!Cardinality, Cardinality
<1> QED BY <1>1, <1>2

(* Orders, releases and jobs as the tables hold them: finitely many, with  *)
(* days and quantities that are numbers and prices that are not negative.  *)
IsBay(all) ==
  /\ IsFiniteSet(all)
  /\ \A o \in all : /\ IsFiniteSet(o.releases) /\ o.held \in BOOLEAN
                    /\ \A r \in o.releases :
                         /\ r.price \in Nat /\ r.staged \in BOOLEAN /\ r.void \in BOOLEAN
                         /\ r.day \in Int \cup {NoDate} /\ IsFiniteSet(r.jobs)
                         /\ \A j \in r.jobs : j.required \in Int /\ j.done \in Int

Worth(orders) == [o \in orders |-> Bay!Invoiceable(o)]

(* A page's value of some of the orders is their part of one sum.          *)
LEMMA BayValue ==
  ASSUME NEW orders, IsBay(orders)
  PROVE  /\ IsFiniteSet(orders)
         /\ \A o \in orders : Worth(orders)[o] \in Nat
         /\ \A P \in SUBSET orders : Bay!ValueOf(P) = SumFunctionOnSet(Worth(orders), P)
<1>1. IsFiniteSet(orders)
  BY DEF IsBay
<1>2. ASSUME NEW o \in orders PROVE Bay!Invoiceable(o) \in Nat
  <2> DEFINE f == [r \in Bay!InBay(o) |-> r.price]
  <2>1. Bay!InBay(o) \in SUBSET o.releases
    BY DEF Bay!InBay
  <2>2. IsFiniteSet(o.releases) /\ \A r \in o.releases : r.price \in Nat
    BY DEF IsBay
  <2>3. IsFiniteSet(Bay!InBay(o)) /\ \A r \in Bay!InBay(o) : f[r] \in Nat
    BY <2>1, <2>2, FS_Subset
  <2>4. Bay!Invoiceable(o) = Bay!SumFunction(f) /\ DOMAIN f = Bay!InBay(o)
    BY DEF Bay!Invoiceable, Bay!Total
  <2> HIDE DEF f
  <2>5. SumFunctionOnSet(f, Bay!InBay(o)) \in Nat
    BY <2>3, SumNat
  <2> QED BY <2>4, <2>5, BayFigures
<1>3. \A o \in orders : Worth(orders)[o] \in Nat
  BY <1>2 DEF Worth
<1>4. ASSUME NEW P \in SUBSET orders PROVE Bay!ValueOf(P) = SumFunctionOnSet(Worth(orders), P)
  <2> DEFINE f == [o \in P |-> Bay!Invoiceable(o)]   g == Worth(orders)
  <2>1. DOMAIN f = P /\ \A o \in P : f[o] \in Int /\ g[o] = f[o]
    BY <1>2 DEF Worth
  <2>2. Bay!ValueOf(P) = Bay!SumFunction(f)
    BY DEF Bay!ValueOf, Bay!Total
  <2>3. IsFiniteSet(P)
    BY <1>1, FS_Subset
  <2> HIDE DEF f, g
  <2>4. SumFunctionOnSet(f, P) = SumFunctionOnSet(g, P)
    BY <2>1, <2>3, SumSame
  <2> QED BY <2>1, <2>2, <2>4, BayFigures DEF g
<1> QED BY <1>1, <1>3, <1>4

(* The first day by which an order ships is one of its days, or none.      *)
LEMMA LeastIn ==
  ASSUME NEW days, IsFiniteSet(days), days \subseteq Int \cup {NoDate}
  PROVE  Bay!EarliestOf(days) = NoDate \/ Bay!EarliestOf(days) \in Int
<1>1. CASE days \subseteq {NoDate}
  BY <1>1 DEF Bay!EarliestOf
<1>2. CASE ~(days \subseteq {NoDate})
  <2> DEFINE S == days \ {NoDate}
  <2>1. S # {} /\ S \subseteq Int /\ IsFiniteSet(S)
    BY <1>2, FS_RemoveElement
  <2>2. Bay!EarliestOf(days) = Bay!Min(S)
    BY <1>2 DEF Bay!EarliestOf
  <2> HIDE DEF S
  <2>3. \E m \in S : \A k \in S : m <= k
    BY <2>1, LeastExists
  <2>4. Bay!Min(S) \in S
    BY <2>3 DEF Bay!Min
  <2> QED BY <2>1, <2>2, <2>4
<1> QED BY <1>1, <1>2

(* Every order has a bar of days and a bar of weeks; what is overdue is so *)
(* in both, and what ships within a week is in the first bars of weeks.    *)
LEMMA BarsOf ==
  ASSUME NEW orders, IsBay(orders), NEW o \in orders
  PROVE  /\ Bay!HorizonBar(o) \in 0 .. 6 /\ Bay!WeekBar(o) \in 0 .. 7
         /\ Bay!HorizonBar(o) = 0 <=> Bay!WeekBar(o) = 0
         /\ Bay!HorizonBar(o) \in 0 .. 3 => Bay!WeekBar(o) \in 0 .. 2
<1> DEFINE d == Bay!ShipBy(o)
<1>1. d = NoDate \/ d \in Int
  <2> DEFINE f == [r \in o.releases |-> r.day]   days == {r.day : r \in o.releases}
  <2>1. days = Images(f, o.releases) /\ days \subseteq Int \cup {NoDate}
    BY DEF IsBay, Images
  <2>2. IsFiniteSet(o.releases)
    BY DEF IsBay
  <2> HIDE DEF f
  <2>3. IsFiniteSet(days)
    BY <2>1, <2>2, ImageFinite
  <2>4. d = Bay!EarliestOf(days)
    BY DEF Bay!ShipBy
  <2> HIDE DEF d, days
  <2> QED BY <2>1, <2>3, <2>4, LeastIn
<1>2. CASE d = NoDate
  BY <1>2 DEF Bay!HorizonBar, Bay!WeekBar
<1>3. CASE d # NoDate
  <2>1. d \in Int
    BY <1>1, <1>3
  <2>2. Bay!HorizonBar(o) = CASE d < 0 -> 0 [] d = 0 -> 1 [] d \in 1 .. 3 -> 2
         [] d \in 4 .. 7 -> 3 [] d \in 8 .. 14 -> 4 [] OTHER -> 5
    BY <1>3 DEF Bay!HorizonBar
  <2>3. Bay!WeekBar(o) = CASE d < 0 -> 0 [] d >= 0 /\ d < Bay!Monday(6) -> Bay!WeekOf(d) + 1 [] OTHER -> 7
    BY <1>3 DEF Bay!WeekBar
  <2> HIDE DEF d
  <2>4. CASE d < 0
    BY <2>1, <2>2, <2>3, <2>4, CalendarAssumption
  <2>5. CASE d >= 0
    <3> DEFINE w == Bay!WeekOf(d)
    <3>1. /\ w \in Int /\ w >= 0 /\ (d < Bay!Monday(6) => w <= 5) /\ Bay!Monday(6) >= 36
          /\ (d <= 7 => w <= 1) /\ Bay!Monday(6) \in Int
      BY <2>1, <2>5, CalendarAssumption DEF Bay!WeekOf, Bay!Monday
    <3>2. Bay!HorizonBar(o) \in 1 .. 5 /\ (Bay!HorizonBar(o) <= 3 => d <= 7)
      BY <2>1, <2>2, <2>5
    <3>3. Bay!WeekBar(o) = IF d < Bay!Monday(6) THEN w + 1 ELSE 7
      BY <2>1, <2>3, <2>5, <3>1
    <3> HIDE DEF w
    <3> QED BY <2>1, <2>5, <3>1, <3>2, <3>3
  <2> QED BY <2>1, <2>4, <2>5
<1> QED BY <1>2, <1>3

(* The groups have every order.                                            *)
LEMMA GroupsOf ==
  ASSUME NEW orders, IsBay(orders)
  PROVE  /\ IsFiniteSet(Bay!BayGroups)
         /\ \A o \in orders :
              /\ Bay!BayGroup(o) \in Bay!BayGroups
              /\ Bay!BayGroup(o) = "ready" <=> Bay!IsReady(o) /\ o.held = FALSE
              /\ Bay!BayGroup(o) = "ready_hold" <=> Bay!IsReady(o) /\ o.held = TRUE
<1>1. IsFiniteSet(Bay!BayGroups)
  <2>1. IsFiniteSet({"ready"})
    BY FS_Singleton
  <2>2. IsFiniteSet({"ready"} \cup {"ready_hold"})
    BY <2>1, FS_AddElement
  <2>3. IsFiniteSet(({"ready"} \cup {"ready_hold"}) \cup {"partial"})
    BY <2>2, FS_AddElement
  <2>4. IsFiniteSet((({"ready"} \cup {"ready_hold"}) \cup {"partial"}) \cup {"partial_hold"})
    BY <2>3, FS_AddElement
  <2>5. Bay!BayGroups = (({"ready"} \cup {"ready_hold"}) \cup {"partial"}) \cup {"partial_hold"}
    BY DEF Bay!BayGroups
  <2> QED BY <2>4, <2>5, Zenon
<1>2. ASSUME NEW o \in orders
      PROVE  /\ Bay!BayGroup(o) \in Bay!BayGroups
             /\ Bay!BayGroup(o) = "ready" <=> Bay!IsReady(o) /\ o.held = FALSE
             /\ Bay!BayGroup(o) = "ready_hold" <=> Bay!IsReady(o) /\ o.held = TRUE
  <2>1. o.held \in BOOLEAN
    BY DEF IsBay
  <2>2. Bay!BayGroup(o) = IF Bay!IsReady(o) THEN IF o.held THEN "ready_hold" ELSE "ready"
                          ELSE IF o.held THEN "partial_hold" ELSE "partial"
    <3>1. CASE Bay!IsReady(o) /\ o.held
      BY <3>1 DEF Bay!BayGroup
    <3>2. CASE Bay!IsReady(o) /\ ~o.held
      BY <3>2 DEF Bay!BayGroup
    <3>3. CASE ~Bay!IsReady(o) /\ o.held
      BY <3>3 DEF Bay!BayGroup
    <3>4. CASE ~Bay!IsReady(o) /\ ~o.held
      BY <3>4 DEF Bay!BayGroup
    <3> QED BY <3>1, <3>2, <3>3, <3>4
  <2> QED BY <2>1, <2>2 DEF Bay!BayGroups
<1> QED BY <1>1, <1>2

(* A table of bars over some of the orders adds up to their value.         *)
LEMMA BarsAddUp ==
  ASSUME NEW orders, IsBay(orders), NEW S \in SUBSET orders, NEW key, NEW n \in Nat,
         \A o \in S : key[o] \in 0 .. n, NEW bars,
         DOMAIN bars = 0 .. n, \A b \in 0 .. n : bars[b] = Bay!ValueOf(Keyed(S, key, b))
  PROVE  Bay!BarSum(bars) = Bay!ValueOf(S)
<1> DEFINE f == Worth(orders)   h == [b \in DOMAIN bars |-> bars[b]]   K == 0 .. n
<1>1. \A P \in SUBSET orders : Bay!ValueOf(P) = SumFunctionOnSet(f, P)
  BY BayValue
<1>2. IsFiniteSet(S) /\ \A o \in S : f[o] \in Int
  BY BayValue, FS_Subset
<1>3. \A b : Keyed(S, key, b) \in SUBSET orders
  BY DEF Keyed
<1>4. Bay!BarSum(bars) = Bay!SumFunction(h) /\ DOMAIN h = K
  BY DEF Bay!BarSum, Bay!Total
<1> HIDE DEF f
<1>5. \A b \in K : h[b] = SumFunctionOnSet(f, Keyed(S, key, b))
  BY <1>1, <1>3
<1>6. IsFiniteSet(K) /\ \A o \in S : key[o] \in K
  BY FS_Interval
<1> HIDE DEF h, K
<1>7. SumFunctionOnSet(h, K) = SumFunctionOnSet(f, S)
  BY <1>2, <1>5, <1>6, SumByKey
<1> QED BY <1>1, <1>4, <1>7, BayFigures

(* The headline figures of the groups add up, whatever the groups.         *)
LEMMA GroupsAddUp ==
  ASSUME NEW orders, IsBay(orders), NEW S \in SUBSET orders, NEW K, IsFiniteSet(K), NEW key,
         \A o \in S : key[o] \in K
  PROVE  /\ Bay!SumFunction([k \in K |-> Bay!ValueOf(Keyed(S, key, k))]) = Bay!ValueOf(S)
         /\ Bay!SumFunction([k \in K |-> Bay!Cardinality(Keyed(S, key, k))]) = Bay!Cardinality(S)
<1> DEFINE f == Worth(orders)
           g == [k \in K |-> Bay!ValueOf(Keyed(S, key, k))]
           h == [k \in K |-> Bay!Cardinality(Keyed(S, key, k))]
<1>1. \A P \in SUBSET orders : Bay!ValueOf(P) = SumFunctionOnSet(f, P)
  BY BayValue
<1>2. IsFiniteSet(S) /\ \A o \in S : f[o] \in Int
  BY BayValue, FS_Subset
<1>3. \A k : Keyed(S, key, k) \in SUBSET orders
  BY DEF Keyed
<1> HIDE DEF f
<1>4. /\ \A k \in K : g[k] = SumFunctionOnSet(f, Keyed(S, key, k))
      /\ \A k \in K : h[k] = Cardinality(Keyed(S, key, k))
      /\ DOMAIN g = K /\ DOMAIN h = K
  BY <1>1, <1>3, BayFigures
<1> HIDE DEF g, h
<1>5. SumFunctionOnSet(g, K) = SumFunctionOnSet(f, S)
  BY <1>2, <1>4, SumByKey
<1>6. SumFunctionOnSet(h, K) = Cardinality(S)
  BY <1>2, <1>4, CountByKey
<1> QED BY <1>1, <1>4, <1>5, <1>6, BayFigures DEF g, h

(* Bars of days and bars of weeks over the same orders.                    *)
BarsOver(S, day, week, days, weeks) ==
  /\ \A o \in S : day[o] = Bay!HorizonBar(o) /\ week[o] = Bay!WeekBar(o)
  /\ \A b \in 0 .. 6 : days[b] = Bay!ValueOf(Keyed(S, day, b))
  /\ \A b \in 0 .. 7 : weeks[b] = Bay!ValueOf(Keyed(S, week, b))

(* The value of the first bars of the days is in the first bars of weeks.  *)
LEMMA FirstBars ==
  ASSUME NEW orders, IsBay(orders), NEW S \in SUBSET orders,
         NEW day, NEW week, NEW days, NEW weeks, BarsOver(S, day, week, days, weeks)
  PROVE  /\ weeks[0] = days[0]
         /\ days[0] + days[1] + days[2] + days[3] <= weeks[0] + weeks[1] + weeks[2]
<1> DEFINE f == Worth(orders)
           F(P) == SumFunctionOnSet(f, P)
           A(b) == Keyed(S, day, b)   B(b) == Keyed(S, week, b)
<1>1. \A P \in SUBSET orders : /\ Bay!ValueOf(P) = F(P) /\ F(P) \in Nat
                               /\ IsFiniteSet(P) /\ \A o \in P : f[o] \in Nat
  <2> SUFFICES ASSUME NEW P \in SUBSET orders
               PROVE  /\ Bay!ValueOf(P) = F(P) /\ F(P) \in Nat
                      /\ IsFiniteSet(P) /\ \A o \in P : f[o] \in Nat
    OBVIOUS
  <2>1. Bay!ValueOf(P) = F(P) /\ IsFiniteSet(P) /\ \A o \in P : f[o] \in Nat
    BY BayValue, FS_Subset
  <2> HIDE DEF f
  <2>2. F(P) \in Nat
    BY <2>1, SumNat
  <2> QED BY <2>1, <2>2
<1>2. A(0) = B(0)
  BY BarsOf DEF Keyed, BarsOver
<1>3. ASSUME NEW P \in SUBSET orders, NEW Q \in SUBSET orders, P \cap Q = {}
      PROVE  F(P \cup Q) = F(P) + F(Q)
  <2>1. IsFiniteSet(P) /\ IsFiniteSet(Q) /\ \A o \in P \cup Q : f[o] \in Int
    BY <1>1
  <2> HIDE DEF f
  <2> QED BY <1>3, <2>1, SumUnion
<1>4. \A P \in SUBSET orders : \A Q \in SUBSET P : F(Q) <= F(P)
  <2> SUFFICES ASSUME NEW P \in SUBSET orders, NEW Q \in SUBSET P PROVE F(Q) <= F(P)
    OBVIOUS
  <2>1. IsFiniteSet(P) /\ \A o \in P : f[o] \in Nat
    BY <1>1
  <2> HIDE DEF f
  <2> QED BY <2>1, SumOfPart
<1>5. \A b : A(b) \in SUBSET orders /\ B(b) \in SUBSET orders
  BY DEF Keyed
<1>6. \A b, c : b # c => A(b) \cap A(c) = {} /\ B(b) \cap B(c) = {}
  BY DEF Keyed
<1> DEFINE a2 == A(0) \cup A(1)  a3 == a2 \cup A(2)  a4 == a3 \cup A(3)
           b2 == B(0) \cup B(1)  b3 == b2 \cup B(2)
<1>7. a4 \in SUBSET b3
  <2> SUFFICES ASSUME NEW o \in a4 PROVE o \in b3
    OBVIOUS
  <2>1. o \in S /\ Bay!HorizonBar(o) \in 0 .. 3
    BY DEF Keyed, BarsOver
  <2>2. Bay!WeekBar(o) \in 0 .. 2
    BY <2>1, BarsOf
  <2>3. Bay!WeekBar(o) = 0 \/ Bay!WeekBar(o) = 1 \/ Bay!WeekBar(o) = 2
    BY <2>2
  <2> QED BY <2>1, <2>3 DEF Keyed, BarsOver
<1>8. /\ days[0] = F(A(0)) /\ days[1] = F(A(1)) /\ days[2] = F(A(2)) /\ days[3] = F(A(3))
      /\ weeks[0] = F(B(0)) /\ weeks[1] = F(B(1)) /\ weeks[2] = F(B(2))
  <2>1. \A b \in 0 .. 6 : days[b] = F(A(b))
    BY <1>1, <1>5 DEF BarsOver
  <2>2. \A b \in 0 .. 7 : weeks[b] = F(B(b))
    BY <1>1, <1>5 DEF BarsOver
  <2> HIDE DEF F, A, B
  <2> QED BY <2>1, <2>2
<1>9. F(A(0)) = F(B(0))
  BY <1>2, Zenon
<1>10. /\ A(0) \cap A(1) = {} /\ a2 \cap A(2) = {} /\ a3 \cap A(3) = {}
       /\ B(0) \cap B(1) = {} /\ b2 \cap B(2) = {}
       /\ a2 \in SUBSET orders /\ a3 \in SUBSET orders /\ a4 \in SUBSET orders
       /\ b2 \in SUBSET orders /\ b3 \in SUBSET orders
  <2> HIDE DEF A, B
  <2>1. A(0) \cap A(1) = {} /\ A(0) \cap A(2) = {} /\ A(1) \cap A(2) = {} /\ A(0) \cap A(3) = {}
        /\ A(1) \cap A(3) = {} /\ A(2) \cap A(3) = {}
        /\ B(0) \cap B(1) = {} /\ B(0) \cap B(2) = {} /\ B(1) \cap B(2) = {}
    BY <1>6
  <2> QED BY <1>5, <2>1
<1> HIDE DEF F, A, B
<1>11. F(a4) = F(a3) + F(A(3)) /\ F(a3) = F(a2) + F(A(2)) /\ F(a2) = F(A(0)) + F(A(1))
       /\ F(b3) = F(b2) + F(B(2)) /\ F(b2) = F(B(0)) + F(B(1))
  <2>1. F(a2) = F(A(0)) + F(A(1)) /\ F(b2) = F(B(0)) + F(B(1))
    BY <1>3, <1>5, <1>10
  <2> HIDE DEF a2, b2
  <2>2. F(a3) = F(a2) + F(A(2)) /\ F(b3) = F(b2) + F(B(2))
    BY <1>3, <1>5, <1>10
  <2> HIDE DEF a3, b3
  <2>3. F(a4) = F(a3) + F(A(3))
    BY <1>3, <1>5, <1>10
  <2> QED BY <2>1, <2>2, <2>3
<1>12. F(a4) <= F(b3)
  BY <1>4, <1>7, <1>10
<1>13. \A b : F(A(b)) \in Int /\ F(B(b)) \in Int
  BY <1>1, <1>5
<1> HIDE DEF a2, a3, a4, b2, b3
<1>14. F(A(0)) + F(A(1)) + F(A(2)) + F(A(3)) <= F(B(0)) + F(B(1)) + F(B(2))
  BY <1>11, <1>12, <1>13
<1> QED BY <1>8, <1>9, <1>14

(* The sum over a function of a part of a set is the part's sum.           *)
LEMMA PartSum ==
  ASSUME NEW S, IsFiniteSet(S), NEW f, \A x \in S : f[x] \in Int, NEW P \in SUBSET S,
         NEW g, DOMAIN g = P, \A x \in P : g[x] = f[x]
  PROVE  IsFiniteSet(P) /\ SumFunctionOnSet(g, DOMAIN g) = SumFunctionOnSet(f, P)
<1>1. IsFiniteSet(P)
  BY FS_Subset
<1> QED BY <1>1, SumSame

ReleasesIn(all) == UNION {o.releases : o \in all}

(* Where no release has two jobs, a release is made when its job is.       *)
LEMMA OneJobMakes ==
  ASSUME NEW r, IsFiniteSet(r.jobs), Cardinality(r.jobs) <= 1,
         \A j \in r.jobs : j.required \in Int /\ j.done \in Int
  PROVE  /\ Bay!FullyMade(r) <=> \E j \in r.jobs : j.required > 0 /\ j.done >= j.required
         /\ \A i, j \in r.jobs : i = j
<1> DEFINE f == [j \in r.jobs |-> j.required]   g == [j \in r.jobs |-> j.done]
<1>1. Bay!Required(r) = SumFunctionOnSet(f, r.jobs) /\ Bay!Done(r) = SumFunctionOnSet(g, r.jobs)
  <2>1. DOMAIN f = r.jobs /\ DOMAIN g = r.jobs
    OBVIOUS
  <2>2. Bay!Required(r) = Bay!SumFunction(f) /\ Bay!Done(r) = Bay!SumFunction(g)
    BY DEF Bay!Required, Bay!Done, Bay!Total
  <2> HIDE DEF f, g
  <2> QED BY <2>1, <2>2, BayFigures
<1>2. Bay!FullyMade(r) <=> Bay!Required(r) > 0 /\ Bay!Done(r) >= Bay!Required(r)
  BY Zenon DEF Bay!FullyMade
<1>3. Cardinality(r.jobs) = 0 \/ Cardinality(r.jobs) = 1
  BY FS_CardinalityType
<1>4. CASE r.jobs = {}
  <2>1. Bay!Required(r) = 0
    <3> HIDE DEF f
    <3> QED BY <1>1, <1>4, SumOfNone
  <2>2. ~Bay!FullyMade(r)
    BY <1>2, <2>1
  <2> QED BY <1>4, <2>2
<1>5. ASSUME NEW j, r.jobs = {j}
      PROVE  /\ Bay!FullyMade(r) <=> \E i \in r.jobs : i.required > 0 /\ i.done >= i.required
             /\ \A i, k \in r.jobs : i = k
  <2>1. j \in r.jobs /\ r.jobs \ {j} = {} /\ f[j] = j.required /\ g[j] = j.done
        /\ j.required \in Int /\ j.done \in Int
    BY <1>5
  <2>2. \A i \in r.jobs : f[i] \in Int /\ g[i] \in Int
    OBVIOUS
  <2> HIDE DEF f, g
  <2>3. SumFunctionOnSet(f, r.jobs) = f[j] + SumFunctionOnSet(f, r.jobs \ {j})
    BY <2>1, <2>2, SumOfRest
  <2>4. SumFunctionOnSet(g, r.jobs) = g[j] + SumFunctionOnSet(g, r.jobs \ {j})
    BY <2>1, <2>2, SumOfRest
  <2>5. SumFunctionOnSet(f, r.jobs \ {j}) = 0 /\ SumFunctionOnSet(g, r.jobs \ {j}) = 0
    BY <2>1, SumOfNone
  <2>6. Bay!Required(r) = j.required /\ Bay!Done(r) = j.done
    BY <1>1, <2>1, <2>3, <2>4, <2>5
  <2> QED BY <1>2, <1>5, <2>6
<1>6. r.jobs = {} \/ \E j : r.jobs = {j}
  BY <1>3, FS_EmptySet, FS_Singleton
<1> QED BY <1>4, <1>5, <1>6

(* What is made of some releases, by price.                                *)
MadeOf(S) == [r \in S |-> Bay!Finished(r)]

(* The bays hold what the report says is finished, and the void lines.     *)
LEMMA BaysHold ==
  ASSUME NEW all, IsBay(all), \A o \in all : \A r \in o.releases : Cardinality(r.jobs) <= 1
  PROVE  Bay!BayBoard(all, TRUE).value
           = Bay!SumFunction(MadeOf(UNION {Bay!InBay(o) : o \in Bay!Reported(all)}))
               + Bay!SumFunction(MadeOf(Bay!VoidInBay(all)))
<1> DEFINE R == ReleasesIn(all)
           staged == {r \in R : r.staged}
           full == {r \in staged : Bay!FullyMade(r)}
           rest == {r \in staged : ~Bay!FullyMade(r)}
           done(j) == j.required > 0 /\ j.done >= j.required
           lines == {row \in Bay!FinishedRows(all) : row.release.staged = TRUE}
           b == [r \in full |-> [release |-> r, job |-> (CHOOSE j \in r.jobs : TRUE).id]]
           f == [row \in lines |-> row.release.price]
           g == MadeOf(staged)
           live == {r \in staged : ~r.void}
           void == {r \in staged : r.void}
<1>1. \A r \in R : /\ r.price \in Nat /\ r.staged \in BOOLEAN /\ IsFiniteSet(r.jobs)
                   /\ Cardinality(r.jobs) <= 1
                   /\ \A j \in r.jobs : j.required \in Int /\ j.done \in Int
  BY DEF IsBay, ReleasesIn
<1>2. \A r \in R : /\ Bay!FullyMade(r) <=> \E j \in r.jobs : done(j)
                   /\ \A i, j \in r.jobs : i = j
  <2> SUFFICES ASSUME NEW r \in R
               PROVE  /\ Bay!FullyMade(r) <=> \E j \in r.jobs : done(j)
                      /\ \A i, j \in r.jobs : i = j
    OBVIOUS
  <2> HIDE DEF R
  <2> QED BY <1>1, OneJobMakes
<1>3. IsFiniteSet(staged) /\ IsFiniteSet(full) /\ IsFiniteSet(rest)
  <2> DEFINE rel == [o \in all |-> o.releases]   sets == {o.releases : o \in all}
  <2>1. sets = Images(rel, all) /\ IsFiniteSet(all)
    BY DEF Images, IsBay
  <2>2. \A T \in sets : IsFiniteSet(T)
    BY DEF IsBay
  <2>3. R = UNION sets
    BY DEF ReleasesIn
  <2> HIDE DEF rel, sets, R
  <2>4. IsFiniteSet(sets)
    BY <2>1, ImageFinite
  <2>5. IsFiniteSet(R)
    BY <2>2, <2>3, <2>4, FS_UNION
  <2>6. staged \in SUBSET R /\ full \in SUBSET R /\ rest \in SUBSET R
    OBVIOUS
  <2> HIDE DEF staged, full, rest
  <2> QED BY <2>5, <2>6, FS_Subset
<1>4. /\ UNION {Bay!InBay(o) : o \in Bay!Reported(all)} = live
      /\ Bay!VoidInBay(all) = void
  <2>1. \A o \in all : Bay!InBay(Bay!Live(o)) = {r \in o.releases : ~r.void /\ r.staged}
    <3> SUFFICES ASSUME NEW o \in all
                 PROVE  Bay!InBay(Bay!Live(o)) = {r \in o.releases : ~r.void /\ r.staged}
      OBVIOUS
    <3>1. Bay!Live(o).releases = {r \in o.releases : ~r.void}
      BY DEF IsBay, Bay!Live
    <3> QED BY <3>1 DEF Bay!InBay
  <2>2. \A p : p \in Bay!Reported(all) <=> /\ \E o \in all : p = Bay!Live(o)
                                          /\ Bay!InBay(p) # {}
    BY DEF Bay!Reported
  <2>3. ASSUME NEW r \in UNION {Bay!InBay(o) : o \in Bay!Reported(all)} PROVE r \in live
    <3>1. PICK o \in all : r \in Bay!InBay(Bay!Live(o))
      BY <2>2, <2>3
    <3> QED BY <2>1, <3>1 DEF ReleasesIn
  <2>4. ASSUME NEW r \in live PROVE r \in UNION {Bay!InBay(o) : o \in Bay!Reported(all)}
    <3>1. PICK o \in all : r \in o.releases
      BY DEF ReleasesIn
    <3>2. r \in Bay!InBay(Bay!Live(o))
      BY <2>1, <3>1
    <3>3. Bay!Live(o) \in Bay!Reported(all)
      BY <2>2, <3>2
    <3> QED BY <3>2, <3>3
  <2>5. Bay!VoidInBay(all) = void
    BY DEF Bay!VoidInBay, Bay!InBay, ReleasesIn
  <2> HIDE DEF live, void
  <2> QED BY <2>3, <2>4, <2>5
<1>5. \A row : row \in lines <=> \E r \in staged : \E j \in r.jobs :
                                  done(j) /\ row = [release |-> r, job |-> j.id]
  <2>1. Bay!FinishedRows(all) = UNION {{[release |-> r, job |-> j.id] : j \in {x \in r.jobs : done(x)}} : r \in R}
    BY Zenon DEF Bay!FinishedRows, ReleasesIn
  <2>2. \A row : row \in Bay!FinishedRows(all) <=> \E r \in R : \E j \in r.jobs :
                                  done(j) /\ row = [release |-> r, job |-> j.id]
    <3> HIDE DEF R, done
    <3> QED BY <2>1
  <2> HIDE DEF done, R
  <2> QED BY <1>1, <2>2
<1>6. \A r \in full : \A j \in r.jobs : b[r] = [release |-> r, job |-> j.id] /\ done(j)
  <2> SUFFICES ASSUME NEW r \in full, NEW j \in r.jobs
               PROVE  b[r] = [release |-> r, job |-> j.id] /\ done(j)
    OBVIOUS
  <2>1. (CHOOSE i \in r.jobs : TRUE) \in r.jobs
    OBVIOUS
  <2> DEFINE c == CHOOSE i \in r.jobs : TRUE
  <2>2. r \in R
    OBVIOUS
  <2>3. b[r] = [release |-> r, job |-> c.id] /\ Bay!FullyMade(r)
    OBVIOUS
  <2> HIDE DEF c, b, full, R, done
  <2>4. c = j
    BY <1>2, <2>1, <2>2 DEF c
  <2>5. done(j)
    BY <1>2, <2>2, <2>3
  <2> QED BY <2>3, <2>4, <2>5
<1>7. \A r \in full : r \in staged /\ r \in R /\ \E j \in r.jobs : done(j)
  BY <1>2
<1>8. Images(b, full) = lines
  <2>1. ASSUME NEW r \in full PROVE b[r] \in lines
    <3> HIDE DEF b, lines, full, staged, done
    <3> QED BY <1>5, <1>6, <1>7
  <2>2. ASSUME NEW row \in lines PROVE \E r \in full : row = b[r]
    <3>1. PICK r \in staged : \E j \in r.jobs : done(j) /\ row = [release |-> r, job |-> j.id]
      <4> HIDE DEF lines, staged, done
      <4> QED BY <1>5
    <3>2. r \in full
      BY <1>2, <3>1
    <3> HIDE DEF b, full
    <3> QED BY <1>6, <3>1, <3>2
  <2> HIDE DEF b, lines, full
  <2> QED BY <2>1, <2>2 DEF Images
<1>9. \A r \in full : f[b[r]] = r.price /\ g[r] = r.price /\ g[r] \in Int
  <2> SUFFICES ASSUME NEW r \in full PROVE f[b[r]] = r.price /\ g[r] = r.price /\ g[r] \in Int
    OBVIOUS
  <2>1. b[r] \in lines
    <3> HIDE DEF b, lines, full
    <3> QED BY <1>8 DEF Images
  <2>2. b[r].release = r
    OBVIOUS
  <2>3. f[b[r]] = r.price
    <3> HIDE DEF b, lines, full
    <3> QED BY <2>1, <2>2
  <2>4. r \in staged /\ Bay!FullyMade(r) /\ r \in R
    OBVIOUS
  <2>5. g[r] = r.price
    <3> HIDE DEF staged
    <3> QED BY <2>4 DEF MadeOf, Bay!Finished
  <2> QED BY <1>1, <2>3, <2>4, <2>5
<1>10. \A x, y \in full : b[x] = b[y] => x = y
  OBVIOUS
<1>11. /\ full \cap rest = {} /\ full \cup rest = staged
       /\ \A r \in rest : g[r] = 0
       /\ \A r \in full \cup rest : g[r] \in Int
  <2>1. /\ full \cap rest = {} /\ full \cup rest = staged
        /\ \A r \in rest : g[r] = 0
    BY DEF MadeOf, Bay!Finished
  <2>2. (\A r \in full : g[r] \in Int) /\ \A r \in rest : g[r] \in Int
    <3> HIDE DEF g, full, rest, f, b
    <3> QED BY <1>9, <2>1
  <2> HIDE DEF g, full, rest
  <2> QED BY <2>1, <2>2
<1>12. /\ Bay!BayBoard(all, TRUE).value = Bay!SumFunction(f) /\ DOMAIN f = lines /\ DOMAIN g = staged
  <2>1. Bay!BayBoard(all, TRUE).value = Bay!SumFunction(f)
    BY DEF Bay!BayBoard, Bay!Total
  <2> HIDE DEF lines, staged
  <2> QED BY <2>1 DEF MadeOf
<1>17. /\ live \cap void = {} /\ live \cup void = staged /\ live \in SUBSET staged /\ void \in SUBSET staged
  OBVIOUS
<1>18. \A S \in SUBSET staged : DOMAIN MadeOf(S) = S /\ \A r \in S : MadeOf(S)[r] = g[r]
  BY DEF MadeOf
<1> HIDE DEF R, staged, full, rest, lines, b, f, g, live, void
<1>13. SumFunctionOnSet(f, lines) = SumFunctionOnSet(g, full)
  <2>1. \A r \in full : g[r] \in Int /\ g[r] = f[b[r]]
    BY <1>9
  <2>2. SumFunctionOnSet(f, Images(b, full)) = SumFunctionOnSet(g, full)
    BY <1>3, <1>10, <2>1, SumOfImages
  <2> QED BY <1>8, <2>2
<1>14. SumFunctionOnSet(g, staged) = SumFunctionOnSet(g, full)
  <2>1. SumFunctionOnSet(g, full \cup rest) = SumFunctionOnSet(g, full) + SumFunctionOnSet(g, rest)
    BY <1>3, <1>11, SumUnion
  <2>2. (SumFunctionOnSet(g, rest) = 0) /\ SumFunctionOnSet(g, full) \in Int
    <3>1. (\A r \in rest : g[r] \in Nat) /\ \A r \in full : g[r] \in Int
      BY <1>9, <1>11
    <3>2. SumFunctionOnSet(g, full) \in Int
      BY <1>3, <3>1, SumInt
    <3> QED BY <1>3, <1>11, <3>1, <3>2, SumNat
  <2>3. SumFunctionOnSet(g, full) + SumFunctionOnSet(g, rest) = SumFunctionOnSet(g, full)
    BY <2>2
  <2> QED BY <1>11, <2>1, <2>3, Zenon
<1>15. SumFunctionOnSet(g, staged) = SumFunctionOnSet(g, live) + SumFunctionOnSet(g, void)
  <2>1. IsFiniteSet(live) /\ IsFiniteSet(void) /\ \A r \in live \cup void : g[r] \in Int
    BY <1>3, <1>11, <1>17, FS_Subset
  <2> QED BY <1>17, <2>1, SumUnion
<1>16. /\ Bay!SumFunction(MadeOf(live)) = SumFunctionOnSet(g, live)
       /\ Bay!SumFunction(MadeOf(void)) = SumFunctionOnSet(g, void)
  <2>1. ASSUME NEW S \in SUBSET staged PROVE Bay!SumFunction(MadeOf(S)) = SumFunctionOnSet(g, S)
    <3>1. \A r \in staged : g[r] \in Int
      BY <1>11
    <3>2. SumFunctionOnSet(MadeOf(S), DOMAIN MadeOf(S)) = SumFunctionOnSet(g, S)
      BY <1>3, <1>18, <3>1, PartSum
    <3> QED BY <3>2, BayFigures
  <2> QED BY <1>17, <2>1
<1>19. Bay!SumFunction(f) = Bay!SumFunction(MadeOf(live)) + Bay!SumFunction(MadeOf(void))
  BY <1>12, <1>13, <1>14, <1>15, <1>16, BayFigures
<1> QED BY <1>4, <1>12, <1>19

(* transport/services.py: the headline figures, the shipping horizon, the  *)
(* loading plan, the customers and the lists of one report never           *)
(* contradict each other, and the bays hold what can be invoiced.          *)
THEOREM BayViewsAgree ==
  ASSUME NEW all, IsBay(all)
  PROVE  Bay!BayViewsAgreeFor(all)
<1> DEFINE orders == Bay!Reported(all)
           G == Bay!BayGroups
           C == Bay!Customers(orders)
           V(P) == Bay!ValueOf(P)
           kpi == Bay!Kpis(orders)   horizon == Bay!ShippingHorizon(orders)
           weekly == Bay!WeeklyLoading(orders)   shown == Bay!CustomerTable(orders)
           In(g) == Bay!InGroup(orders, g)
           grp == [o \in orders |-> Bay!BayGroup(o)]   cust == [o \in orders |-> o.customer]
           day == [o \in orders |-> Bay!HorizonBar(o)]   week == [o \in orders |-> Bay!WeekBar(o)]
           Held(h) == {o \in orders : Bay!IsReady(o) /\ o.held = h}
           OnDay(h, b) == {o \in orders : Bay!IsReady(o) /\ o.held = h /\ Bay!HorizonBar(o) = b}
           InWeek(g, b) == {o \in orders : Bay!BayGroup(o) = g /\ Bay!WeekBar(o) = b}
           Mine(c, g) == Bay!InGroup({o \in orders : o.customer = c}, g)
<1>1. \A p \in orders : \E o \in all : p = Bay!Live(o)
  BY DEF Bay!Reported
<1>2. IsBay(orders)
  <2> DEFINE lives == {Bay!Live(o) : o \in all}   f == [o \in all |-> Bay!Live(o)]
  <2>1. orders \in SUBSET lives /\ lives = Images(f, all)
    BY DEF Bay!Reported, Images
  <2>2. IsFiniteSet(all)
    BY DEF IsBay
  <2>3. IsFiniteSet(orders)
    <3> HIDE DEF orders, lives, f
    <3> QED BY <2>1, <2>2, ImageFinite, FS_Subset
  <2>4. ASSUME NEW o \in all
        PROVE  /\ Bay!Live(o).releases \in SUBSET o.releases /\ Bay!Live(o).held = o.held
               /\ IsFiniteSet(Bay!Live(o).releases)
    <3>1. Bay!Live(o).releases \in SUBSET o.releases /\ Bay!Live(o).held = o.held
      BY DEF Bay!Live, IsBay
    <3> QED BY <3>1, FS_Subset DEF IsBay
  <2> HIDE DEF orders
  <2>5. ASSUME NEW p \in orders
        PROVE  /\ IsFiniteSet(p.releases) /\ p.held \in BOOLEAN
               /\ \A r \in p.releases :
                    /\ r.price \in Nat /\ r.staged \in BOOLEAN /\ r.void \in BOOLEAN
                    /\ r.day \in Int \cup {NoDate} /\ IsFiniteSet(r.jobs)
                    /\ \A j \in r.jobs : j.required \in Int /\ j.done \in Int
    <3>1. PICK o \in all : p = Bay!Live(o)
      BY <1>1
    <3>2. /\ p.releases \in SUBSET o.releases /\ p.held = o.held /\ IsFiniteSet(p.releases)
      BY <2>4, <3>1
    <3> QED BY <3>2 DEF IsBay
  <2> QED BY <2>3, <2>5 DEF IsBay
<1>3. /\ kpi.total = V(orders)
      /\ kpi.value = [g \in G |-> V(In(g))]
      /\ kpi.count = [g \in G |-> Bay!Cardinality(In(g))]
      /\ \A h \in BOOLEAN : horizon[h] = [b \in 0 .. 6 |-> V(OnDay(h, b))]
      /\ \A g \in G : weekly[g] = [b \in 0 .. 7 |-> V(InWeek(g, b))]
      /\ DOMAIN shown = C
      /\ \A c \in C : shown[c].group = [g \in G |-> V(Mine(c, g))]
      /\ \A g \in G : Bay!Kpis(Bay!Filtered(orders, g)).total = V(In(g))
  BY DEF Bay!Kpis, Bay!ShippingHorizon, Bay!WeeklyLoading, Bay!CustomerTable, Bay!Filtered, Bay!BayGroups
<1>4. /\ \A g : In(g) = Keyed(orders, grp, g) /\ In(g) \in SUBSET orders
      /\ \A g, c : Mine(c, g) = Keyed(In(g), cust, c)
      /\ \A h, b : OnDay(h, b) = Keyed(Held(h), day, b)
      /\ \A g, b : InWeek(g, b) = Keyed(In(g), week, b)
      /\ \A h : Held(h) \in SUBSET orders
  BY DEF Bay!InGroup, Keyed
<1>5. In("ready") = Held(FALSE) /\ In("ready_hold") = Held(TRUE)
  <2>1. \A o \in orders : /\ Bay!BayGroup(o) = "ready" <=> Bay!IsReady(o) /\ o.held = FALSE
                          /\ Bay!BayGroup(o) = "ready_hold" <=> Bay!IsReady(o) /\ o.held = TRUE
    <3> HIDE DEF orders
    <3> QED BY <1>2, GroupsOf
  <2> HIDE DEF orders
  <2> QED BY <2>1 DEF Bay!InGroup
<1>6. /\ IsFiniteSet(orders) /\ IsFiniteSet(G) /\ IsFiniteSet(C)
      /\ "ready" \in G /\ "ready_hold" \in G
      /\ \A o \in orders : /\ grp[o] \in G /\ cust[o] \in C
                           /\ day[o] \in 0 .. 6 /\ week[o] \in 0 .. 7
  <2>1. IsFiniteSet(orders) /\ IsFiniteSet(G) /\ \A o \in orders : Bay!BayGroup(o) \in G
    <3> HIDE DEF orders
    <3> QED BY <1>2, GroupsOf DEF IsBay
  <2>2. \A o \in orders : Bay!HorizonBar(o) \in 0 .. 6 /\ Bay!WeekBar(o) \in 0 .. 7
    <3> HIDE DEF orders
    <3> QED BY <1>2, BarsOf
  <2>3. C = Images(cust, orders)
    BY DEF Bay!Customers, Images
  <2>4. IsFiniteSet(C)
    <3> HIDE DEF orders, C, cust
    <3> QED BY <2>1, <2>3, ImageFinite
  <2>5. "ready" \in G /\ "ready_hold" \in G
    BY DEF Bay!BayGroups
  <2> HIDE DEF orders, C, G
  <2> QED BY <2>1, <2>2, <2>3, <2>4, <2>5 DEF Images
<1>7. ASSUME NEW o \in orders, Bay!IsReady(o) PROVE Bay!UnitsReady(o) = Bay!Total(o.releases, Bay!Done)
  <2> DEFINE R == {r \in o.releases : Bay!ReleaseStatus(r) = "finished"}
  <2>1. R = o.releases
    BY <1>7 DEF Bay!IsReady
  <2>2. Bay!UnitsReady(o) = Bay!SumFunction([r \in R |-> Bay!Done(r)])
    BY DEF Bay!UnitsReady, Bay!Total
  <2>3. Bay!Total(o.releases, Bay!Done) = Bay!SumFunction([r \in o.releases |-> Bay!Done(r)])
    BY DEF Bay!Total
  <2> HIDE DEF R
  <2> QED BY <2>1, <2>2, <2>3
<1>8. Bay!BayViewsAgreeFor(all) <=>
        /\ kpi.total = Bay!SumFunction([g \in G |-> kpi.value[g]])
        /\ Bay!Cardinality(orders) = Bay!SumFunction([g \in G |-> kpi.count[g]])
        /\ Bay!BarSum(horizon[FALSE]) = kpi.value["ready"]
        /\ Bay!BarSum(horizon[TRUE]) = kpi.value["ready_hold"]
        /\ \A g \in G :
             /\ Bay!BarSum(weekly[g]) = kpi.value[g]
             /\ Bay!SumFunction([c \in DOMAIN shown |-> shown[c].group[g]]) = kpi.value[g]
             /\ Bay!Kpis(Bay!Filtered(orders, g)).total = kpi.value[g]
        /\ weekly["ready"][0] = horizon[FALSE][0]
        /\ horizon[FALSE][0] + horizon[FALSE][1] + horizon[FALSE][2] + horizon[FALSE][3]
             <= weekly["ready"][0] + weekly["ready"][1] + weekly["ready"][2]
        /\ \A o \in orders : Bay!IsReady(o) => Bay!UnitsReady(o) = Bay!Total(o.releases, Bay!Done)
        /\ (\A o \in all : \A r \in o.releases : Bay!Cardinality(r.jobs) <= 1) =>
             Bay!BayBoard(all, TRUE).value
               = Bay!SumFunction(MadeOf(UNION {Bay!InBay(o) : o \in orders}))
                   + Bay!SumFunction(MadeOf(Bay!VoidInBay(all)))
  BY Zenon DEF Bay!BayViewsAgreeFor, Bay!Total, MadeOf
<1>9. (\A o \in all : \A r \in o.releases : Bay!Cardinality(r.jobs) <= 1) =>
             Bay!BayBoard(all, TRUE).value
               = Bay!SumFunction(MadeOf(UNION {Bay!InBay(o) : o \in orders}))
                   + Bay!SumFunction(MadeOf(Bay!VoidInBay(all)))
  BY BaysHold, BayFigures
<1> HIDE DEF orders, G, C, V, kpi, horizon, weekly, shown, In, grp, cust, day, week, Held, OnDay, InWeek, Mine
<1>10. /\ kpi.total = Bay!SumFunction([g \in G |-> kpi.value[g]])
       /\ Bay!Cardinality(orders) = Bay!SumFunction([g \in G |-> kpi.count[g]])
  <2>1. /\ [g \in G |-> kpi.value[g]] = [g \in G |-> V(Keyed(orders, grp, g))]
        /\ [g \in G |-> kpi.count[g]] = [g \in G |-> Bay!Cardinality(Keyed(orders, grp, g))]
    BY <1>3, <1>4
  <2>2. /\ Bay!SumFunction([g \in G |-> V(Keyed(orders, grp, g))]) = V(orders)
        /\ Bay!SumFunction([g \in G |-> Bay!Cardinality(Keyed(orders, grp, g))]) = Bay!Cardinality(orders)
    BY <1>2, <1>6, GroupsAddUp DEF V
  <2> QED BY <1>3, <2>1, <2>2
<1>18. \A h \in BOOLEAN : horizon[h] = [b \in 0 .. 6 |-> V(OnDay(h, b))]
  BY <1>3, Zenon
<1>19. \A g \in G : weekly[g] = [b \in 0 .. 7 |-> V(InWeek(g, b))]
  BY <1>3, Zenon
<1>20. DOMAIN shown = C /\ \A c \in C : shown[c].group = [g \in G |-> V(Mine(c, g))]
  BY <1>3, Zenon
<1>21. \A h, b : OnDay(h, b) = Keyed(Held(h), day, b)
  BY <1>4, Zenon
<1>22. \A g, b : InWeek(g, b) = Keyed(In(g), week, b)
  BY <1>4, Zenon
<1>11. ASSUME NEW h \in BOOLEAN PROVE Bay!BarSum(horizon[h]) = V(Held(h))
  <2> DEFINE S == Held(h)   bars == horizon[h]
  <2>1. DOMAIN bars = 0 .. 6 /\ \A b \in 0 .. 6 : bars[b] = V(Keyed(S, day, b))
    BY <1>18, <1>21
  <2>2. S \in SUBSET orders /\ \A o \in S : day[o] \in 0 .. 6
    BY <1>4, <1>6
  <2> HIDE DEF S, bars
  <2>3. Bay!BarSum(bars) = Bay!ValueOf(S)
    BY <1>2, <2>1, <2>2, BarsAddUp, ZenonT(60) DEF V
  <2> QED BY <2>3 DEF S, bars, V
<1>12. ASSUME NEW g \in G PROVE Bay!BarSum(weekly[g]) = V(In(g))
  <2> DEFINE S == In(g)   bars == weekly[g]
  <2>1. DOMAIN bars = 0 .. 7 /\ \A b \in 0 .. 7 : bars[b] = V(Keyed(S, week, b))
    BY <1>19, <1>22
  <2>2. S \in SUBSET orders /\ \A o \in S : week[o] \in 0 .. 7
    BY <1>4, <1>6
  <2> HIDE DEF S, bars
  <2>3. Bay!BarSum(bars) = Bay!ValueOf(S)
    BY <1>2, <2>1, <2>2, BarsAddUp, ZenonT(60) DEF V
  <2> QED BY <2>3 DEF S, bars, V
<1>13. ASSUME NEW g \in G
       PROVE  Bay!SumFunction([c \in DOMAIN shown |-> shown[c].group[g]]) = V(In(g))
  <2> DEFINE S == In(g)
  <2>1. [c \in DOMAIN shown |-> shown[c].group[g]] = [c \in C |-> V(Keyed(S, cust, c))]
    <3>1. \A c : Mine(c, g) = Keyed(S, cust, c)
      BY <1>4, Zenon
    <3> HIDE DEF S
    <3>2. \A c \in C : (shown[c].group)[g] = V(Mine(c, g))
      BY <1>20
    <3>3. \A c \in C : (shown[c].group)[g] = V(Keyed(S, cust, c))
      BY <3>1, <3>2
    <3> QED BY <1>20, <3>3
  <2>2. S \in SUBSET orders /\ \A o \in S : cust[o] \in C
    BY <1>4, <1>6
  <2> HIDE DEF S
  <2>3. Bay!SumFunction([c \in C |-> V(Keyed(S, cust, c))]) = V(S)
    BY <1>2, <1>6, <2>2, GroupsAddUp DEF V
  <2> QED BY <2>1, <2>3 DEF S
<1>14. /\ weekly["ready"][0] = horizon[FALSE][0]
       /\ horizon[FALSE][0] + horizon[FALSE][1] + horizon[FALSE][2] + horizon[FALSE][3]
            <= weekly["ready"][0] + weekly["ready"][1] + weekly["ready"][2]
  <2> DEFINE S == In("ready")   d == horizon[FALSE]   w == weekly["ready"]
  <2>1. S \in SUBSET orders /\ S = Held(FALSE)
    BY <1>4, <1>5
  <2>2. \A b \in 0 .. 6 : d[b] = V(Keyed(S, day, b))
    BY <1>18, <1>21, <2>1
  <2>3. \A b \in 0 .. 7 : w[b] = V(Keyed(S, week, b))
    BY <1>6, <1>19, <1>22
  <2>4. \A o \in S : day[o] = Bay!HorizonBar(o) /\ week[o] = Bay!WeekBar(o)
    <3> HIDE DEF S
    <3> QED BY <2>1 DEF day, week
  <2> HIDE DEF S, d, w
  <2>5. w[0] = d[0] /\ d[0] + d[1] + d[2] + d[3] <= w[0] + w[1] + w[2]
    <3>1. BarsOver(S, day, week, d, w)
      BY <2>2, <2>3, <2>4 DEF BarsOver, V
    <3> QED BY <1>2, <2>1, <3>1, FirstBars
  <2> QED BY <2>5 DEF d, w
<1>15. /\ kpi.value["ready"] = V(Held(FALSE)) /\ kpi.value["ready_hold"] = V(Held(TRUE))
       /\ \A g \in G : kpi.value[g] = V(In(g))
  BY <1>3, <1>5, <1>6
<1>16. /\ Bay!BarSum(horizon[FALSE]) = kpi.value["ready"]
       /\ Bay!BarSum(horizon[TRUE]) = kpi.value["ready_hold"]
       /\ \A g \in G :
             /\ Bay!BarSum(weekly[g]) = kpi.value[g]
             /\ Bay!SumFunction([c \in DOMAIN shown |-> shown[c].group[g]]) = kpi.value[g]
             /\ Bay!Kpis(Bay!Filtered(orders, g)).total = kpi.value[g]
  BY <1>3, <1>11, <1>12, <1>13, <1>15
<1>17. \A o \in orders : Bay!IsReady(o) => Bay!UnitsReady(o) = Bay!Total(o.releases, Bay!Done)
  BY <1>7
<1> QED BY <1>8, <1>9, <1>10, <1>14, <1>16, <1>17

-----------------------------------------------------------------------------
(***************************************************************************)
(* The months of a model's sales.                                          *)
(***************************************************************************)
(* The sales pages' sums and counts are the sums and counts above.         *)
LEMMA SalesFigures ==
  /\ \A f : Sales!SumFunction(f) = SumFunctionOnSet(f, DOMAIN f)
  /\ \A S : Sales!Cardinality(S) = Cardinality(S)
<1>1. \A f : Sales!SumFunction(f) = SumFunctionOnSet(f, DOMAIN f)
  BY DEF Sales!SumFunction, Sales!SumFunctionOnSet, Sales!FoldFunctionOnSet, Sales!MapThenFoldSet,
         SumFunctionOnSet, FoldFunctionOnSet, MapThenFoldSet
<1>2. \A S : Sales!Cardinality(S) = Cardinality(S)
  BY DEF Sales!Cardinality, Cardinality
<1> QED BY <1>1, <1>2

(* A sum of equal terms.                                                   *)
LEMMA SumOfEqual ==
  ASSUME NEW n \in Nat, NEW c \in Int, NEW f, \A i \in 1 .. n : f[i] = c
  PROVE  SumFunctionOnSet(f, 1 .. n) = n * c
<1> DEFINE F(k) == SumFunctionOnSet(f, 1 .. k)
           Good == {k \in Nat : k <= n => F(k) = k * c}
<1>1. 0 \in Good
  <2>1. 1 .. 0 = {}
    OBVIOUS
  <2>2. F(0) = 0
    BY <2>1, SumOfNone
  <2> HIDE DEF F
  <2> QED BY <2>2
<1>2. ASSUME NEW k \in Nat, k \in Good PROVE k + 1 \in Good
  <2> SUFFICES ASSUME k + 1 <= n PROVE F(k + 1) = (k + 1) * c
    OBVIOUS
  <2>1. F(k) = k * c
    BY <1>2
  <2>2. /\ IsFiniteSet(1 .. k + 1) /\ k + 1 \in 1 .. k + 1 /\ (1 .. k + 1) \ {k + 1} = 1 .. k
        /\ f[k + 1] = c /\ \A i \in 1 .. k + 1 : f[i] \in Int
    <3>1. /\ 1 \in Int /\ k + 1 \in Int
          /\ k + 1 \in 1 .. k + 1 /\ (1 .. k + 1) \ {k + 1} = 1 .. k
      OBVIOUS
    <3>2. \A i \in 1 .. k + 1 : i \in 1 .. n
      OBVIOUS
    <3> QED BY <3>1, <3>2, FS_Interval
  <2>3. SumFunctionOnSet(f, 1 .. k + 1) = f[k + 1] + SumFunctionOnSet(f, (1 .. k + 1) \ {k + 1})
    <3> DEFINE D == 1 .. k + 1   m == k + 1
    <3>1. IsFiniteSet(D) /\ m \in D /\ \A i \in D : f[i] \in Int
      BY <2>2
    <3> HIDE DEF D, m
    <3>2. SumFunctionOnSet(f, D) = f[m] + SumFunctionOnSet(f, D \ {m})
      BY <3>1, SumOfRest
    <3> QED BY <3>2 DEF D, m
  <2>4. F(k + 1) = c + F(k)
    BY <2>2, <2>3
  <2>5. c + k * c = (k + 1) * c
    BY Z3
  <2> HIDE DEF F
  <2> QED BY <2>1, <2>4, <2>5
<1>3. \A k \in Nat : k \in Good
  <2> HIDE DEF Good
  <2> QED BY <1>1, <1>2, StepByStep
<1> QED BY <1>3

(* Months of sales: values that are not negative.                          *)
IsMonths(months) ==
  /\ Len(months) \in Nat
  /\ \A i \in 1 .. Len(months) : months[i].value \in Nat /\ months[i].units \in Int

(* The two spans of a trend are the last months and as many before them.   *)
LEMMA SpansAre ==
  ASSUME NEW n \in Nat, n >= 2
  PROVE  LET span == Sales!TrendSpan(n) IN
         span \in {1, 2, 3} /\ n >= 2 * span
<1>1. CASE n >= 6
  BY <1>1 DEF Sales!TrendSpan
<1>2. CASE n = 2 \/ n = 3 \/ n = 4 \/ n = 5
  <2>1. n \div 2 = IF n <= 3 THEN 1 ELSE 2
    BY <1>2
  <2> QED BY <1>2, <2>1 DEF Sales!TrendSpan
<1> QED BY <1>1, <1>2

(* What the two spans come to, month by month.                             *)
LEMMA SpansCompare ==
  ASSUME NEW months, IsMonths(months), Len(months) >= 2
  PROVE  LET n == Len(months)   span == Sales!TrendSpan(n)
             recent == Sales!SumOver(months, n - span + 1, n)
             prior == Sales!SumOver(months, n - 2 * span + 1, n - span) IN
         /\ recent \in Nat /\ prior \in Nat
         /\ (\A i \in 1 .. n - 1 : months[i + 1].value <= months[i].value) => recent <= prior
         /\ (\A i \in 1 .. n - 1 : months[i + 1].value >= months[i].value) => recent >= prior
<1> DEFINE n == Len(months)   span == Sales!TrendSpan(n)
           A == {i \in 1 .. n : n - span + 1 <= i /\ i <= n}
           B == {i \in 1 .. n : n - 2 * span + 1 <= i /\ i <= n - span}
           f == [i \in A |-> months[i].value]   g == [i \in B |-> months[i].value]
           b == [i \in A |-> i - span]   h == [i \in A |-> months[i - span].value]
           recent == Sales!SumOver(months, n - span + 1, n)
           prior == Sales!SumOver(months, n - 2 * span + 1, n - span)
           v(i) == months[i].value
<1>1. n \in Nat /\ n >= 2 /\ span \in {1, 2, 3} /\ n >= 2 * span
  <2> HIDE DEF span
  <2>1. n \in Nat /\ n >= 2
    BY DEF IsMonths
  <2> HIDE DEF n
  <2> QED BY <2>1, SpansAre DEF span
<1>2. /\ recent = Sales!SumFunction(f) /\ DOMAIN f = A
      /\ prior = Sales!SumFunction(g) /\ DOMAIN g = B
  <2>1. recent = Sales!SumFunction(f) /\ prior = Sales!SumFunction(g)
    BY DEF Sales!SumOver, Sales!Total
  <2> HIDE DEF n, span, A, B
  <2> QED BY <2>1
<1>3. \A i \in 1 .. n : v(i) \in Nat
  BY DEF IsMonths
<1> HIDE DEF n, span, recent, prior
<1>4. IsFiniteSet(A) /\ IsFiniteSet(B)
  <2>1. IsFiniteSet(1 .. n) /\ A \in SUBSET (1 .. n) /\ B \in SUBSET (1 .. n)
    BY <1>1, FS_Interval
  <2> HIDE DEF A, B
  <2> QED BY <2>1, FS_Subset
<1>5. \A i \in A : i \in Int /\ b[i] \in B /\ b[i] = i - span /\ i \in 1 .. n /\ i - span \in 1 .. n
  BY <1>1
<1>6. \A k \in B : k + span \in A /\ b[k + span] = k
  BY <1>1
<1>7. Images(b, A) = B
  <2> HIDE DEF b, A, B
  <2> QED BY <1>5, <1>6 DEF Images
<1>8. \A i, j \in A : b[i] = b[j] => i = j
  <2> HIDE DEF b, A, B
  <2> QED BY <1>1, <1>5
<1>9. \A i \in A : /\ f[i] = v(i) /\ h[i] = v(i - span) /\ g[b[i]] = v(i - span)
                   /\ v(i) \in Nat /\ v(i - span) \in Nat
  <2> SUFFICES ASSUME NEW i \in A
               PROVE  /\ f[i] = v(i) /\ h[i] = v(i - span) /\ g[b[i]] = v(i - span)
                      /\ v(i) \in Nat /\ v(i - span) \in Nat
    OBVIOUS
  <2>1. b[i] \in B /\ b[i] = i - span /\ v(i) \in Nat /\ v(i - span) \in Nat
    BY <1>3, <1>5
  <2> HIDE DEF b, A, B
  <2> QED BY <2>1
<1> HIDE DEF A, B, f, g, h, b
<1>10. SumFunctionOnSet(g, B) = SumFunctionOnSet(h, A)
  <2>1. \A i \in A : h[i] \in Int /\ h[i] = g[b[i]]
    BY <1>9
  <2>2. SumFunctionOnSet(g, Images(b, A)) = SumFunctionOnSet(h, A)
    BY <1>4, <1>8, <2>1, SumOfImages
  <2> QED BY <1>7, <2>2
<1>11. recent = SumFunctionOnSet(f, A) /\ prior = SumFunctionOnSet(h, A)
  BY <1>2, <1>10, SalesFigures
<1>12. recent \in Nat /\ prior \in Nat
  <2>1. \A i \in A : f[i] \in Nat /\ h[i] \in Nat
    BY <1>9
  <2> QED BY <1>4, <1>11, <2>1, SumNat
<1>13. ASSUME \A i \in 1 .. n - 1 : v(i + 1) <= v(i) PROVE recent <= prior
  <2>1. \A i \in A : f[i] \in Int /\ h[i] \in Int /\ f[i] <= h[i]
    <3> SUFFICES ASSUME NEW i \in A PROVE f[i] \in Int /\ h[i] \in Int /\ f[i] <= h[i]
      OBVIOUS
    <3>1. i \in 1 .. n /\ i - span \in 1 .. n /\ i \in Int
      BY <1>5
    <3>2. /\ \A k \in 1 .. n : v(k) \in Nat
          /\ \A k \in 1 .. n : k + 1 \in 1 .. n => v(k + 1) <= v(k)
      BY <1>1, <1>3, <1>13
    <3> HIDE DEF v
    <3>3. CASE span = 1
      <4>1. i - 1 \in 1 .. n /\ (i - 1) + 1 = i
        BY <3>1, <3>3
      <4>2. v((i - 1) + 1) <= v(i - 1)
        BY <3>1, <3>2, <4>1
      <4> QED BY <1>9, <3>3, <4>1, <4>2
    <3>4. CASE span = 2
      <4>1. /\ i - 2 \in 1 .. n /\ (i - 2) + 1 \in 1 .. n /\ ((i - 2) + 1) + 1 = i
        BY <1>1, <3>1, <3>4
      <4>2. v((i - 2) + 1) <= v(i - 2) /\ v(((i - 2) + 1) + 1) <= v((i - 2) + 1)
        BY <3>1, <3>2, <4>1
      <4>3. v(i) <= v((i - 2) + 1) /\ v((i - 2) + 1) \in Int /\ v(i) \in Int /\ v(i - 2) \in Int
        BY <3>1, <3>2, <4>1, <4>2
      <4>4. v(i) <= v(i - 2)
        BY <4>2, <4>3
      <4> QED BY <1>9, <3>4, <4>4
    <3>5. CASE span = 3
      <4>1. /\ i - 3 \in 1 .. n /\ (i - 3) + 1 \in 1 .. n /\ ((i - 3) + 1) + 1 \in 1 .. n
            /\ (((i - 3) + 1) + 1) + 1 = i
        BY <1>1, <3>1, <3>5
      <4>2. v((i - 3) + 1) <= v(i - 3) /\ v(((i - 3) + 1) + 1) <= v((i - 3) + 1)
            /\ v((((i - 3) + 1) + 1) + 1) <= v(((i - 3) + 1) + 1)
        BY <3>1, <3>2, <4>1
      <4>3. /\ v(i) <= v(((i - 3) + 1) + 1) /\ v((i - 3) + 1) \in Int /\ v(((i - 3) + 1) + 1) \in Int
            /\ v(i) \in Int /\ v(i - 3) \in Int
        BY <3>1, <3>2, <4>1, <4>2
      <4>4. v(i) <= v(i - 3)
        BY <4>2, <4>3
      <4> QED BY <1>9, <3>5, <4>4
    <3> QED BY <1>1, <3>3, <3>4, <3>5
  <2> QED BY <1>4, <1>11, <2>1, SumAtMost
<1>14. ASSUME \A i \in 1 .. n - 1 : v(i + 1) >= v(i) PROVE recent >= prior
  <2>1. \A i \in A : h[i] \in Int /\ f[i] \in Int /\ h[i] <= f[i]
    <3> SUFFICES ASSUME NEW i \in A PROVE h[i] \in Int /\ f[i] \in Int /\ h[i] <= f[i]
      OBVIOUS
    <3>1. i \in 1 .. n /\ i - span \in 1 .. n /\ i \in Int
      BY <1>5
    <3>2. /\ \A k \in 1 .. n : v(k) \in Nat
          /\ \A k \in 1 .. n : k + 1 \in 1 .. n => v(k) <= v(k + 1)
      BY <1>1, <1>3, <1>14
    <3> HIDE DEF v
    <3>3. CASE span = 1
      <4>1. i - 1 \in 1 .. n /\ (i - 1) + 1 = i
        BY <3>1, <3>3
      <4>2. v(i - 1) <= v((i - 1) + 1)
        BY <3>1, <3>2, <4>1
      <4> QED BY <1>9, <3>3, <4>1, <4>2
    <3>4. CASE span = 2
      <4>1. /\ i - 2 \in 1 .. n /\ (i - 2) + 1 \in 1 .. n /\ ((i - 2) + 1) + 1 = i
        BY <1>1, <3>1, <3>4
      <4>2. v(i - 2) <= v((i - 2) + 1) /\ v((i - 2) + 1) <= v(((i - 2) + 1) + 1)
        BY <3>1, <3>2, <4>1
      <4>3. v((i - 2) + 1) <= v(i) /\ v((i - 2) + 1) \in Int /\ v(i) \in Int /\ v(i - 2) \in Int
        BY <3>1, <3>2, <4>1, <4>2
      <4>4. v(i - 2) <= v(i)
        BY <4>2, <4>3
      <4> QED BY <1>9, <3>4, <4>4
    <3>5. CASE span = 3
      <4>1. /\ i - 3 \in 1 .. n /\ (i - 3) + 1 \in 1 .. n /\ ((i - 3) + 1) + 1 \in 1 .. n
            /\ (((i - 3) + 1) + 1) + 1 = i
        BY <1>1, <3>1, <3>5
      <4>2. v(i - 3) <= v((i - 3) + 1) /\ v((i - 3) + 1) <= v(((i - 3) + 1) + 1)
            /\ v(((i - 3) + 1) + 1) <= v((((i - 3) + 1) + 1) + 1)
        BY <3>1, <3>2, <4>1
      <4>3. /\ v(((i - 3) + 1) + 1) <= v(i) /\ v((i - 3) + 1) \in Int /\ v(((i - 3) + 1) + 1) \in Int
            /\ v(i) \in Int /\ v(i - 3) \in Int
        BY <3>1, <3>2, <4>1, <4>2
      <4>4. v(i - 3) <= v(i)
        BY <4>2, <4>3
      <4> QED BY <1>9, <3>5, <4>4
    <3> QED BY <1>1, <3>3, <3>4, <3>5
  <2>2. SumFunctionOnSet(h, A) <= SumFunctionOnSet(f, A)
    BY <1>4, <2>1, SumAtMost
  <2> QED BY <1>11, <1>12, <2>2
<1> QED BY <1>12, <1>13, <1>14 DEF n, span, recent, prior

(* Equal months have no spread.                                            *)
LEMMA NoSpread ==
  ASSUME NEW n \in Nat, n > 1, NEW u \in Int
  PROVE  LET sum == n * u   spread == n * (n * (u * u)) - sum * sum IN
         /\ sum \in Int /\ spread = 0
         /\ sum <= 0 <=> ~(u > 0)
         /\ sum > 0 => 100 * spread < 9 * sum * sum
<1> DEFINE sum == n * u
<1>1. sum \in Int
  OBVIOUS
<1>2. n * (n * (u * u)) = sum * sum
  BY Z3
<1>3. u > 0 => sum > 0
  BY Z3
<1>4. u <= 0 => sum <= 0
  BY Z3
<1>5. n * (n * (u * u)) - sum * sum = 0
  <2> DEFINE q == sum * sum
  <2>1. q \in Int /\ q - q = 0
    BY <1>1
  <2> HIDE DEF q, sum
  <2> QED BY <1>2, <2>1 DEF q
<1>6. sum > 0 => 9 * sum * sum > 0
  <2> HIDE DEF sum
  <2>1. ASSUME NEW x \in Int, x > 0 PROVE 9 * x * x > 0
    BY <2>1, Z3
  <2> QED BY <1>1, <2>1
<1>7. u > 0 \/ u <= 0
  OBVIOUS
<1> HIDE DEF sum
<1>8. sum <= 0 <=> ~(u > 0)
  BY <1>1, <1>3, <1>4, <1>7
<1>9. sum > 0 => 100 * (n * (n * (u * u)) - sum * sum) < 9 * sum * sum
  BY <1>5, <1>6
<1> QED BY <1>1, <1>5, <1>8, <1>9 DEF sum

(* sales/orders/services.py, _compute_sales_performance: sales that never  *)
(* rise are not called rising nor falling ones that never fall, and equal  *)
(* months are consistent, however many months there are.                   *)
THEOREM TrendIsFair ==
  ASSUME NEW months, IsMonths(months)
  PROVE  Sales!TrendIsFairFor(months)
<1> DEFINE n == Len(months)   span == Sales!TrendSpan(n)
           recent == Sales!SumOver(months, n - span + 1, n)
           prior == Sales!SumOver(months, n - 2 * span + 1, n - span)
           falls == \A i \in 1 .. n - 1 : months[i + 1].value <= months[i].value
           rises == \A i \in 1 .. n - 1 : months[i + 1].value >= months[i].value
<1>1. n \in Nat
  BY DEF IsMonths
<1>2. Sales!Trend(months) =
        LET before == Sales!SumOver(months, IF n >= 2 * span THEN n - 2 * span + 1 ELSE 1, n - span) IN
        CASE n < 2     -> "none"
          [] n >= 2 /\ before = 0 -> IF recent > 0 THEN "up" ELSE "flat"
          [] OTHER     -> IF 2000 * (recent - before) > 21 * before THEN "up"
                          ELSE IF 2000 * (recent - before) < -21 * before THEN "down" ELSE "flat"
  BY Zenon DEF Sales!Trend
<1>3. CASE n < 2
  <2>1. Sales!Trend(months) = "none"
    <3> HIDE DEF n, span, recent
    <3> QED BY <1>1, <1>2, <1>3
  <2>2. Sales!Trend(months) # "up" /\ Sales!Trend(months) # "down"
    BY <2>1
  <2>3. ~(n > 1)
    BY <1>1, <1>3
  <2> QED BY <2>2, <2>3, Zenon DEF Sales!TrendIsFairFor
<1>4. CASE n >= 2
  <2>1. span \in {1, 2, 3} /\ n >= 2 * span
    <3> HIDE DEF n
    <3> QED BY <1>1, <1>4, SpansAre
  <2>2. /\ recent \in Nat /\ prior \in Nat
        /\ falls => recent <= prior
        /\ rises => recent >= prior
    BY <1>4, SpansCompare
  <2>3. Sales!Trend(months) = IF prior = 0 THEN IF recent > 0 THEN "up" ELSE "flat"
          ELSE IF 2000 * (recent - prior) > 21 * prior THEN "up"
               ELSE IF 2000 * (recent - prior) < -21 * prior THEN "down" ELSE "flat"
    <3> DEFINE before == Sales!SumOver(months, IF n >= 2 * span THEN n - 2 * span + 1 ELSE 1, n - span)
    <3>1. before = prior
      <4> HIDE DEF n, span
      <4> QED BY <2>1
    <3>2. ~(n < 2)
      BY <1>1, <1>4
    <3>3. Sales!Trend(months) = IF before = 0 THEN IF recent > 0 THEN "up" ELSE "flat"
            ELSE IF 2000 * (recent - before) > 21 * before THEN "up"
                 ELSE IF 2000 * (recent - before) < -21 * before THEN "down" ELSE "flat"
      <4> HIDE DEF n, span, recent
      <4> QED BY <1>2, <1>4, <3>2
    <3> HIDE DEF before
    <3> QED BY <3>1, <3>3
  <2>4. (falls => Sales!Trend(months) # "up") /\ (rises => Sales!Trend(months) # "down")
    <3> HIDE DEF falls, rises, recent, prior
    <3> QED BY <2>2, <2>3
  <2>5. ASSUME \A i \in 1 .. n - 1 : months[i + 1] = months[i]
        PROVE  Sales!Consistency(months)
                 = IF months[1].units > 0 THEN "Consistent" ELSE "No recent demand"
    <3> DEFINE u == months[1].units
               f == [i \in 1 .. n |-> months[i].units]
               g == [i \in 1 .. n |-> months[i].units * months[i].units]
               sum == Sales!SumFunction(f)
               spread == n * Sales!SumFunction(g) - sum * sum
               Good == {k \in Nat : k + 1 <= n => months[k + 1] = months[1]}
    <3>1. \A k \in Nat : k \in Good
      <4>1. 0 \in Good
        OBVIOUS
      <4>2. ASSUME NEW k \in Nat, k \in Good PROVE k + 1 \in Good
        <5> HIDE DEF n
        <5> QED BY <1>1, <2>5, <4>2
      <4> HIDE DEF Good
      <4> QED BY <4>1, <4>2, StepByStep
    <3>2. \A i \in 1 .. n : months[i] = months[1]
      <4> SUFFICES ASSUME NEW i \in 1 .. n PROVE months[i] = months[1]
        OBVIOUS
      <4> HIDE DEF n
      <4>1. i - 1 \in Nat /\ (i - 1) + 1 = i /\ i <= n
        BY <1>1
      <4>2. i - 1 \in Good
        BY <3>1, <4>1
      <4> QED BY <4>1, <4>2
    <3>3. u \in Int
      BY <1>4 DEF IsMonths
    <3>4. /\ DOMAIN f = 1 .. n /\ DOMAIN g = 1 .. n
          /\ \A i \in 1 .. n : f[i] = u /\ g[i] = u * u
      BY <3>2
    <3>5. u * u \in Int
      BY <3>3
    <3> DEFINE s == u * u
    <3> HIDE DEF u, f, g, n, s, Good
    <3>6. SumFunctionOnSet(f, 1 .. n) = n * u /\ SumFunctionOnSet(g, 1 .. n) = n * s
      BY <1>1, <3>3, <3>4, <3>5, SumOfEqual DEF s
    <3>7. Sales!SumFunction(f) = n * u /\ Sales!SumFunction(g) = n * (u * u)
      BY <3>4, <3>6, SalesFigures DEF s
    <3>8. /\ sum \in Int /\ spread = 0 /\ (sum <= 0 <=> ~(u > 0))
          /\ sum > 0 => 100 * spread < 9 * sum * sum
      <4>1. n > 1
        BY <1>1, <1>4
      <4>2. sum = n * u /\ spread = n * (n * (u * u)) - (n * u) * (n * u)
        BY <3>7
      <4> HIDE DEF sum, spread
      <4> QED BY <1>1, <3>3, <4>1, <4>2, NoSpread
    <3>9. Sales!Consistency(months) = CASE n < 2 -> "none"
            [] n >= 2 /\ sum <= 0 -> "No recent demand"
            [] OTHER -> IF 100 * spread < 9 * sum * sum THEN "Consistent"
                        ELSE IF 100 * spread < 36 * sum * sum THEN "Seasonal" ELSE "Highly Variable"
      BY Zenon DEF Sales!Consistency, Sales!Total, n, f, g
    <3>10. ~(n < 2)
      BY <1>1, <1>4
    <3>11. Sales!Consistency(months) = IF sum <= 0 THEN "No recent demand"
             ELSE IF 100 * spread < 9 * sum * sum THEN "Consistent"
                  ELSE IF 100 * spread < 36 * sum * sum THEN "Seasonal" ELSE "Highly Variable"
      <4> HIDE DEF sum, spread
      <4> QED BY <1>4, <3>9, <3>10
    <3> HIDE DEF sum, spread
    <3>12. sum <= 0 \/ sum > 0
      BY <3>8
    <3>13. Sales!Consistency(months) = IF u > 0 THEN "Consistent" ELSE "No recent demand"
      BY <3>8, <3>11, <3>12
    <3> QED BY <3>13 DEF u
  <2> QED BY <2>4, <2>5, Zenon DEF Sales!TrendIsFairFor
<1> QED BY <1>1, <1>3, <1>4

-----------------------------------------------------------------------------
(***************************************************************************)
(* The purchasing pages.                                                   *)
(***************************************************************************)
(* The purchasing pages' sums and counts are those above.                  *)
LEMMA BuyingFigures ==
  /\ \A f : Buying!SumFunction(f) = SumFunctionOnSet(f, DOMAIN f)
  /\ \A S : Buying!Cardinality(S) = Cardinality(S)
<1>1. \A f : Buying!SumFunction(f) = SumFunctionOnSet(f, DOMAIN f)
  BY DEF Buying!SumFunction, Buying!SumFunctionOnSet, Buying!FoldFunctionOnSet, Buying!MapThenFoldSet,
         SumFunctionOnSet, FoldFunctionOnSet, MapThenFoldSet
<1>2. \A S : Buying!Cardinality(S) = Cardinality(S)
  BY DEF Buying!Cardinality, Cardinality
<1> QED BY <1>1, <1>2

(* A purchase order or an order falls in the one week of its key.          *)
LEMMA WeekKeyIs ==
  ASSUME NEW d \in Int
  PROVE  /\ Buying!WeekKey(d) \in Int
         /\ \A k : Buying!InWeek(d, k) <=> Buying!WeekKey(d) = k
         /\ \A days : d \in days => Buying!WeekKey(d) \in Buying!WeekKeys(days)
<1>1. Buying!OverdueWeek = -1 /\ Buying!Monday(0) \in Int /\ Buying!WeekOf(d) \in Int
      /\ (d >= Buying!Monday(0) => Buying!WeekOf(d) >= 0)
  BY CalendarAssumption DEF Buying!OverdueWeek, Buying!Monday, Buying!WeekOf
<1>2. CASE d < Buying!Monday(0)
  BY <1>1, <1>2 DEF Buying!WeekKey, Buying!InWeek, Buying!WeekKeys
<1>3. CASE d >= Buying!Monday(0)
  <2>1. Buying!WeekKey(d) = Buying!WeekOf(d) /\ Buying!WeekKey(d) # Buying!OverdueWeek
    BY <1>1, <1>3 DEF Buying!WeekKey
  <2>2. \A k : Buying!InWeek(d, k) <=> Buying!WeekKey(d) = k
    BY <1>1, <1>3, <2>1 DEF Buying!InWeek
  <2>3. ASSUME NEW days, d \in days PROVE Buying!WeekKey(d) \in Buying!WeekKeys(days)
    BY <1>3, <2>1, <2>3 DEF Buying!WeekKeys
  <2> QED BY <1>1, <2>1, <2>2, <2>3
<1> QED BY <1>1, <1>2, <1>3

LEMMA WeekKeysFinite ==
  ASSUME NEW days, IsFiniteSet(days)
  PROVE  IsFiniteSet(Buying!WeekKeys(days)) /\ Buying!OverdueWeek \in Buying!WeekKeys(days)
<1> DEFINE S == {x \in days : x >= Buying!Monday(0)}   f == [x \in S |-> Buying!WeekOf(x)]
<1>1. IsFiniteSet(S)
  BY FS_Subset
<1>2. {Buying!WeekOf(d) : d \in S} = Images(f, S)
  BY DEF Images
<1> HIDE DEF f
<1>3. IsFiniteSet(Images(f, S))
  BY <1>1, ImageFinite
<1>4. IsFiniteSet(Images(f, S) \cup {Buying!OverdueWeek})
  BY <1>3, FS_AddElement
<1>5. Buying!WeekKeys(days) = Images(f, S) \cup {Buying!OverdueWeek}
  BY <1>2 DEF Buying!WeekKeys
<1> QED BY <1>4, <1>5

(* What is spent on some of the purchase orders is their part of one sum.  *)
LEMMA SpendIs ==
  ASSUME NEW open, IsFiniteSet(open), \A po \in open : po.value \in Int, NEW P \in SUBSET open
  PROVE  /\ IsFiniteSet(P) /\ Buying!Spend(P).lines = Cardinality(P)
         /\ Buying!Spend(P).value = SumFunctionOnSet([po \in open |-> po.value], P)
<1> DEFINE f == [po \in open |-> po.value]   g == [po \in P |-> po.value]
<1>1. (\A x \in open : f[x] \in Int) /\ DOMAIN g = P /\ \A x \in P : g[x] = f[x]
  OBVIOUS
<1>2. Buying!Spend(P).lines = Buying!Cardinality(P) /\ Buying!Spend(P).value = Buying!SumFunction(g)
  BY DEF Buying!Spend, Buying!Total
<1> HIDE DEF f, g
<1>3. IsFiniteSet(P) /\ SumFunctionOnSet(g, DOMAIN g) = SumFunctionOnSet(f, P)
  BY <1>1, PartSum
<1> QED BY <1>2, <1>3, BuyingFigures DEF f

(* What the two supplier pages show, as parts of the open purchase orders. *)
BuyersSee(board, delivery, open, shown, late, soon, filed, supplier, week, B, S, W) ==
  /\ board.total = Buying!Spend(open) /\ board.overdue = Buying!Spend(late)
  /\ DOMAIN board.suppliers = B /\ DOMAIN delivery = S /\ DOMAIN board.weeks = W
  /\ \A w \in W : board.weeks[w] = Buying!Spend(Keyed(shown, week, w))
  /\ \A s \in B : /\ board.suppliers[s].all = Buying!Spend(Keyed(open, filed, s))
                  /\ board.suppliers[s].overdue = Buying!Spend(Keyed(late, filed, s))
  /\ \A s \in S : /\ delivery[s].all = Buying!Spend(Keyed(open, supplier, s))
                  /\ delivery[s].overdue = Buying!Spend(Keyed(late, supplier, s))
                  /\ delivery[s].thisWeek = Buying!Spend(Keyed(soon, supplier, s))

LEMMA BuyersDoSee ==
  ASSUME NEW site, SiteTables(site), NEW weeks \in Nat
  PROVE  LET open == Buying!OpenPos(site)
             shown == {po \in open : Buying!Within(po.due, weeks)}
             late == {po \in open : Buying!PoOverdue(po)}
             soon == {po \in open : Buying!PoThisWeek(po)}
         IN  BuyersSee(Buying!PurchasingDashboard(site, weeks), Buying!SupplierDelivery(site),
                       open, shown, late, soon, [po \in open |-> Buying!BoardSupplier(po)],
                       [po \in open |-> Buying!DeliverySupplier(po)],
                       [po \in open |-> Buying!WeekKey(po.due)],
                       {Buying!BoardSupplier(po) : po \in open},
                       {Buying!DeliverySupplier(po) : po \in open},
                       Buying!WeekKeys({po.due : po \in shown}))
<1> DEFINE open == Buying!OpenPos(site)
           shown == {po \in open : Buying!Within(po.due, weeks)}
           late == {po \in open : Buying!PoOverdue(po)}
           soon == {po \in open : Buying!PoThisWeek(po)}
           filed == [po \in open |-> Buying!BoardSupplier(po)]
           supplier == [po \in open |-> Buying!DeliverySupplier(po)]
           week == [po \in open |-> Buying!WeekKey(po.due)]
           B == {Buying!BoardSupplier(po) : po \in open}
           S == {Buying!DeliverySupplier(po) : po \in open}
           W == Buying!WeekKeys({po.due : po \in shown})
           board == Buying!PurchasingDashboard(site, weeks)
           delivery == Buying!SupplierDelivery(site)
<1>1. \A po \in shown : po \in open /\ po.due \in Int
  BY DEF SiteTables, Buying!OpenPos, Buying!Within
<1>2. \A k : Keyed(shown, week, k) = {po \in shown : Buying!InWeek(po.due, k)}
  <2>1. \A po \in shown : \A k : Buying!InWeek(po.due, k) <=> Buying!WeekKey(po.due) = k
    BY <1>1, WeekKeyIs
  <2>2. \A po \in shown : week[po] = Buying!WeekKey(po.due)
    BY <1>1
  <2> HIDE DEF shown, week
  <2> QED BY <2>1, <2>2 DEF Keyed
<1>3. \A s : /\ Keyed(open, filed, s) = {po \in open : Buying!BoardSupplier(po) = s}
             /\ Keyed(late, filed, s)
                  = {po \in open : Buying!BoardSupplier(po) = s /\ Buying!PoOverdue(po)}
             /\ Keyed(open, supplier, s) = {po \in open : Buying!DeliverySupplier(po) = s}
             /\ Keyed(soon, supplier, s)
                  = {po \in {x \in open : Buying!DeliverySupplier(x) = s} : Buying!PoThisWeek(po)}
             /\ Keyed(late, supplier, s)
                  = {po \in {x \in open : Buying!DeliverySupplier(x) = s} : Buying!PoOverdue(po)}
  BY DEF Keyed
<1>4. /\ board.total = Buying!Spend(open) /\ board.overdue = Buying!Spend(late)
      /\ board.weeks = [key \in W |-> Buying!Spend({po \in shown : Buying!InWeek(po.due, key)})]
      /\ board.suppliers = [s \in B |->
           [all |-> Buying!Spend({po \in open : Buying!BoardSupplier(po) = s}),
            overdue |-> Buying!Spend({po \in open : Buying!BoardSupplier(po) = s
                                                     /\ Buying!PoOverdue(po)})]]
  BY DEF Buying!PurchasingDashboard
<1>5. delivery = [s \in S |->
        [all |-> Buying!Spend({x \in open : Buying!DeliverySupplier(x) = s}),
         overdue |-> Buying!Spend({po \in {x \in open : Buying!DeliverySupplier(x) = s} :
                                     Buying!PoOverdue(po)}),
         thisWeek |-> Buying!Spend({po \in {x \in open : Buying!DeliverySupplier(x) = s} :
                                      Buying!PoThisWeek(po)})]]
  BY DEF Buying!SupplierDelivery
<1> HIDE DEF board, delivery, B, S, W, week, filed, supplier, open
<1>6. \A w \in W : board.weeks[w] = Buying!Spend(Keyed(shown, week, w))
  BY <1>2, <1>4
<1>7. ASSUME NEW s \in S
      PROVE  /\ delivery[s].all = Buying!Spend(Keyed(open, supplier, s))
             /\ delivery[s].overdue = Buying!Spend(Keyed(late, supplier, s))
             /\ delivery[s].thisWeek = Buying!Spend(Keyed(soon, supplier, s))
  BY <1>3, <1>5
<1>8. ASSUME NEW s \in B
      PROVE  /\ board.suppliers[s].all = Buying!Spend(Keyed(open, filed, s))
             /\ board.suppliers[s].overdue = Buying!Spend(Keyed(late, filed, s))
  BY <1>3, <1>4
<1>9. DOMAIN board.suppliers = B /\ DOMAIN delivery = S /\ DOMAIN board.weeks = W
  BY <1>4, <1>5
<1> HIDE DEF shown, late, soon
<1>10. BuyersSee(board, delivery, open, shown, late, soon, filed, supplier, week, B, S, W)
  BY <1>4, <1>6, <1>7, <1>8, <1>9 DEF BuyersSee
<1> QED BY <1>10 DEF board, delivery, B, S, W, week, filed, supplier, open, shown, late, soon

(* Which purchase orders are overdue, and when.                            *)
LEMMA OverdueIs ==
  ASSUME NEW d \in Int \cup {NoDate}, NEW weeks \in Nat
  PROVE  /\ Buying!Within(d, weeks) /\ Buying!WeekKey(d) = Buying!OverdueWeek => Buying!IsBefore(d, 0)
         /\ Buying!IsBefore(d, 0) =>
              \/ Buying!Within(d, weeks) /\ Buying!WeekKey(d) = Buying!OverdueWeek
              \/ d # NoDate /\ Buying!WeekOf(d) = 0
<1>1. CASE d = NoDate
  BY <1>1 DEF Buying!Within, Buying!IsBefore
<1>2. CASE d # NoDate
  <2>1. d \in Int /\ Buying!Monday(0) = -Weekday /\ Weekday \in Int /\ 0 <= Weekday /\ Weekday <= 6
    BY <1>2, CalendarAssumption DEF Buying!Monday
  <2>2. Buying!WeekKey(d) = Buying!OverdueWeek <=> d < Buying!Monday(0)
    <3>1. Buying!InWeek(d, Buying!OverdueWeek) <=> Buying!WeekKey(d) = Buying!OverdueWeek
      BY <2>1, WeekKeyIs
    <3> QED BY <3>1 DEF Buying!InWeek
  <2>3. Buying!IsBefore(d, 0) <=> d < 0
    <3>1. CASE 0 = NoDate
      BY <3>1, NoDateAssumption
    <3>2. CASE 0 # NoDate
      BY <3>2, <1>2, <2>1 DEF Buying!IsBefore
    <3> QED BY <3>1, <3>2
  <2>4. d < 0 /\ d >= Buying!Monday(0) => Buying!WeekOf(d) = 0
    BY <2>1 DEF Buying!WeekOf
  <2>5. d < Buying!Monday(0) => Buying!Within(d, weeks)
    BY <1>2, <2>1 DEF Buying!Within
  <2> QED BY <1>2, <2>1, <2>2, <2>3, <2>4, <2>5
<1> QED BY <1>1, <1>2

(* materials/services/dashboard.py: every purchase order is counted once,  *)
(* by supplier on either page, by week and in the headline, the suppliers  *)
(* under whose names no nameless order is filed agree, and what is overdue *)
(* is in the overdue bar or in this week's.                                *)
THEOREM PurchasesAddUp ==
  ASSUME NEW site, SiteTables(site), NEW weeks \in Nat
  PROVE  Buying!PurchasesAgree(Buying!NamedSuppliers(Buying!OpenPos(site)),
           Buying!PurchasingDashboard(site, weeks), Buying!SupplierDelivery(site),
           Buying!Cardinality({po \in Buying!OpenPos(site) : ~Buying!Within(po.due, weeks)}))
<1> DEFINE open == Buying!OpenPos(site)
           shown == {po \in open : Buying!Within(po.due, weeks)}
           beyond == {po \in open : ~Buying!Within(po.due, weeks)}
           late == {po \in open : Buying!PoOverdue(po)}
           soon == {po \in open : Buying!PoThisWeek(po)}
           filed == [po \in open |-> Buying!BoardSupplier(po)]
           supplier == [po \in open |-> Buying!DeliverySupplier(po)]
           week == [po \in open |-> Buying!WeekKey(po.due)]
           value == [po \in open |-> po.value]
           named == Buying!NamedSuppliers(open)
           B == {Buying!BoardSupplier(po) : po \in open}
           S == {Buying!DeliverySupplier(po) : po \in open}
           days == {po.due : po \in shown}
           W == Buying!WeekKeys(days)
           first == Keyed(shown, week, Buying!OverdueWeek)
           board == Buying!PurchasingDashboard(site, weeks)
           delivery == Buying!SupplierDelivery(site)
           spent == [s \in B |-> board.suppliers[s].all.value]
           all == [s \in S |-> delivery[s].all.value]
           overdue == [s \in S |-> delivery[s].overdue.value]
           lines == [w \in W |-> board.weeks[w].lines]
           thisWeek == [s \in S |-> delivery[s].thisWeek.lines]
<1>1. BuyersSee(board, delivery, open, shown, late, soon, filed, supplier, week, B, S, W)
  BY BuyersDoSee
<1>2. /\ IsFiniteSet(open) /\ shown \in SUBSET open /\ late \in SUBSET open /\ soon \in SUBSET open
      /\ \A po \in open : po.value \in Int /\ value[po] \in Int /\ po.due \in Int \cup {NoDate}
  <2>1. open \in SUBSET site.pos
    BY DEF Buying!OpenPos
  <2> QED BY <2>1, FS_Subset DEF SiteTables
<1>3. /\ IsFiniteSet(S) /\ \A po \in open : supplier[po] \in S
      /\ IsFiniteSet(B) /\ \A po \in open : filed[po] \in B
  <2>1. S = Images(supplier, open) /\ B = Images(filed, open)
    BY DEF Images
  <2> HIDE DEF supplier, filed, open
  <2>2. IsFiniteSet(Images(supplier, open)) /\ IsFiniteSet(Images(filed, open))
    BY <1>2, ImageFinite
  <2> HIDE DEF S, B
  <2> QED BY <2>1, <2>2 DEF Images
<1>4. IsFiniteSet(W) /\ Buying!OverdueWeek \in W /\ \A po \in shown : week[po] \in W
  <2>1. days = Images([po \in shown |-> po.due], shown)
    BY DEF Images
  <2>2. IsFiniteSet(shown)
    BY <1>2, FS_Subset
  <2>3. IsFiniteSet(days)
    BY <2>1, <2>2, ImageFinite
  <2>4. \A po \in shown : po.due \in days /\ po.due \in Int /\ week[po] = Buying!WeekKey(po.due)
    BY <1>2 DEF Buying!Within
  <2> HIDE DEF days, shown, week
  <2>5. IsFiniteSet(W) /\ Buying!OverdueWeek \in W
    BY <2>3, WeekKeysFinite
  <2>6. \A po \in shown : Buying!WeekKey(po.due) \in W
    BY <2>4, WeekKeyIs
  <2> QED BY <2>4, <2>5, <2>6
<1>5. \A P \in SUBSET open : /\ IsFiniteSet(P) /\ Buying!Spend(P).lines = Cardinality(P)
                             /\ Buying!Spend(P).value = SumFunctionOnSet(value, P)
  BY <1>2, SpendIs
<1>6. \A P \in SUBSET open : \A f, k : Keyed(P, f, k) \in SUBSET open
  BY DEF Keyed
<1>7. /\ beyond = open \ shown
      /\ first \in SUBSET late /\ late \in SUBSET (first \cup soon)
  <2>1. beyond = open \ shown
    OBVIOUS
  <2>2. ASSUME NEW po \in first PROVE po \in late
    <3>1. /\ po \in open /\ Buying!Within(po.due, weeks)
          /\ week[po] = Buying!WeekKey(po.due) /\ week[po] = Buying!OverdueWeek
      BY DEF Keyed
    <3>2. Buying!IsBefore(po.due, 0)
      BY <1>2, <3>1, OverdueIs
    <3> QED BY <3>1, <3>2 DEF Buying!PoOverdue
  <2>3. ASSUME NEW po \in late, po \notin soon PROVE po \in first
    <3>1. po \in open /\ Buying!IsBefore(po.due, 0) /\ week[po] = Buying!WeekKey(po.due)
          /\ ~(po.due # NoDate /\ Buying!WeekOf(po.due) = 0)
      BY <2>3 DEF Buying!PoOverdue, Buying!PoThisWeek
    <3>2. Buying!Within(po.due, weeks) /\ Buying!WeekKey(po.due) = Buying!OverdueWeek
      BY <1>2, <3>1, OverdueIs
    <3> QED BY <3>1, <3>2 DEF Keyed
  <2> QED BY <2>1, <2>2, <2>3
<1>20. ASSUME NEW s \in named
       PROVE  /\ s \in B /\ s \in S
              /\ \A P \in SUBSET open : Keyed(P, filed, s) = Keyed(P, supplier, s)
  <2>1. /\ s # "Unknown" /\ \E po \in open : po.name # None /\ po.name = s
        /\ \A po \in open : po.name = None => Buying!DeliverySupplier(po) # s
    BY DEF Buying!NamedSuppliers
  <2>2. \A po \in open : /\ po.name # None => /\ Buying!BoardSupplier(po) = po.name
                                             /\ Buying!DeliverySupplier(po) = po.name
                         /\ po.name = None => Buying!BoardSupplier(po) = "Unknown"
    BY DEF Buying!BoardSupplier, Buying!DeliverySupplier, Buying!Filed
  <2>3. \A po \in open : filed[po] = s <=> supplier[po] = s
    BY <2>1, <2>2
  <2>4. s \in B /\ s \in S
    BY <2>1, <2>2
  <2>5. ASSUME NEW P \in SUBSET open PROVE Keyed(P, filed, s) = Keyed(P, supplier, s)
    <3> HIDE DEF filed, supplier, open
    <3> QED BY <2>3 DEF Keyed
  <2> QED BY <2>4, <2>5
<1> HIDE DEF open, shown, late, soon, beyond, filed, supplier, week, value, named, B, S, W, days,
             board, delivery
<1>8. /\ board.total.value = SumFunctionOnSet(value, open) /\ board.total.lines = Cardinality(open)
      /\ board.overdue.value = SumFunctionOnSet(value, late) /\ board.overdue.lines = Cardinality(late)
      /\ DOMAIN board.suppliers = B /\ DOMAIN delivery = S /\ DOMAIN board.weeks = W
  BY <1>1, <1>2, <1>5 DEF BuyersSee
<1>21. \A s \in B : spent[s] = SumFunctionOnSet(value, Keyed(open, filed, s))
  BY <1>1, <1>2, <1>5, <1>6 DEF BuyersSee
<1>9. \A s \in S : /\ all[s] = SumFunctionOnSet(value, Keyed(open, supplier, s))
                   /\ overdue[s] = SumFunctionOnSet(value, Keyed(late, supplier, s))
                   /\ thisWeek[s] = Cardinality(Keyed(soon, supplier, s))
  BY <1>1, <1>2, <1>5, <1>6 DEF BuyersSee
<1>10. \A w \in W : lines[w] = Cardinality(Keyed(shown, week, w))
                    /\ board.weeks[w].lines = Cardinality(Keyed(shown, week, w))
  BY <1>1, <1>2, <1>5, <1>6 DEF BuyersSee
<1>11. /\ DOMAIN spent = B /\ DOMAIN all = S /\ DOMAIN overdue = S /\ DOMAIN thisWeek = S /\ DOMAIN lines = W
  OBVIOUS
<1>12. /\ Buying!Total(DOMAIN board.suppliers, LAMBDA s : board.suppliers[s].all.value)
            = Buying!SumFunction(spent)
       /\ Buying!Total(DOMAIN delivery, LAMBDA s : delivery[s].all.value) = Buying!SumFunction(all)
       /\ Buying!Total(DOMAIN delivery, LAMBDA s : delivery[s].overdue.value) = Buying!SumFunction(overdue)
       /\ Buying!Total(DOMAIN delivery, LAMBDA s : delivery[s].thisWeek.lines)
            = Buying!SumFunction(thisWeek)
       /\ Buying!Total(DOMAIN board.weeks, LAMBDA w : board.weeks[w].lines) = Buying!SumFunction(lines)
  BY <1>8 DEF Buying!Total
<1> HIDE DEF spent, all, overdue, thisWeek, lines
<1>22. Buying!SumFunction(spent) = SumFunctionOnSet(value, open)
  <2>1. SumFunctionOnSet(spent, B) = SumFunctionOnSet(value, open)
    BY <1>2, <1>3, <1>21, SumByKey
  <2> QED BY <1>11, <2>1, BuyingFigures
<1>13. Buying!SumFunction(all) = SumFunctionOnSet(value, open)
  <2>1. SumFunctionOnSet(all, S) = SumFunctionOnSet(value, open)
    BY <1>2, <1>3, <1>9, SumByKey
  <2> QED BY <1>11, <2>1, BuyingFigures
<1>14. Buying!SumFunction(overdue) = SumFunctionOnSet(value, late)
  <2>1. IsFiniteSet(late) /\ (\A po \in late : value[po] \in Int) /\ \A po \in late : supplier[po] \in S
    BY <1>2, <1>3, FS_Subset
  <2>2. SumFunctionOnSet(overdue, S) = SumFunctionOnSet(value, late)
    BY <1>3, <1>9, <2>1, SumByKey
  <2> QED BY <1>11, <2>2, BuyingFigures
<1>15. Buying!SumFunction(thisWeek) = Cardinality(soon)
  <2>1. IsFiniteSet(soon) /\ \A po \in soon : supplier[po] \in S
    BY <1>2, <1>3, FS_Subset
  <2>2. SumFunctionOnSet(thisWeek, S) = Cardinality(soon)
    BY <1>3, <1>9, <2>1, CountByKey
  <2> QED BY <1>11, <2>2, BuyingFigures
<1>16. Buying!SumFunction(lines) = Cardinality(shown)
  <2>1. IsFiniteSet(shown)
    BY <1>2, FS_Subset
  <2>2. SumFunctionOnSet(lines, W) = Cardinality(shown)
    BY <1>4, <1>10, <2>1, CountByKey
  <2> QED BY <1>11, <2>2, BuyingFigures
<1>17. Cardinality(shown) = Cardinality(open) - Buying!Cardinality(beyond)
  <2>1. Buying!Cardinality(beyond) = Cardinality(open \ shown)
    BY <1>7, BuyingFigures
  <2>2. open \cap shown = shown
    BY <1>2
  <2>3. Cardinality(open \ shown) = Cardinality(open) - Cardinality(shown)
    BY <1>2, <2>2, FS_Difference
  <2>4. Cardinality(open) \in Int /\ Cardinality(shown) \in Int
    BY <1>2, FS_Subset, FS_CardinalityType
  <2> QED BY <2>1, <2>3, <2>4
<1>18. Cardinality(first) <= Cardinality(late)
       /\ Cardinality(late) <= Cardinality(first) + Cardinality(soon)
  <2>1. IsFiniteSet(late) /\ IsFiniteSet(soon) /\ IsFiniteSet(first)
    BY <1>2, <1>7, FS_Subset
  <2>2. Cardinality(first) <= Cardinality(late)
    BY <1>7, <2>1, FS_Subset
  <2>3. Cardinality(first \cup soon)
          = Cardinality(first) + Cardinality(soon) - Cardinality(first \cap soon)
        /\ IsFiniteSet(first \cup soon)
    BY <2>1, FS_Union
  <2>4. Cardinality(late) <= Cardinality(first \cup soon)
    BY <1>7, <2>3, FS_Subset
  <2>5. IsFiniteSet(first \cap soon)
    BY <2>1, FS_Subset
  <2>6. {Cardinality(first), Cardinality(soon), Cardinality(first \cap soon), Cardinality(late),
         Cardinality(first \cup soon)} \subseteq Nat
    BY <2>1, <2>3, <2>5, FS_CardinalityType
  <2> QED BY <2>2, <2>3, <2>4, <2>6
<1>19. board.weeks[Buying!OverdueWeek].lines = Cardinality(first)
  BY <1>4, <1>10
<1>23. \A s \in named : delivery[s].all = board.suppliers[s].all
                        /\ delivery[s].overdue = board.suppliers[s].overdue
  <2> SUFFICES ASSUME NEW s \in named
               PROVE  /\ delivery[s].all = board.suppliers[s].all
                      /\ delivery[s].overdue = board.suppliers[s].overdue
    OBVIOUS
  <2>1. Keyed(open, filed, s) = Keyed(open, supplier, s) /\ Keyed(late, filed, s) = Keyed(late, supplier, s)
    BY <1>2, <1>20
  <2> QED BY <1>1, <1>20, <2>1 DEF BuyersSee
<1> QED
  <2> HIDE DEF first
  <2>1. Buying!PurchasesAgree(named, board, delivery, Buying!Cardinality(beyond))
    BY <1>8, <1>12, <1>13, <1>14, <1>15, <1>16, <1>17, <1>18, <1>19, <1>22, <1>23 DEF Buying!PurchasesAgree
  <2> QED BY <2>1 DEF named, board, delivery, beyond, open

-----------------------------------------------------------------------------
(* The sales table as the pages read it.                                   *)
IsNeed(needs) == IsFiniteSet(needs) /\ \A r \in needs : r.price \in Int /\ r.req \in Int \cup {NoDate}

LEMMA LeastDay ==
  ASSUME NEW days, IsFiniteSet(days), days \subseteq Int, days # {}
  PROVE  Buying!EarliestOf(days) \in days
<1>1. ~(days \subseteq {NoDate}) /\ days \ {NoDate} = days
  BY NoDateAssumption
<1>2. Buying!EarliestOf(days) = Buying!Min(days)
  BY <1>1 DEF Buying!EarliestOf
<1>3. \E m \in days : \A k \in days : m <= k
  BY LeastExists
<1>4. Buying!Min(days) \in days
  BY <1>3 DEF Buying!Min
<1> QED BY <1>2, <1>4

(* The open orders of the coverage page: one for every order that needs    *)
(* something within the horizon.                                           *)
Needing(needs, weeks) == {r.order : r \in Buying!NeededReleases(needs, weeks)}
LEMMA OrdersAre ==
  ASSUME NEW site, NEW needs, IsNeed(needs), NEW weeks \in Nat, NEW group
  PROVE  LET orders == Buying!CoverageOrders(site, needs, weeks, group)   O == Needing(needs, weeks) IN
         /\ IsFiniteSet(orders)
         /\ \A o \in orders : /\ o.order \in O /\ o.due \in Int /\ o.value \in Int
                              /\ o.status = Buying!Shown(Buying!CoverageStatus(site, o.order, group))
         /\ \A k \in O : \E o \in orders : o.order = k
<1> DEFINE releases == Buying!NeededReleases(needs, weeks)
           O == Needing(needs, weeks)
           mine(k) == {r \in releases : r.order = k}
           days(k) == {r.req : r \in mine(k)}
           Entry(k) == [order |-> k, due |-> Buying!EarliestOf(days(k)),
                        value |-> Buying!Total(mine(k), LAMBDA r : r.price),
                        customer |-> Buying!Min({r.customer : r \in mine(k)}),
                        status |-> Buying!Shown(Buying!CoverageStatus(site, k, group))]
           orders == Buying!CoverageOrders(site, needs, weeks, group)
<1>1. orders = {Entry(k) : k \in O}
  BY DEF Buying!CoverageOrders, Needing
<1>2. /\ IsFiniteSet(releases) /\ \A r \in releases : r.price \in Int /\ r.req \in Int
  <2> DEFINE T == {x \in needs : Buying!Within(x.req, weeks) /\ ~x.shipped}
             f == [r \in T |-> [order |-> r.order, line |-> r.line, req |-> r.req, price |-> r.price,
                                customer |-> r.customer]]
  <2>1. releases = Images(f, T)
    BY DEF Buying!NeededReleases, Images
  <2>2. IsFiniteSet(T)
    BY FS_Subset DEF IsNeed
  <2>3. \A r \in T : r.price \in Int /\ r.req \in Int
    BY DEF IsNeed, Buying!Within
  <2>4. \A x \in releases : \E r \in T : x.price = r.price /\ x.req = r.req
    BY DEF Buying!NeededReleases
  <2> HIDE DEF T, f, releases
  <2>5. IsFiniteSet(Images(f, T))
    BY <2>2, ImageFinite
  <2> QED BY <2>1, <2>3, <2>4, <2>5
<1>3. O = {r.order : r \in releases}
  BY DEF Needing
<1> HIDE DEF releases, O
<1>4. IsFiniteSet(O)
  <2> DEFINE f == [r \in releases |-> r.order]
  <2>1. O = Images(f, releases)
    BY <1>3 DEF Images
  <2> HIDE DEF f
  <2> QED BY <1>2, <2>1, ImageFinite
<1>5. ASSUME NEW k \in O
      PROVE  Entry(k).order = k /\ Entry(k).due \in Int /\ Entry(k).value \in Int
             /\ Entry(k).status = Buying!Shown(Buying!CoverageStatus(site, k, group))
  <2> DEFINE f == [r \in mine(k) |-> r.price]   g == [r \in mine(k) |-> r.req]
  <2>1. mine(k) \in SUBSET releases /\ mine(k) # {}
    BY <1>3
  <2>2. IsFiniteSet(mine(k)) /\ DOMAIN f = mine(k) /\ \A r \in mine(k) : f[r] \in Int
    BY <1>2, <2>1, FS_Subset
  <2>3. days(k) = Images(g, mine(k)) /\ days(k) \subseteq Int /\ days(k) # {}
    BY <1>2, <2>1 DEF Images
  <2>4. Entry(k).value = Buying!SumFunction(f)
    BY DEF Buying!Total
  <2>5. Entry(k).order = k /\ Entry(k).due = Buying!EarliestOf(days(k))
        /\ Entry(k).status = Buying!Shown(Buying!CoverageStatus(site, k, group))
    OBVIOUS
  <2> HIDE DEF f, g, mine, days
  <2>6. SumFunctionOnSet(f, mine(k)) \in Int
    BY <2>2, SumInt
  <2>7. IsFiniteSet(days(k))
    BY <2>2, <2>3, ImageFinite
  <2>8. Buying!EarliestOf(days(k)) \in days(k)
    BY <2>3, <2>7, LeastDay
  <2> HIDE DEF Entry
  <2> QED BY <2>2, <2>3, <2>4, <2>5, <2>6, <2>8, BuyingFigures
<1>6. IsFiniteSet(orders)
  <2> DEFINE f == [k \in O |-> Entry(k)]
  <2>1. orders = Images(f, O)
    BY <1>1 DEF Images
  <2> HIDE DEF f
  <2> QED BY <1>4, <2>1, ImageFinite
<1> HIDE DEF orders, Entry
<1>7. \A o \in orders : /\ o.order \in O /\ o.due \in Int /\ o.value \in Int
                        /\ o.status = Buying!Shown(Buying!CoverageStatus(site, o.order, group))
  BY <1>1, <1>5
<1>8. \A k \in O : \E o \in orders : o.order = k
  BY <1>1, <1>5
<1> QED BY <1>6, <1>7, <1>8 DEF orders, O

(* Over all materials an order is ok exactly when it is for both groups.   *)
LEMMA WorseOfTwo ==
  ASSUME NEW f \in DOMAIN Priority, NEW c \in DOMAIN Priority
  PROVE  /\ Buying!Worst({f}, c) \in {f, c}
         /\ Priority[f] <= Priority[Buying!Worst({f}, c)] /\ Priority[c] <= Priority[Buying!Worst({f}, c)]
<1> DEFINE P(s) == s \in {f} \cup {c} /\ \A t \in {f} \cup {c} : Priority[t] <= Priority[s]
<1>1. \A s \in DOMAIN Priority : Priority[s] \in Int
  BY DEF Priority
<1>2. Priority[f] <= Priority[c] \/ Priority[c] <= Priority[f]
  BY <1>1
<1>3. P(f) \/ P(c)
  BY <1>1, <1>2
<1>4. Buying!Worst({f}, c) = CHOOSE s : P(s)
  BY DEF Buying!Worst, Buying!Priority, Priority
<1> HIDE DEF P
<1>5. P(Buying!Worst({f}, c))
  BY <1>3, <1>4
<1> QED BY <1>5 DEF P

LEMMA StatusOfOrder ==
  ASSUME NEW site, NEW group, NEW so, NEW empty \in DOMAIN Priority
  PROVE  Buying!SoStatus(site, group, so, empty) \in DOMAIN Priority
<1> DEFINE S == {Buying!RowStatus(l) : l \in {x \in Buying!ReportRows(site, group) : x.row.so = so}}
<1>1. \A l : Buying!RowStatus(l) = RowStatus(l)
  BY DEF Buying!RowStatus, RowStatus
<1>2. S \in SUBSET DOMAIN Priority
  BY <1>1, RowStatusIs
<1>3. Buying!SoStatus(site, group, so, empty) = Buying!Worst(S, empty)
  BY DEF Buying!SoStatus
<1> HIDE DEF S
<1>4. Buying!Worst(S, empty) = Worst(S, empty)
  BY DEF Buying!Worst, Worst, Buying!Priority, Priority
<1> QED BY <1>2, <1>3, <1>4, WorstIs

LEMMA OkForBoth ==
  ASSUME NEW site, NEW so
  PROVE  LET Status(group) == Buying!Shown(Buying!CoverageStatus(site, so, group)) IN
         Status("all") = "ok" <=> Status("fabric") = "ok" /\ Status("component") = "ok"
<1> DEFINE f == Buying!SoMaterialStatus(site, so)   c == Buying!SoComponentStatus(site, so)
           w == Buying!Worst({f}, c)
<1>1. f \in DOMAIN Priority /\ c \in DOMAIN Priority
  <2>1. "no_data" \in DOMAIN Priority /\ "ok" \in DOMAIN Priority
    BY DEF Priority
  <2> QED BY <2>1, StatusOfOrder DEF Buying!SoMaterialStatus, Buying!SoComponentStatus
<1>2. /\ Buying!CoverageStatus(site, so, "all") = w /\ Buying!CoverageStatus(site, so, "fabric") = f
      /\ Buying!CoverageStatus(site, so, "component") = c
  BY DEF Buying!CoverageStatus
<1> HIDE DEF f, c
<1>3. w \in {f, c} /\ Priority[f] <= Priority[w] /\ Priority[c] <= Priority[w]
  BY <1>1, WorseOfTwo
<1> HIDE DEF w
<1>4. \A s \in DOMAIN Priority : Buying!Shown(s) = "ok" <=> Priority[s] <= 1
  BY DEF Buying!Shown, Priority
<1>5. \A s \in DOMAIN Priority : Priority[s] \in Int
  BY DEF Priority
<1> QED BY <1>1, <1>2, <1>3, <1>4, <1>5

(* A bucket of some of the orders has their part of one sum.               *)
LEMMA BucketIs ==
  ASSUME NEW orders, IsFiniteSet(orders), \A o \in orders : o.value \in Int, NEW P \in SUBSET orders
  PROVE  /\ IsFiniteSet(P) /\ Buying!Bucket(P).count = Cardinality(P)
         /\ Buying!Bucket(P).value = SumFunctionOnSet([o \in orders |-> o.value], P)
<1> DEFINE f == [o \in orders |-> o.value]   g == [o \in P |-> o.value]
<1>1. (\A x \in orders : f[x] \in Int) /\ DOMAIN g = P /\ \A x \in P : g[x] = f[x]
  OBVIOUS
<1>2. Buying!Bucket(P).count = Buying!Cardinality(P) /\ Buying!Bucket(P).value = Buying!SumFunction(g)
  BY DEF Buying!Bucket, Buying!Total
<1> HIDE DEF f, g
<1>3. IsFiniteSet(P) /\ SumFunctionOnSet(g, DOMAIN g) = SumFunctionOnSet(f, P)
  BY <1>1, PartSum
<1> QED BY <1>2, <1>3, BuyingFigures DEF f

(* Whatever the orders, their weeks, their customers and their headline    *)
(* have the same.                                                          *)
AgreeOn(s, cover, customers) ==
  /\ Buying!Total(DOMAIN cover.weeks, LAMBDA w : cover.weeks[w][s].value) = cover.totals[s].value
  /\ Buying!Total(DOMAIN customers, LAMBDA c : customers[c][s].count) = cover.totals[s].count
LEMMA BucketsAddUp ==
  ASSUME NEW orders, IsFiniteSet(orders), \A o \in orders : o.value \in Int /\ o.due \in Int,
         NEW s \in Buying!NeedStatuses
  PROVE  AgreeOn(s, Buying!SoWeeks(orders), Buying!CustomerCoverage(orders))
<1> DEFINE cover == Buying!SoWeeks(orders)   customers == Buying!CustomerCoverage(orders)
           mine == {o \in orders : o.status = s}
           value == [o \in orders |-> o.value]
           week == [o \in orders |-> Buying!WeekKey(o.due)]
           customer == [o \in orders |-> o.customer]
           days == {o.due : o \in orders}
           W == Buying!WeekKeys(days)
           C == {o.customer : o \in orders}
           values == [w \in W |-> cover.weeks[w][s].value]
           counts == [c \in C |-> customers[c][s].count]
<1>1. /\ \A w : Keyed(mine, week, w) = {o \in {x \in orders : Buying!InWeek(x.due, w)} : o.status = s}
      /\ \A c : Keyed(mine, customer, c) = {o \in {x \in orders : x.customer = c} : o.status = s}
  <2>1. \A o \in orders : \A w : Buying!InWeek(o.due, w) <=> Buying!WeekKey(o.due) = w
    BY WeekKeyIs
  <2>2. \A o \in orders : week[o] = Buying!WeekKey(o.due) /\ customer[o] = o.customer
    OBVIOUS
  <2> HIDE DEF week, customer
  <2> QED BY <2>1, <2>2, ZenonT(60) DEF Keyed
<1>2. \A P : Buying!ByStatus(P)[s] = Buying!Bucket({o \in P : o.status = s})
  BY DEF Buying!ByStatus
<1>3. /\ cover.weeks = [w \in W |-> Buying!ByStatus({x \in orders : Buying!InWeek(x.due, w)})]
      /\ cover.totals = Buying!ByStatus(orders)
      /\ customers = [c \in C |-> Buying!ByStatus({x \in orders : x.customer = c})]
  BY DEF Buying!SoWeeks, Buying!CustomerCoverage
<1>4. /\ mine \in SUBSET orders /\ \A f, k : Keyed(mine, f, k) \in SUBSET orders
      /\ \A o \in mine : value[o] \in Int
  BY DEF Keyed
<1>5. IsFiniteSet(W) /\ \A o \in mine : week[o] \in W
  <2>1. days = Images([o \in orders |-> o.due], orders)
    BY DEF Images
  <2>2. IsFiniteSet(days)
    BY <2>1, ImageFinite
  <2>3. \A o \in mine : o.due \in days /\ o.due \in Int /\ week[o] = Buying!WeekKey(o.due)
    OBVIOUS
  <2> HIDE DEF days, mine, week
  <2>4. \A o \in mine : Buying!WeekKey(o.due) \in W
    BY <2>3, WeekKeyIs
  <2> QED BY <2>2, <2>3, <2>4, WeekKeysFinite
<1>6. IsFiniteSet(C) /\ \A o \in mine : customer[o] \in C
  <2>1. C = Images(customer, orders) /\ \A o \in mine : customer[o] \in C
    BY DEF Images
  <2> HIDE DEF customer
  <2> QED BY <2>1, ImageFinite
<1>7. \A P \in SUBSET orders : /\ IsFiniteSet(P) /\ Buying!Bucket(P).count = Cardinality(P)
                               /\ Buying!Bucket(P).value = SumFunctionOnSet(value, P)
  BY BucketIs
<1> HIDE DEF cover, customers, value, week, customer, days, W, C
<1>8. cover.totals[s].value = SumFunctionOnSet(value, mine) /\ cover.totals[s].count = Cardinality(mine)
  BY <1>2, <1>3, <1>4, <1>7
<1>9. \A w \in W : values[w] = SumFunctionOnSet(value, Keyed(mine, week, w))
  <2>1. \A w \in W : values[w] = Buying!Bucket(Keyed(mine, week, w)).value
    BY <1>1, <1>2, <1>3
  <2> QED BY <1>4, <1>7, <2>1
<1>10. \A c \in C : counts[c] = Cardinality(Keyed(mine, customer, c))
  <2>1. \A c \in C : counts[c] = Buying!Bucket(Keyed(mine, customer, c)).count
    BY <1>1, <1>2, <1>3
  <2> QED BY <1>4, <1>7, <2>1
<1>11. /\ Buying!Total(DOMAIN cover.weeks, LAMBDA w : cover.weeks[w][s].value) = Buying!SumFunction(values)
       /\ Buying!Total(DOMAIN customers, LAMBDA c : customers[c][s].count) = Buying!SumFunction(counts)
       /\ DOMAIN values = W /\ DOMAIN counts = C
  BY <1>3 DEF Buying!Total
<1>12. IsFiniteSet(mine)
  BY <1>4, FS_Subset
<1> HIDE DEF values, counts, mine
<1>13. SumFunctionOnSet(values, W) = SumFunctionOnSet(value, mine)
  BY <1>4, <1>5, <1>9, <1>12, SumByKey
<1>14. SumFunctionOnSet(counts, C) = Cardinality(mine)
  BY <1>6, <1>10, <1>12, CountByKey
<1>15. /\ Buying!Total(DOMAIN cover.weeks, LAMBDA w : cover.weeks[w][s].value) = cover.totals[s].value
       /\ Buying!Total(DOMAIN customers, LAMBDA c : customers[c][s].count) = cover.totals[s].count
  BY <1>8, <1>11, <1>13, <1>14, BuyingFigures
<1> QED BY <1>15 DEF AgreeOn, cover, customers

(* materials/services/dashboard.py: the weeks, the customers and the       *)
(* headline of the coverage page agree, and an order is called ok over all *)
(* materials exactly when it is for both groups.                           *)
THEOREM CoverageAddsUp ==
  ASSUME NEW site, NEW needs, IsNeed(needs), NEW weeks \in Nat
  PROVE  Buying!CoverageAgreesIn(Buying!WeeklySoBreakdown(site, needs, weeks, "all"),
           Buying!CoverageOrders(site, needs, weeks, "fabric"),
           Buying!CoverageOrders(site, needs, weeks, "component"))
<1> DEFINE orders == Buying!CoverageOrders(site, needs, weeks, "all")
           fabric == Buying!CoverageOrders(site, needs, weeks, "fabric")
           component == Buying!CoverageOrders(site, needs, weeks, "component")
           cover == Buying!WeeklySoBreakdown(site, needs, weeks, "all")
           customers == Buying!CustomerCoverage(orders)
           O == Needing(needs, weeks)
           Status(k, group) == Buying!Shown(Buying!CoverageStatus(site, k, group))
<1>1. cover = Buying!SoWeeks(orders) /\ cover.orders = orders
  BY DEF Buying!WeeklySoBreakdown, Buying!SoWeeks
<1>2. /\ IsFiniteSet(orders)
      /\ \A o \in orders : /\ o.order \in O /\ o.due \in Int /\ o.value \in Int
                           /\ o.status = Status(o.order, "all")
  BY OrdersAre
<1>3. /\ \A f \in fabric : f.status = Status(f.order, "fabric")
      /\ \A k \in O : \E f \in fabric : f.order = k
  BY OrdersAre
<1>4. /\ \A c \in component : c.status = Status(c.order, "component")
      /\ \A k \in O : \E c \in component : c.order = k
  BY OrdersAre
<1>5. \A k : Status(k, "all") = "ok" <=> Status(k, "fabric") = "ok" /\ Status(k, "component") = "ok"
  BY OkForBoth
<1> HIDE DEF orders, fabric, component, cover, O, Status, customers
<1>6. ASSUME NEW o \in cover.orders
      PROVE  o.status = "ok" <=> /\ \E f \in fabric : f.order = o.order /\ f.status = "ok"
                                 /\ \E c \in component : c.order = o.order /\ c.status = "ok"
  <2>1. o.order \in O /\ o.status = Status(o.order, "all")
    BY <1>1, <1>2
  <2>2. (\E f \in fabric : f.order = o.order /\ f.status = "ok") <=> Status(o.order, "fabric") = "ok"
    BY <1>3, <2>1
  <2>3. (\E c \in component : c.order = o.order /\ c.status = "ok") <=> Status(o.order, "component") = "ok"
    BY <1>4, <2>1
  <2> QED BY <1>5, <2>1, <2>2, <2>3
<1>7. ASSUME NEW s \in Buying!NeedStatuses
      PROVE  AgreeOn(s, cover, customers)
  BY <1>1, <1>2, BucketsAddUp DEF customers
<1>8. Buying!CoverageAgrees(cover, customers, fabric, component)
  BY <1>6, <1>7 DEF Buying!CoverageAgrees, AgreeOn
<1>9. Buying!CoverageAgreesIn(cover, fabric, component)
  BY <1>1, <1>8 DEF Buying!CoverageAgreesIn, customers
<1> QED BY <1>9 DEF cover, fabric, component

(* A line says what was left for its row: the stock, the releases in time, *)
(* and the shortage that follows.                                          *)
LineSays(l) ==
  /\ l.net \in Nat /\ l.stockBefore \in Int /\ l.poCover \in Nat /\ l.shortage \in Nat
  /\ l.shortage = IF l.net > l.stockBefore + l.poCover THEN l.net - l.stockBefore - l.poCover ELSE 0

LEMMA OneSays ==
  ASSUME NEW stock \in Int, NEW consumed \in Nat, NEW row, NetRequired(row) \in Nat, NEW pos, NEW lead,
         OrderedFor(pos, row, lead) \in Nat
  PROVE  LineSays(LineOf(stock, consumed, row, pos, lead))
<1> DEFINE line == LineOf(stock, consumed, row, pos, lead)
           N == NetRequired(row)
           o == OrderedFor(pos, row, lead)
           B == Floor(o - consumed)
           S == Min({stock, Min({N, stock + B})})
           U == Min({B, Min({N, stock + B}) - S})
           made == [row |-> row, net |-> N, stockBefore |-> stock, poCover |-> B,
                    shortage |-> Floor(N - stock - B), stockUsed |-> S, poUsed |-> U,
                    poExists |-> B > 0 \/ Total(pos, LAMBDA x : x.qty) > consumed + U]
<1>1. line = made
  <2>1. line = Append(<<>>, made)[1]
    BY DEF LineOf, NetOne
  <2>2. \A x : Append(<<>>, x)[1] = x
    OBVIOUS
  <2> HIDE DEF line, made
  <2> QED BY <2>1, <2>2
<1>2. made.net = N /\ made.stockBefore = stock /\ made.poCover = B /\ made.shortage = Floor(N - stock - B)
  OBVIOUS
<1> HIDE DEF made, line
<1>3. B \in Nat
  <2>1. o \in Nat
    OBVIOUS
  <2> HIDE DEF o
  <2> QED BY <2>1 DEF Floor
<1>4. N \in Nat
  OBVIOUS
<1> HIDE DEF B, N
<1>5. /\ Floor(N - stock - B) \in Nat
      /\ Floor(N - stock - B) = IF N > stock + B THEN N - stock - B ELSE 0
  BY <1>3, <1>4 DEF Floor
<1>6. LineSays(line)
  BY <1>1, <1>2, <1>3, <1>4, <1>5 DEF LineSays
<1> QED BY <1>6 DEF line

LEMMA LinesSay ==
  ASSUME NEW rows, IsDemand(rows), NEW pos, IsSupply(pos), NEW stock \in Int, NEW lead \in Int
  PROVE  LET lines == Netted(rows, stock, pos, lead) IN
         \A k \in 1 .. Cardinality(rows) : LineSays(lines[k])
<1> DEFINE lines == Netted(rows, stock, pos, lead)
           order == InOrder(rows)
           n == Cardinality(rows)
<1>1. n \in Nat
  BY FS_CardinalityType DEF IsDemand
<1>2. Len(order) = n /\ \A k \in 1 .. n : order[k] \in rows
  <2>1. Orders(order, rows, RowOrder(rows))
    BY RowsInOrder
  <2> QED BY <2>1 DEF Orders
<1>3. PICK pool : NettedUpTo(pool, order, stock, pos, lead, n) /\ lines = pool[n].lines
  <2>1. Len(order) \in Nat
    BY <1>1, <1>2
  <2> QED BY <1>2, <2>1, NettedIs
<1> DEFINE start == [stock |-> stock, consumed |-> 0, lines |-> <<>>]
           L == [k \in 1 .. n |-> LineOf(pool[k - 1].stock, pool[k - 1].consumed, order[k], pos, lead)]
           Fits(k) == /\ pool[k].stock \in Int /\ pool[k].consumed \in Nat
                      /\ pool[k].lines = [i \in 1 .. k |-> L[i]]
                      /\ \A i \in 1 .. k : LineSays(L[i])
           Good == {k \in Nat : k <= n => Fits(k)}
<1>4. pool[0] = start /\ \A k \in 1 .. n : pool[k] = NetOne(pool[k - 1], order[k], pos, lead)
  <2> DEFINE At(k) == IF k = 0 THEN [stock |-> stock, consumed |-> 0, lines |-> <<>>]
                      ELSE NetOne(pool[k - 1], order[k], pos, lead)
  <2>1. pool = [k \in 0 .. n |-> At(k)]
    BY <1>3 DEF NettedUpTo
  <2> HIDE DEF At
  <2>2. \A k \in 0 .. n : pool[k] = At(k)
    BY <2>1
  <2>3. 0 \in 0 .. n /\ \A k \in 1 .. n : k \in 0 .. n /\ k # 0
    BY <1>1
  <2> QED BY <2>2, <2>3 DEF At
<1>5. \A k \in 1 .. n : OrderedFor(pos, order[k], lead) \in Nat /\ NetRequired(order[k]) \in Nat
  BY <1>2, MoreInTime, NetIsNat
<1>6. 0 \in Good
  <2>1. start.stock = stock /\ start.consumed = 0 /\ start.lines = <<>> /\ <<>> = [i \in 1 .. 0 |-> L[i]]
    OBVIOUS
  <2> HIDE DEF start, L
  <2>2. Fits(0)
    <3>1. \A i \in 1 .. 0 : FALSE
      OBVIOUS
    <3> QED BY <1>4, <2>1, <3>1
  <2> QED BY <2>2
<1> HIDE DEF start, lines, order, n, L
<1>7. ASSUME NEW k \in Nat, k \in Good PROVE k + 1 \in Good
  <2> SUFFICES ASSUME k + 1 <= n PROVE Fits(k + 1)
    OBVIOUS
  <2>1. k <= n /\ k + 1 \in 1 .. n /\ (k + 1) - 1 = k
    BY <1>1
  <2>2. Fits(k)
    BY <1>7, <2>1
  <2> DEFINE last == pool[k]   next == pool[k + 1]   line == L[k + 1]
  <2>3. next = NetOne(last, order[k + 1], pos, lead)
        /\ line = LineOf(last.stock, last.consumed, order[k + 1], pos, lead)
    BY <1>4, <2>1 DEF L
  <2>4. last.stock \in Int /\ last.consumed \in Nat /\ last.lines = [i \in 1 .. k |-> L[i]]
        /\ \A i \in 1 .. k : LineSays(L[i])
    BY <2>2
  <2>5. OrderedFor(pos, order[k + 1], lead) \in Nat /\ NetRequired(order[k + 1]) \in Nat
    BY <1>5, <2>1
  <2> HIDE DEF last, next, line
  <2>6. next.lines = Append(last.lines, line) /\ next.stock \in Int /\ next.consumed \in Nat
    <3>1. Takes(last, order[k + 1], pos, lead)
      BY <2>4, <2>5, OneIsNetted
    <3> QED BY <2>3, <2>4, <3>1 DEF Takes
  <2>7. LineSays(line)
    BY <2>3, <2>4, <2>5, OneSays
  <2>8. next.lines = [i \in 1 .. k + 1 |-> L[i]]
    BY <2>4, <2>6, Appended DEF line
  <2>9. \A i \in 1 .. k + 1 : LineSays(L[i])
    <3>1. \A i \in 1 .. k + 1 : i \in 1 .. k \/ i = k + 1
      OBVIOUS
    <3> QED BY <2>4, <2>7, <3>1 DEF line
  <2> QED BY <2>6, <2>8, <2>9 DEF next
<1>8. n \in Good
  <2> HIDE DEF Good
  <2> QED BY <1>1, <1>6, <1>7, StepByStep
<1>9. lines = [i \in 1 .. n |-> L[i]] /\ \A i \in 1 .. n : LineSays(L[i])
  <2>1. Fits(n)
    BY <1>1, <1>8
  <2> QED BY <1>3, <2>1
<1>10. \A k \in 1 .. n : lines[k] = L[k]
  BY <1>9
<1> QED BY <1>9, <1>10 DEF lines, n

(* The lines of a report are finitely many and say so, with their rows.    *)
IsReport(lines) ==
  IsFiniteSet(lines) /\ \A l \in lines : LineSays(l) /\ l.row.due \in Int \cup {NoDate}

LEMMA ReportSays ==
  ASSUME NEW site, SiteTables(site), NEW group \in DOMAIN site.lead
  PROVE  IsReport(ReportRows(site, group))
<1> DEFINE M == MaterialsOf(site, group)
           T == [m \in M |-> ToSet(NettedLines(site, group, m))]
           lines == ReportRows(site, group)
<1>1. IsFiniteSet(M)
  <2> DEFINE A == Assessed(site, group)   f == [row \in A |-> row.material]
  <2>1. M = Images(f, A)
    BY DEF MaterialsOf, Images
  <2>2. IsFiniteSet(A)
    BY FS_Subset DEF Assessed, SiteTables, IsDemand
  <2> HIDE DEF f
  <2> QED BY <2>1, <2>2, ImageFinite
<1>2. ASSUME NEW m \in M
      PROVE  IsFiniteSet(T[m]) /\ \A l \in T[m] : LineSays(l) /\ l.row \in site.rows
  <2> DEFINE rows == RowsOf(site, group, m)   n == Cardinality(rows)
             netted == NettedLines(site, group, m)
  <2>1. /\ IsDemand(rows) /\ IsSupply(Covering(site, m))
        /\ StockOf(site, m) \in Int /\ site.lead[group] \in Nat
        /\ netted = Netted(rows, StockOf(site, m), Covering(site, m), site.lead[group])
    BY NettedFrom
  <2>2. site.lead[group] \in Int
    BY <2>1
  <2> HIDE DEF rows, netted
  <2>3. \A k \in 1 .. n : LineSays(netted[k])
    BY <2>1, <2>2, LinesSay
  <2>4. n \in Nat /\ HandsOut(netted, InOrder(rows), n, StockOf(site, m), Covering(site, m), site.lead[group])
    BY <2>1, <2>2, NettingRuns
  <2>5. Lists(ToSet(netted), rows)
    BY <2>1, <2>2, NettedLists
  <2> HIDE DEF n
  <2>6. DOMAIN netted = 1 .. n
    <3>1. netted = [i \in 1 .. n |-> netted[i]]
      BY <2>4 DEF HandsOut
    <3> QED BY <3>1
  <2>7. ToSet(netted) = Images(netted, 1 .. n)
    BY <2>6 DEF ToSet, Images
  <2>8. IsFiniteSet(1 .. n)
    BY <2>4, FS_Interval
  <2>9. IsFiniteSet(ToSet(netted))
    BY <2>7, <2>8, ImageFinite
  <2>10. \A l \in ToSet(netted) : l.row \in site.rows
    BY <2>5 DEF Lists, rows, RowsOf, Assessed
  <2>11. \A l \in ToSet(netted) : LineSays(l)
    BY <2>3, <2>7 DEF Images
  <2>12. T[m] = ToSet(netted)
    BY DEF netted
  <2> QED BY <2>9, <2>10, <2>11, <2>12
<1>3. lines = UNION Images(T, M) /\ \A m \in M : IsFiniteSet(T[m])
  <2>1. \A m \in M : T[m] = ToSet(NettedLines(site, group, m))
    OBVIOUS
  <2>2. lines = UNION Images(T, M)
    BY DEF ReportRows, Images
  <2> QED BY <1>2, <2>2
<1> HIDE DEF T, M, lines
<1>4. IsFiniteSet(lines)
  <2>1. IsFiniteSet(Images(T, M))
    BY <1>1, ImageFinite
  <2>2. \A S \in Images(T, M) : IsFiniteSet(S)
    BY <1>2 DEF Images
  <2> QED BY <1>3, <2>1, <2>2, FS_UNION
<1>5. \A l \in lines : LineSays(l) /\ l.row \in site.rows
  BY <1>2, <1>3 DEF Images
<1>6. \A r \in site.rows : r.due \in Int \cup {NoDate}
  BY DEF SiteTables, IsDemand
<1> QED BY <1>4, <1>5, <1>6 DEF IsReport, lines

-----------------------------------------------------------------------------
(* The purchasing pages net a site as above.                               *)
LEMMA BuyingNets ==
  ASSUME NEW site, NEW group
  PROVE  Buying!ReportRows(site, group) = ReportRows(site, group)
<1>1. \A pos, row, lead : Buying!OrderedFor(pos, row, lead) = OrderedFor(pos, row, lead)
  BY DEF Buying!OrderedFor, OrderedFor, Buying!InTimeFor, InTimeFor, Buying!Arrival, Arrival, Buying!Max, Max,
         Buying!Total, Total, Buying!SumFunction, SumFunction, Buying!SumFunctionOnSet, SumFunctionOnSet,
         Buying!FoldFunctionOnSet, FoldFunctionOnSet, Buying!MapThenFoldSet, MapThenFoldSet
<1>2. ASSUME NEW pool, NEW row, NEW pos, NEW lead
      PROVE  Buying!NetOne(pool, row, pos, lead) = NetOne(pool, row, pos, lead)
  <2>1. (\A S : Buying!Min(S) = Min(S)) /\ \A x : Buying!Floor(x) = Floor(x)
    BY DEF Buying!Min, Min, Buying!Floor, Floor
  <2>2. Buying!NetRequired(row) = NetRequired(row)
    BY <2>1 DEF Buying!NetRequired, NetRequired
  <2>3. Buying!Total(pos, LAMBDA x : x.qty) = Total(pos, LAMBDA x : x.qty)
    BY DEF Buying!Total, Total, Buying!SumFunction, SumFunction, Buying!SumFunctionOnSet, SumFunctionOnSet,
           Buying!FoldFunctionOnSet, FoldFunctionOnSet, Buying!MapThenFoldSet, MapThenFoldSet
  <2>4. Buying!OrderedFor(pos, row, lead) = OrderedFor(pos, row, lead)
    BY <1>1
  <2> QED BY <2>1, <2>2, <2>3, <2>4 DEF Buying!NetOne, NetOne, Buying!Total, Total
<1>3. \A rows : Buying!InOrder(rows) = InOrder(rows)
  BY DEF Buying!InOrder, InOrder, Buying!Sorted, Sorted, Buying!NettedBefore, NettedBefore,
         Buying!IsBefore, IsBefore, Buying!Cardinality, Cardinality
<1>4. ASSUME NEW rows, NEW stock, NEW pos, NEW lead
      PROVE  Buying!Netted(rows, stock, pos, lead) = Netted(rows, stock, pos, lead)
  BY <1>2, <1>3 DEF Buying!Netted, Netted
<1>5. Buying!Assessed(site, group) = Assessed(site, group)
  BY DEF Buying!Assessed, Assessed
<1>6. ASSUME NEW m PROVE Buying!StockOf(site, m) = StockOf(site, m) /\ Buying!Covering(site, m) = Covering(site, m)
  <2>1. Buying!StockOf(site, m) = StockOf(site, m)
    BY DEF Buying!StockOf, StockOf, Buying!Total, Total, Buying!SumFunction, SumFunction,
           Buying!SumFunctionOnSet, SumFunctionOnSet, Buying!FoldFunctionOnSet, FoldFunctionOnSet,
           Buying!MapThenFoldSet, MapThenFoldSet
  <2>2. Buying!Covering(site, m) = Covering(site, m)
    BY DEF Buying!Covering, Covering
  <2> QED BY <2>1, <2>2
<1>7. \A m : Buying!NettedLines(site, group, m) = NettedLines(site, group, m)
  BY <1>4, <1>5, <1>6 DEF Buying!NettedLines, NettedLines
<1>8. Buying!MaterialsOf(site, group) = MaterialsOf(site, group)
  BY <1>5 DEF Buying!MaterialsOf, MaterialsOf
<1>9. \A l : Buying!ToSet(l) = ToSet(l)
  BY DEF Buying!ToSet, ToSet
<1> QED BY <1>7, <1>8, <1>9 DEF Buying!ReportRows, ReportRows

(* What adds nothing can be left out of a sum.                             *)
LEMMA RestAddsNothing ==
  ASSUME NEW S, IsFiniteSet(S), NEW f, \A x \in S : f[x] \in Int, NEW P \in SUBSET S,
         \A x \in S \ P : f[x] = 0
  PROVE  SumFunctionOnSet(f, S) = SumFunctionOnSet(f, P)
<1> DEFINE R == S \ P
<1>1. /\ IsFiniteSet(P) /\ IsFiniteSet(R) /\ P \cap R = {} /\ \A x \in R : f[x] = 0
      /\ \A x \in P \cup R : f[x] \in Int
  BY FS_Subset
<1>2. S = P \cup R
  OBVIOUS
<1> HIDE DEF R
<1>3. SumFunctionOnSet(f, P \cup R) = SumFunctionOnSet(f, P) + SumFunctionOnSet(f, R)
  BY <1>1, SumUnion
<1>4. SumFunctionOnSet(f, R) = 0
  <2>1. \A x \in R : f[x] \in Nat
    BY <1>1
  <2> QED BY <1>1, <2>1, SumNat
<1>5. SumFunctionOnSet(f, P) \in Int
  BY <1>1, SumInt
<1>6. SumFunctionOnSet(f, P \cup R) = SumFunctionOnSet(f, P)
  BY <1>3, <1>4, <1>5
<1> QED BY <1>2, <1>6, Zenon

(* A line that is short is at risk, unless its row needs nothing more.     *)
LEMMA ShortIsAtRisk ==
  ASSUME NEW l, LineSays(l)
  PROVE  /\ Buying!RowStatus(l) \in Buying!RiskTiers => l.net > 0
         /\ (l.net > 0 \/ l.stockBefore >= 0) /\ l.shortage > 0 => Buying!RowStatus(l) \in Buying!RiskTiers
         /\ Buying!RiskQty(l) \in Int /\ l.shortage <= Buying!RiskQty(l)
<1>1. /\ l.net \in Nat /\ l.stockBefore \in Int /\ l.poCover \in Nat /\ l.shortage \in Nat
      /\ l.shortage = IF l.net > l.stockBefore + l.poCover THEN l.net - l.stockBefore - l.poCover ELSE 0
  BY DEF LineSays
<1>2. l.net = 0 => Buying!RowStatus(l) = "ok"
  BY DEF Buying!RowStatus
<1>3. l.net # 0 /\ l.shortage > 0 => Buying!RowStatus(l) \in {"late_po", "high_risk"}
  BY <1>1 DEF Buying!RowStatus
<1>4. Buying!RiskTiers = {"med_risk", "late_po", "high_risk"}
  BY DEF Buying!RiskTiers
<1>5. Buying!RiskQty(l) = IF l.net - l.stockBefore > 0 THEN l.net - l.stockBefore ELSE 0
  BY <1>1 DEF Buying!RiskQty, Buying!Floor
<1> QED BY <1>1, <1>2, <1>3, <1>4, <1>5

(* A total over some of the lines is their part of one sum.                *)
LEMMA LineTotals ==
  ASSUME NEW lines, IsReport(lines), NEW P \in SUBSET lines
  PROVE  /\ IsFiniteSet(P)
         /\ Buying!SumFunction([l \in P |-> l.shortage]) = SumFunctionOnSet([l \in lines |-> l.shortage], P)
         /\ Buying!SumFunction([l \in P |-> Buying!RiskQty(l)])
              = SumFunctionOnSet([l \in lines |-> Buying!RiskQty(l)], P)
<1> DEFINE f == [l \in lines |-> l.shortage]   g == [l \in P |-> l.shortage]
           q == [l \in lines |-> Buying!RiskQty(l)]   r == [l \in P |-> Buying!RiskQty(l)]
<1>1. IsFiniteSet(lines) /\ \A l \in lines : l.shortage \in Int /\ Buying!RiskQty(l) \in Int
  BY ShortIsAtRisk DEF IsReport, LineSays
<1>2. /\ \A l \in lines : f[l] \in Int /\ q[l] \in Int
      /\ DOMAIN g = P /\ DOMAIN r = P /\ \A l \in P : g[l] = f[l] /\ r[l] = q[l]
  BY <1>1
<1> HIDE DEF f, g, q, r
<1>3. IsFiniteSet(P) /\ SumFunctionOnSet(g, DOMAIN g) = SumFunctionOnSet(f, P)
  BY <1>1, <1>2, PartSum
<1>4. SumFunctionOnSet(r, DOMAIN r) = SumFunctionOnSet(q, P)
  BY <1>1, <1>2, PartSum
<1> QED BY <1>3, <1>4, BuyingFigures DEF f, g, q, r

(* What the insights show of the lines at risk.                            *)
InsightsShow(insights, risky, short, lost, status, material, class) ==
  /\ insights.shortage = SumFunctionOnSet(short, {l \in risky : l.shortage > 0})
  /\ DOMAIN insights.materials = Images(material, risky)
  /\ DOMAIN insights.classes = Images(class, risky)
  /\ \A s \in Buying!RiskTiers : insights.counts[s] = Cardinality(Keyed(risky, status, s))
  /\ \A m \in Images(material, risky) :
       LET mine == Keyed(risky, material, m)   found == insights.materials[m] IN
       /\ found.shortage = SumFunctionOnSet(short, mine)
       /\ \A s \in Buying!RiskTiers : found.tier[s] = SumFunctionOnSet(lost, Keyed(mine, status, s))
  /\ \A c \in Images(class, risky) : insights.classes[c].lines = Cardinality(Keyed(risky, class, c))

LEMMA InsightsDoShow ==
  ASSUME NEW lines, IsReport(lines)
  PROVE  InsightsShow(Buying!ShortageInsights(lines),
           {l \in lines : Buying!RowStatus(l) \in Buying!RiskTiers},
           [l \in lines |-> l.shortage], [l \in lines |-> Buying!RiskQty(l)],
           [l \in lines |-> Buying!RowStatus(l)], [l \in lines |-> l.row.material],
           [l \in lines |-> l.row.class])
<1> DEFINE risky == {l \in lines : Buying!RowStatus(l) \in Buying!RiskTiers}
           short == [l \in lines |-> l.shortage]   lost == [l \in lines |-> Buying!RiskQty(l)]
           status == [l \in lines |-> Buying!RowStatus(l)]
           material == [l \in lines |-> l.row.material]   class == [l \in lines |-> l.row.class]
           insights == Buying!ShortageInsights(lines)
           F(P) == Buying!SumFunction([l \in P |-> l.shortage])
           Q(P) == Buying!SumFunction([l \in P |-> Buying!RiskQty(l)])
           OfM(m) == {l \in risky : l.row.material = m}
           OfC(c) == {l \in risky : l.row.class = c}
           OfS(P, s) == {l \in P : Buying!RowStatus(l) = s}
<1>1. /\ insights.counts = [s \in Buying!RiskTiers |-> Buying!Cardinality(OfS(risky, s))]
      /\ insights.shortage = F({l \in risky : l.shortage > 0})
      /\ DOMAIN insights.materials = {l.row.material : l \in risky}
      /\ \A m \in {l.row.material : l \in risky} :
           /\ insights.materials[m].shortage = F(OfM(m))
           /\ insights.materials[m].tier = [s \in Buying!RiskTiers |-> Q(OfS(OfM(m), s))]
      /\ DOMAIN insights.classes = {l.row.class : l \in risky}
      /\ \A c \in {l.row.class : l \in risky} : insights.classes[c].lines = Buying!Cardinality(OfC(c))
  BY DEF Buying!ShortageInsights, Buying!Total
<1>2. \A P \in SUBSET lines : F(P) = SumFunctionOnSet(short, P) /\ Q(P) = SumFunctionOnSet(lost, P)
  BY LineTotals
<1>3. /\ \A m : OfM(m) = Keyed(risky, material, m)
      /\ \A c : OfC(c) = Keyed(risky, class, c)
      /\ \A P \in SUBSET lines : \A s : OfS(P, s) = Keyed(P, status, s)
      /\ {l.row.material : l \in risky} = Images(material, risky)
      /\ {l.row.class : l \in risky} = Images(class, risky)
  BY DEF Keyed, Images
<1>4. /\ risky \in SUBSET lines /\ {l \in risky : l.shortage > 0} \in SUBSET lines
      /\ \A P \in SUBSET lines : \A f, k : Keyed(P, f, k) \in SUBSET lines
  BY DEF Keyed
<1> HIDE DEF risky, short, lost, status, material, class, insights, F, Q, OfM, OfC, OfS
<1>5. insights.shortage = SumFunctionOnSet(short, {l \in risky : l.shortage > 0})
  BY <1>1, <1>2, <1>4
<1>6. DOMAIN insights.materials = Images(material, risky) /\ DOMAIN insights.classes = Images(class, risky)
  BY <1>1, <1>3
<1>7. ASSUME NEW s \in Buying!RiskTiers PROVE insights.counts[s] = Cardinality(Keyed(risky, status, s))
  BY <1>1, <1>3, <1>4, BuyingFigures
<1>8. ASSUME NEW c \in Images(class, risky)
      PROVE  insights.classes[c].lines = Cardinality(Keyed(risky, class, c))
  BY <1>1, <1>3, BuyingFigures
<1>9. ASSUME NEW m \in Images(material, risky)
      PROVE  /\ insights.materials[m].shortage = SumFunctionOnSet(short, Keyed(risky, material, m))
             /\ \A s \in Buying!RiskTiers :
                  insights.materials[m].tier[s]
                    = SumFunctionOnSet(lost, Keyed(Keyed(risky, material, m), status, s))
  <2>1. OfM(m) = Keyed(risky, material, m) /\ OfM(m) \in SUBSET lines
    BY <1>3, <1>4
  <2>2. insights.materials[m].shortage = F(OfM(m))
        /\ insights.materials[m].tier = [s \in Buying!RiskTiers |-> Q(OfS(OfM(m), s))]
    BY <1>1, <1>3
  <2>3. \A s : OfS(OfM(m), s) = Keyed(OfM(m), status, s) /\ Keyed(OfM(m), status, s) \in SUBSET lines
    BY <1>3, <1>4, <2>1
  <2>4. insights.materials[m].shortage = SumFunctionOnSet(short, OfM(m))
    BY <1>2, <2>1, <2>2
  <2>5. \A s \in Buying!RiskTiers :
          insights.materials[m].tier[s] = SumFunctionOnSet(lost, Keyed(OfM(m), status, s))
    BY <1>2, <2>2, <2>3
  <2> QED BY <2>1, <2>4, <2>5
<1>10. InsightsShow(insights, risky, short, lost, status, material, class)
  BY <1>5, <1>6, <1>7, <1>8, <1>9 DEF InsightsShow
<1> QED BY <1>10 DEF risky, short, lost, status, material, class, insights

(* What the weeks show of the lines within the horizon.                    *)
WeeksShow(weekly, near, short, week) ==
  /\ DOMAIN weekly = Images(week, near)
  /\ \A w \in Images(week, near) :
       /\ weekly[w].qty = SumFunctionOnSet(short, Keyed(near, week, w))
       /\ weekly[w].short = Cardinality({l \in Keyed(near, week, w) : l.shortage > 0})

LEMMA WeeksDoShow ==
  ASSUME NEW site, NEW lines, lines = Buying!ReportRows(site, "fabric"), IsReport(lines), NEW weeks \in Nat
  PROVE  WeeksShow(Buying!WeeklyAvailability(site, weeks),
           {l \in lines : Buying!Within(l.row.due, weeks)}, [l \in lines |-> l.shortage],
           [l \in lines |-> Buying!WeekOf(l.row.due)])
<1> DEFINE near == {l \in lines : Buying!Within(l.row.due, weeks)}
           short == [l \in lines |-> l.shortage]
           week == [l \in lines |-> Buying!WeekOf(l.row.due)]
           weekly == Buying!WeeklyAvailability(site, weeks)
           F(P) == Buying!SumFunction([l \in P |-> l.shortage])
           Of(w) == {l \in near : Buying!WeekOf(l.row.due) = w}
<1>1. weekly = [w \in {Buying!WeekOf(l.row.due) : l \in near} |->
                  [total |-> Buying!Cardinality(Of(w)),
                   short |-> Buying!Cardinality({l \in Of(w) : l.shortage > 0}), qty |-> F(Of(w))]]
  BY DEF Buying!WeeklyAvailability, Buying!Total
<1>2. \A P \in SUBSET lines : F(P) = SumFunctionOnSet(short, P)
  BY LineTotals
<1>3. /\ \A w : Of(w) = Keyed(near, week, w) /\ Of(w) \in SUBSET lines
      /\ {Buying!WeekOf(l.row.due) : l \in near} = Images(week, near)
  BY DEF Keyed, Images
<1> HIDE DEF near, short, week, weekly, F, Of
<1>4. DOMAIN weekly = Images(week, near)
  BY <1>1, <1>3
<1>5. ASSUME NEW w \in Images(week, near)
      PROVE  /\ weekly[w].qty = SumFunctionOnSet(short, Keyed(near, week, w))
             /\ weekly[w].short = Cardinality({l \in Keyed(near, week, w) : l.shortage > 0})
  <2>1. weekly[w].qty = F(Of(w)) /\ weekly[w].short = Buying!Cardinality({l \in Of(w) : l.shortage > 0})
    BY <1>1, <1>3
  <2>2. Of(w) = Keyed(near, week, w) /\ Of(w) \in SUBSET lines
    BY <1>3
  <2> QED BY <1>2, <2>1, <2>2, BuyingFigures
<1>6. WeeksShow(weekly, near, short, week)
  BY <1>4, <1>5 DEF WeeksShow
<1> QED BY <1>6 DEF near, short, week, weekly

(* The shortages of a set of lines are none exactly if no line is short.   *)
LEMMA SomeIsShort ==
  ASSUME NEW lines, IsReport(lines), NEW P \in SUBSET lines
  PROVE  SumFunctionOnSet([l \in lines |-> l.shortage], P) > 0 <=> Cardinality({l \in P : l.shortage > 0}) > 0
<1> DEFINE f == [l \in lines |-> l.shortage]   S == {l \in P : l.shortage > 0}
<1>1. IsFiniteSet(P) /\ \A l \in P : f[l] \in Nat /\ f[l] = l.shortage
  BY FS_Subset DEF IsReport, LineSays
<1>2. S = {} <=> \A l \in P : f[l] = 0
  <2>1. \A l \in P : l.shortage \in Nat /\ f[l] = l.shortage
    BY <1>1
  <2>2. S = {} <=> \A l \in P : ~(l.shortage > 0)
    BY Zenon
  <2>3. \A l \in P : ~(l.shortage > 0) <=> f[l] = 0
    <3> HIDE DEF f, S
    <3> QED BY <2>1
  <2> HIDE DEF f, S
  <2> QED BY <2>2, <2>3, Zenon
<1>3. IsFiniteSet(S)
  BY <1>1, FS_Subset
<1> HIDE DEF f, S
<1>4. SumFunctionOnSet(f, P) \in Nat /\ (SumFunctionOnSet(f, P) = 0 <=> \A l \in P : f[l] = 0)
  BY <1>1, SumNat
<1>5. Cardinality(S) \in Nat /\ (Cardinality(S) = 0 <=> S = {})
  BY <1>3, FS_CardinalityType, FS_EmptySet
<1>6. SumFunctionOnSet(f, P) > 0 <=> Cardinality(S) > 0
  BY <1>2, <1>4, <1>5
<1> QED BY <1>6 DEF f, S

(* insights.py: no shortage of the report is missing from the weeks, nor   *)
(* from the insights unless its row needs nothing more and only the stock  *)
(* is below zero; every material's tiers hold its shortage.                *)
THEOREM InsightsAddUp ==
  ASSUME NEW site, NEW lines, lines = Buying!ReportRows(site, "fabric"), IsReport(lines), NEW weeks \in Nat
  PROVE  Buying!InsightsAgree(lines, Buying!ShortageInsights(lines),
                              Buying!WeeklyAvailability(site, weeks), weeks)
<1> DEFINE risky == {l \in lines : Buying!RowStatus(l) \in Buying!RiskTiers}
           needy == {l \in lines : l.net > 0 \/ l.stockBefore >= 0}
           some == {l \in risky : l.shortage > 0}
           near == {l \in lines : Buying!Within(l.row.due, weeks)}
           short == [l \in lines |-> l.shortage]   lost == [l \in lines |-> Buying!RiskQty(l)]
           status == [l \in lines |-> Buying!RowStatus(l)]
           material == [l \in lines |-> l.row.material]   class == [l \in lines |-> l.row.class]
           week == [l \in lines |-> Buying!WeekOf(l.row.due)]
           insights == Buying!ShortageInsights(lines)
           weekly == Buying!WeeklyAvailability(site, weeks)
           M == Images(material, risky)   C == Images(class, risky)   W == Images(week, near)
           T == Buying!RiskTiers
           shortages == [m \in M |-> insights.materials[m].shortage]
           counts == [s \in T |-> insights.counts[s]]
           classes == [c \in C |-> insights.classes[c].lines]
           tiers(m) == [s \in T |-> insights.materials[m].tier[s]]
           qtys == [w \in W |-> weekly[w].qty]
<1>1. InsightsShow(insights, risky, short, lost, status, material, class)
  BY InsightsDoShow
<1>2. WeeksShow(weekly, near, short, week)
  BY WeeksDoShow
<1>3. /\ IsFiniteSet(lines)
      /\ \A l \in lines : /\ short[l] \in Nat /\ lost[l] \in Int /\ short[l] <= lost[l]
                          /\ short[l] = l.shortage
                          /\ Buying!RowStatus(l) \in T => l.net > 0
                          /\ (l.net > 0 \/ l.stockBefore >= 0) /\ l.shortage > 0 => Buying!RowStatus(l) \in T
  BY ShortIsAtRisk DEF IsReport, LineSays
<1>4. /\ some \in SUBSET risky /\ risky \in SUBSET lines /\ needy \in SUBSET lines /\ near \in SUBSET lines
      /\ some \in SUBSET needy
      /\ \A l \in risky : l \notin some => short[l] = 0
      /\ \A l \in needy : l \notin some => short[l] = 0
  BY <1>3
<1>5. /\ IsFiniteSet(risky) /\ IsFiniteSet(needy) /\ IsFiniteSet(near) /\ IsFiniteSet(some)
      /\ IsFiniteSet(M) /\ IsFiniteSet(C) /\ IsFiniteSet(W)
  <2>1. IsFiniteSet(risky) /\ IsFiniteSet(needy) /\ IsFiniteSet(near)
    BY <1>3, <1>4, FS_Subset
  <2>2. IsFiniteSet(some)
    BY <1>4, <2>1, FS_Subset
  <2> HIDE DEF risky, near, needy, some, material, class, week
  <2> QED BY <2>1, <2>2, ImageFinite
<1>6. IsFiniteSet(T)
  <2>1. IsFiniteSet({"med_risk"})
    BY FS_Singleton
  <2>2. IsFiniteSet({"med_risk"} \cup {"late_po"})
    BY <2>1, FS_AddElement
  <2>3. IsFiniteSet(({"med_risk"} \cup {"late_po"}) \cup {"high_risk"})
    BY <2>2, FS_AddElement
  <2>4. T = ({"med_risk"} \cup {"late_po"}) \cup {"high_risk"}
    BY DEF Buying!RiskTiers
  <2> QED BY <2>3, <2>4, Zenon
<1>7. /\ \A l \in risky : status[l] \in T /\ material[l] \in M /\ class[l] \in C
      /\ \A l \in near : week[l] \in W
  BY DEF Images
<1>8. \A P, f, k : Keyed(P, f, k) \in SUBSET P
  BY DEF Keyed
<1>9. /\ Buying!Total(lines, LAMBDA l : l.shortage) = Buying!SumFunction([l \in lines |-> l.shortage])
      /\ Buying!Total(needy, LAMBDA l : l.shortage) = SumFunctionOnSet(short, needy)
      /\ Buying!Total(near, LAMBDA l : l.shortage) = SumFunctionOnSet(short, near)
  <2>1. \A P : Buying!Total(P, LAMBDA l : l.shortage) = Buying!SumFunction([l \in P |-> l.shortage])
    BY DEF Buying!Total
  <2>2. \A P \in SUBSET lines : Buying!SumFunction([l \in P |-> l.shortage]) = SumFunctionOnSet(short, P)
    BY LineTotals
  <2> HIDE DEF short, needy, near
  <2> QED BY <1>4, <2>1, <2>2
<1>10. /\ Buying!Total(DOMAIN insights.materials, LAMBDA m : insights.materials[m].shortage)
            = Buying!SumFunction(shortages)
       /\ Buying!Total(DOMAIN insights.classes, LAMBDA c : insights.classes[c].lines)
            = Buying!SumFunction(classes)
       /\ Buying!Total(T, LAMBDA s : insights.counts[s]) = Buying!SumFunction(counts)
       /\ Buying!Total(DOMAIN weekly, LAMBDA w : weekly[w].qty) = Buying!SumFunction(qtys)
       /\ \A m : Buying!Total(T, LAMBDA s : insights.materials[m].tier[s]) = Buying!SumFunction(tiers(m))
  <2>1. DOMAIN insights.materials = M /\ DOMAIN insights.classes = C /\ DOMAIN weekly = W
    BY <1>1, <1>2 DEF InsightsShow, WeeksShow
  <2> HIDE DEF insights, weekly, M, C, W, T
  <2> QED BY <2>1 DEF Buying!Total
<1>11. /\ DOMAIN shortages = M /\ DOMAIN classes = C /\ DOMAIN counts = T /\ DOMAIN qtys = W
       /\ \A m : DOMAIN tiers(m) = T
  OBVIOUS
<1>12. /\ \A m \in M : /\ shortages[m] = SumFunctionOnSet(short, Keyed(risky, material, m))
                       /\ insights.materials[m].shortage = SumFunctionOnSet(short, Keyed(risky, material, m))
                       /\ \A s \in T : tiers(m)[s]
                            = SumFunctionOnSet(lost, Keyed(Keyed(risky, material, m), status, s))
       /\ \A c \in C : classes[c] = Cardinality(Keyed(risky, class, c))
       /\ \A s \in T : counts[s] = Cardinality(Keyed(risky, status, s))
       /\ insights.shortage = SumFunctionOnSet(short, some)
       /\ DOMAIN insights.materials = M
  <2> HIDE DEF insights, risky, short, lost, status, material, class, M, C, T
  <2> QED BY <1>1 DEF InsightsShow, M, C, T
<1>13. \A w \in W : /\ qtys[w] = SumFunctionOnSet(short, Keyed(near, week, w))
                    /\ weekly[w].qty = SumFunctionOnSet(short, Keyed(near, week, w))
                    /\ weekly[w].short = Cardinality({l \in Keyed(near, week, w) : l.shortage > 0})
  <2> HIDE DEF weekly, near, short, week
  <2> QED BY <1>2 DEF WeeksShow
<1>14. /\ \A l \in risky : short[l] \in Int /\ lost[l] \in Int
       /\ \A l \in needy : short[l] \in Int
       /\ \A l \in near : short[l] \in Int
  BY <1>3
<1>15. \A P \in SUBSET lines : SumFunctionOnSet(short, P) > 0 <=> Cardinality({l \in P : l.shortage > 0}) > 0
  BY SomeIsShort
<1> HIDE DEF risky, needy, some, near, short, lost, status, material, class, week, insights, weekly, M, C, W, T,
             shortages, counts, classes, tiers, qtys
<1>16. SumFunctionOnSet(short, needy) = SumFunctionOnSet(short, some)
       /\ SumFunctionOnSet(short, risky) = SumFunctionOnSet(short, some)
  BY <1>4, <1>5, <1>14, RestAddsNothing
<1>17. Buying!SumFunction(shortages) = SumFunctionOnSet(short, risky)
  <2>1. SumFunctionOnSet(shortages, M) = SumFunctionOnSet(short, risky)
    BY <1>5, <1>7, <1>12, <1>14, SumByKey
  <2> QED BY <1>11, <2>1, BuyingFigures
<1>18. Buying!SumFunction(classes) = Cardinality(risky)
  <2>1. SumFunctionOnSet(classes, C) = Cardinality(risky)
    BY <1>5, <1>7, <1>12, CountByKey
  <2> QED BY <1>11, <2>1, BuyingFigures
<1>19. Buying!SumFunction(counts) = Cardinality(risky)
  <2>1. SumFunctionOnSet(counts, T) = Cardinality(risky)
    <3>1. IsFiniteSet(risky) /\ IsFiniteSet(T) /\ \A l \in risky : status[l] \in T
      BY <1>5, <1>6, <1>7, Zenon
    <3>2. \A s \in T : counts[s] = Cardinality(Keyed(risky, status, s))
      BY <1>12, Zenon
    <3> QED BY <3>1, <3>2, CountByKey
  <2> QED BY <1>11, <2>1, BuyingFigures
<1>20. Buying!SumFunction(qtys) = SumFunctionOnSet(short, near)
  <2>1. SumFunctionOnSet(qtys, W) = SumFunctionOnSet(short, near)
    <3>1. IsFiniteSet(near) /\ IsFiniteSet(W)
          /\ (\A l \in near : short[l] \in Int) /\ (\A l \in near : week[l] \in W)
      BY <1>5, <1>7, <1>14, Zenon
    <3>2. \A w \in W : qtys[w] = SumFunctionOnSet(short, Keyed(near, week, w))
      BY <1>13, Zenon
    <3> QED BY <3>1, <3>2, SumByKey
  <2> QED BY <1>11, <2>1, BuyingFigures
<1>21. ASSUME NEW m \in M PROVE insights.materials[m].shortage <= Buying!SumFunction(tiers(m))
  <2> DEFINE mine == Keyed(risky, material, m)
  <2>1. mine \in SUBSET risky /\ mine \in SUBSET lines
    BY <1>4, <1>8
  <2>2. IsFiniteSet(mine) /\ \A l \in mine : /\ lost[l] \in Int /\ short[l] \in Int /\ short[l] <= lost[l]
                                             /\ status[l] \in T
    BY <1>3, <1>5, <1>7, <1>14, <2>1, FS_Subset
  <2>3. /\ insights.materials[m].shortage = SumFunctionOnSet(short, mine)
        /\ \A s \in T : tiers(m)[s] = SumFunctionOnSet(lost, Keyed(mine, status, s))
    BY <1>12
  <2> HIDE DEF mine
  <2>4. SumFunctionOnSet(tiers(m), T) = SumFunctionOnSet(lost, mine)
    BY <1>6, <2>2, <2>3, SumByKey
  <2>5. SumFunctionOnSet(short, mine) <= SumFunctionOnSet(lost, mine)
    BY <2>2, SumAtMost
  <2>6. Buying!SumFunction(tiers(m)) = SumFunctionOnSet(tiers(m), T)
    BY <1>11, BuyingFigures
  <2> QED BY <2>3, <2>4, <2>5, <2>6
<1>22. ASSUME NEW w \in W PROVE weekly[w].qty > 0 <=> weekly[w].short > 0
  <2>1. Keyed(near, week, w) \in SUBSET lines
    BY <1>4, <1>8
  <2> QED BY <1>13, <1>15, <2>1
<1>23. insights.shortage = Buying!Total(needy, LAMBDA l : l.shortage)
  BY <1>9, <1>12, <1>16, Zenon
<1>24. Buying!Total(DOMAIN insights.materials, LAMBDA m : insights.materials[m].shortage) = insights.shortage
  BY <1>10, <1>12, <1>16, <1>17, Zenon
<1>25. Buying!Total(DOMAIN insights.classes, LAMBDA c : insights.classes[c].lines)
         = Buying!Total(T, LAMBDA s : insights.counts[s])
  BY <1>10, <1>18, <1>19, Zenon
<1>26. Buying!Total(DOMAIN weekly, LAMBDA w : weekly[w].qty) = Buying!Total(near, LAMBDA l : l.shortage)
  BY <1>9, <1>10, <1>20, Zenon
<1>27. \A m \in DOMAIN insights.materials : insights.materials[m].shortage
         <= Buying!Total(T, LAMBDA s : insights.materials[m].tier[s])
  <2>1. DOMAIN insights.materials = M
    BY <1>12, Zenon
  <2>2. ASSUME NEW m \in M
        PROVE  insights.materials[m].shortage <= Buying!Total(T, LAMBDA s : insights.materials[m].tier[s])
    BY <1>10, <1>21, <2>2, Zenon
  <2> QED BY <2>1, <2>2, Zenon
<1>28. \A w \in DOMAIN weekly : weekly[w].qty > 0 <=> weekly[w].short > 0
  <2>1. DOMAIN weekly = W
    BY <1>2 DEF WeeksShow, W
  <2> QED BY <1>22, <2>1
<1>29. Buying!InsightsAgree(lines, insights, weekly, weeks)
  BY <1>23, <1>24, <1>25, <1>26, <1>27, <1>28, Zenon DEF Buying!InsightsAgree, needy, near, T
<1> QED BY <1>29 DEF insights, weekly

(* materials/services/: the purchasing pages agree on any site.            *)
THEOREM PurchasingAgrees ==
  ASSUME NEW site, SiteTables(site), "fabric" \in DOMAIN site.lead, NEW needs, IsNeed(needs), NEW weeks \in Nat
  PROVE  Buying!PurchasingAgreesFor(site, needs, weeks)
<1> DEFINE lines == Buying!ReportRows(site, "fabric")
<1>1. IsReport(lines)
  BY ReportSays, BuyingNets
<1>2. Buying!InsightsAgree(lines, Buying!ShortageInsights(lines),
                           Buying!WeeklyAvailability(site, weeks), weeks)
  BY <1>1, InsightsAddUp
<1> HIDE DEF lines
<1>3. Buying!PurchasesAgree(Buying!NamedSuppliers(Buying!OpenPos(site)),
           Buying!PurchasingDashboard(site, weeks), Buying!SupplierDelivery(site),
           Buying!Cardinality({po \in Buying!OpenPos(site) : ~Buying!Within(po.due, weeks)}))
  BY PurchasesAddUp
<1>4. Buying!CoverageAgreesIn(Buying!WeeklySoBreakdown(site, needs, weeks, "all"),
           Buying!CoverageOrders(site, needs, weeks, "fabric"),
           Buying!CoverageOrders(site, needs, weeks, "component"))
  BY CoverageAddsUp
<1> QED BY <1>2, <1>3, <1>4, Zenon DEF Buying!PurchasingAgreesFor, lines

-----------------------------------------------------------------------------
(***************************************************************************)
(* The sales pages.                                                        *)
(***************************************************************************)
(* The joined rows as the table holds them: the rows of an order have one  *)
(* customer and one type, those of a release one price and one date.       *)
IsSales(rows) ==
  /\ IsFiniteSet(rows)
  /\ \A r \in rows : /\ r.id \in Int /\ r.order \in Int /\ r.open \in BOOLEAN /\ r.price \in Nat /\ r.qty \in Int
                     /\ r.due \in Int \cup {NoDate}
  /\ \A r, x \in rows :
       /\ r.id = x.id => r = x
       /\ r.order = x.order => r.customer = x.customer /\ r.type = x.type
       /\ r.order = x.order /\ r.line = x.line => r.price = x.price /\ r.due = x.due

Prices(rows) == [r \in rows |-> r.price]
Quantities(rows) == [r \in rows |-> r.qty]
RealUnits(rows) == [r \in rows |-> Sales!UnitQty(r)]

(* What the pages sum over some of the rows.                               *)
LEMMA SalesTotals ==
  ASSUME NEW all, IsSales(all), NEW P \in SUBSET all
  PROVE  /\ IsFiniteSet(P)
         /\ Sales!Value(P) = SumFunctionOnSet(Prices(all), P) /\ Sales!Value(P) \in Nat
         /\ Sales!Qty(P) = SumFunctionOnSet(Quantities(all), P) /\ Sales!Qty(P) \in Int
         /\ Sales!Units(P) = SumFunctionOnSet(RealUnits(all), P) /\ Sales!Units(P) \in Int
<1> DEFINE f == [r \in P |-> r.price]   g == [r \in P |-> r.qty]   h == [r \in P |-> Sales!UnitQty(r)]
<1>1. /\ Sales!Value(P) = Sales!SumFunction(f) /\ Sales!Qty(P) = Sales!SumFunction(g)
      /\ Sales!Units(P) = Sales!SumFunction(h)
  BY DEF Sales!Value, Sales!Qty, Sales!Units, Sales!Total
<1>2. \A r \in all : r.price \in Nat /\ r.qty \in Int /\ Sales!UnitQty(r) \in Int
  BY DEF IsSales, Sales!UnitQty
<1>3. /\ DOMAIN f = P /\ DOMAIN g = P /\ DOMAIN h = P
      /\ \A r \in P : f[r] = Prices(all)[r] /\ g[r] = Quantities(all)[r] /\ h[r] = RealUnits(all)[r]
      /\ \A r \in all : /\ Prices(all)[r] \in Nat /\ Prices(all)[r] \in Int
                        /\ Quantities(all)[r] \in Int /\ RealUnits(all)[r] \in Int
  BY <1>2 DEF Prices, Quantities, RealUnits
<1>4. IsFiniteSet(all) /\ IsFiniteSet(P)
  BY FS_Subset DEF IsSales
<1> HIDE DEF f, g, h
<1>5. SumFunctionOnSet(f, DOMAIN f) = SumFunctionOnSet(Prices(all), P)
  BY <1>3, <1>4, PartSum
<1>6. SumFunctionOnSet(g, DOMAIN g) = SumFunctionOnSet(Quantities(all), P)
  BY <1>3, <1>4, PartSum
<1>7. SumFunctionOnSet(h, DOMAIN h) = SumFunctionOnSet(RealUnits(all), P)
  BY <1>3, <1>4, PartSum
<1>8. SumFunctionOnSet(Prices(all), P) \in Nat
  BY <1>3, <1>4, SumNat
<1>9. SumFunctionOnSet(Quantities(all), P) \in Int /\ SumFunctionOnSet(RealUnits(all), P) \in Int
  <2>1. \A r \in P : Quantities(all)[r] \in Int /\ RealUnits(all)[r] \in Int
    BY <1>3
  <2> QED BY <1>4, <2>1, SumInt
<1> QED BY <1>1, <1>4, <1>5, <1>6, <1>7, <1>8, <1>9, SalesFigures

(* A release has one row among the first ones.                             *)
LEMMA OneRowEach ==
  ASSUME NEW all, IsSales(all), NEW B \in SUBSET all
  PROVE  LET D == Sales!Dedup(B) IN
         /\ D \in SUBSET B /\ D \in SUBSET all
         /\ \A r \in B : \E x \in D : /\ x.order = r.order /\ x.line = r.line
                                      /\ x.price = r.price /\ x.due = r.due
         /\ \A x, y \in D : x.order = y.order /\ x.line = y.line => x = y
         /\ Sales!OrdersIn(D) = Sales!OrdersIn(B)
<1> DEFINE D == Sales!Dedup(B)
<1>1. D = {r \in B : \A x \in B : x.order = r.order /\ x.line = r.line => r.id <= x.id}
  BY DEF Sales!Dedup
<1>2. D \in SUBSET B /\ D \in SUBSET all
  BY <1>1
<1>3. ASSUME NEW x \in D, NEW y \in D, x.order = y.order, x.line = y.line PROVE x = y
  <2>1. x.id <= y.id /\ y.id <= x.id /\ x.id \in Int /\ y.id \in Int
    BY <1>1, <1>2, <1>3 DEF IsSales
  <2>2. x.id = y.id
    BY <2>1
  <2> QED BY <1>2, <2>2 DEF IsSales
<1>4. ASSUME NEW r \in B
      PROVE  \E x \in D : x.order = r.order /\ x.line = r.line /\ x.price = r.price /\ x.due = r.due
  <2> DEFINE S == {x \in B : x.order = r.order /\ x.line = r.line}
             f == [x \in S |-> x.id]
  <2>1. IsFiniteSet(S) /\ r \in S
    <3>1. IsFiniteSet(B)
      BY FS_Subset DEF IsSales
    <3> QED BY <3>1, FS_Subset
  <2>2. /\ Images(f, S) \subseteq Int /\ f[r] \in Images(f, S)
        /\ \A k \in Images(f, S) : \E x \in S : x.id = k
        /\ \A x \in S : x.id \in Images(f, S)
    BY <2>1 DEF Images, IsSales
  <2> HIDE DEF S, f
  <2>3. PICK m \in Images(f, S) : \A k \in Images(f, S) : m <= k
    BY <2>1, <2>2, ImageFinite, LeastExists
  <2>4. PICK x \in S : x.id = m
    BY <2>2
  <2>5. \A y \in S : x.id <= y.id
    BY <2>2, <2>3, <2>4
  <2>6. x \in B /\ x.order = r.order /\ x.line = r.line
    BY <2>4 DEF S
  <2>7. x \in D
    BY <1>1, <2>5, <2>6 DEF S
  <2> QED BY <2>6, <2>7 DEF IsSales
<1>5. Sales!OrdersIn(D) = Sales!OrdersIn(B)
  BY <1>2, <1>4 DEF Sales!OrdersIn
<1> QED BY <1>2, <1>3, <1>4, <1>5

(* As many elements as images, when no two elements share one.             *)
LEMMA CountOfImages ==
  ASSUME NEW S, IsFiniteSet(S), NEW f, \A x, y \in S : f[x] = f[y] => x = y
  PROVE  IsFiniteSet(Images(f, S)) /\ Cardinality(Images(f, S)) = Cardinality(S)
<1> DEFINE T == Images(f, S)   g == [x \in S |-> f[x]]
<1>1. g \in Bijection(S, T)
  BY DEF Bijection, Injection, Surjection, IsInjective, Images
<1> HIDE DEF T, g
<1>2. IsFiniteSet(T) /\ Cardinality(T) = Cardinality(S)
  BY <1>1, FS_Bijection DEF ExistsBijection
<1> QED BY <1>2 DEF T

LEMMA FirstDue ==
  ASSUME NEW days, IsFiniteSet(days), days \subseteq Int \cup {NoDate}
  PROVE  LET first == Sales!EarliestOf(days) IN
         /\ first \in Int \cup {NoDate}
         /\ Sales!IsBefore(first, 0) <=> \E d \in days : Sales!IsBefore(d, 0)
<1> DEFINE S == days \ {NoDate}   first == Sales!EarliestOf(days)
<1>1. CASE days \subseteq {NoDate}
  BY <1>1 DEF Sales!EarliestOf, Sales!IsBefore
<1>2. CASE ~(days \subseteq {NoDate})
  <2>1. S # {} /\ S \subseteq Int /\ IsFiniteSet(S) /\ NoDate \notin S
    BY <1>2, FS_RemoveElement
  <2>2. first = Sales!Min(S)
    BY <1>2 DEF Sales!EarliestOf
  <2>3. \A d : d \in S <=> d \in days /\ d # NoDate
    OBVIOUS
  <2> HIDE DEF S, first
  <2>4. \E m \in S : \A k \in S : m <= k
    BY <2>1, LeastExists
  <2>5. Sales!Min(S) \in S /\ \A k \in S : Sales!Min(S) <= k
    BY <2>4 DEF Sales!Min
  <2>6. first \in S /\ \A k \in S : first <= k
    BY <2>2, <2>5
  <2>7. \A d : Sales!IsBefore(d, 0) <=> d # NoDate /\ d < 0
    BY NoDateAssumption DEF Sales!IsBefore
  <2>8. first \in Int /\ first # NoDate
    BY <2>1, <2>6
  <2>9. Sales!IsBefore(first, 0) <=> \E d \in days : Sales!IsBefore(d, 0)
    <3>1. ASSUME Sales!IsBefore(first, 0) PROVE \E d \in days : Sales!IsBefore(d, 0)
      BY <2>3, <2>6, <3>1
    <3>2. ASSUME NEW d \in days, Sales!IsBefore(d, 0) PROVE Sales!IsBefore(first, 0)
      <4>1. d \in S /\ d \in Int /\ d < 0
        BY <2>1, <2>3, <2>7, <3>2
      <4>2. first <= d
        BY <2>6, <4>1
      <4> QED BY <2>7, <2>8, <4>1, <4>2
    <3> QED BY <3>1, <3>2
  <2> QED BY <2>8, <2>9 DEF first
<1> QED BY <1>1, <1>2

(* The rows of one order.                                                  *)
OfOrder(rows, o) == {r \in rows : r.order = o}
LateRows(rows) == {r \in rows : Sales!Late(r)}
OfCustomer(rows, c) == {r \in rows : r.customer = c}
OfModel(rows, m) == {r \in rows : r.model = m}
Values(entries) == [e \in entries |-> e.value]

(* The entries of a list: one for each order, with the value of its rows,  *)
(* late if one of them is.                                                 *)
LEMMA EntriesAre ==
  ASSUME NEW all, IsSales(all), NEW rows \in SUBSET all
  PROVE  LET E == Sales!Entries(rows) IN
         /\ IsFiniteSet(E)
         /\ \A e \in E : /\ e = Sales!Entry(rows, e.order) /\ \E r \in rows : r.order = e.order
                         /\ e.value = Sales!Value(OfOrder(rows, e.order)) /\ e.value \in Nat
                         /\ e.due \in Int \cup {NoDate}
                         /\ Sales!IsBefore(e.due, 0) <=> \E r \in rows : r.order = e.order /\ Sales!Late(r)
         /\ \A r \in rows : Sales!Entry(rows, r.order) \in E
         /\ \A o : Sales!Entry(rows, o).order = o
<1> DEFINE E == Sales!Entries(rows)
           f == [o \in Sales!OrdersIn(rows) |-> Sales!Entry(rows, o)]
           days(o) == {r.due : r \in OfOrder(rows, o)}
<1>1. \A o : /\ Sales!Entry(rows, o).order = o
             /\ Sales!Entry(rows, o).due = Sales!EarliestOf(days(o))
             /\ Sales!Entry(rows, o).value = Sales!Value(OfOrder(rows, o))
  BY DEF Sales!Entry, OfOrder
<1>2. E = {Sales!Entry(rows, o) : o \in Sales!OrdersIn(rows)}
  BY DEF Sales!Entries
<1>3. \A o : o \in Sales!OrdersIn(rows) <=> \E r \in rows : r.order = o
  BY DEF Sales!OrdersIn
<1>4. IsFiniteSet(rows)
  BY SalesTotals
<1>5. IsFiniteSet(E)
  <2> DEFINE k == [r \in rows |-> Sales!Entry(rows, r.order)]
  <2>1. E = Images(k, rows)
    BY <1>2 DEF Images, Sales!OrdersIn
  <2> HIDE DEF k, E
  <2> QED BY <1>4, <2>1, ImageFinite
<1>6. \A e \in E : e = Sales!Entry(rows, e.order) /\ \E r \in rows : r.order = e.order
  BY <1>1, <1>2, <1>3
<1>7. \A r \in rows : Sales!Entry(rows, r.order) \in E
  BY <1>2, <1>3
<1>8. \A o : OfOrder(rows, o) \in SUBSET rows /\ OfOrder(rows, o) \in SUBSET all
  BY DEF OfOrder
<1>9. \A o : Sales!Value(OfOrder(rows, o)) \in Nat
  BY <1>8, SalesTotals
<1>10. ASSUME NEW o
       PROVE  /\ Sales!Entry(rows, o).due \in Int \cup {NoDate}
              /\ Sales!IsBefore(Sales!Entry(rows, o).due, 0)
                   <=> \E r \in rows : r.order = o /\ Sales!Late(r)
  <2> DEFINE k == [r \in OfOrder(rows, o) |-> r.due]
  <2>1. days(o) = Images(k, OfOrder(rows, o)) /\ days(o) \subseteq Int \cup {NoDate}
    BY <1>8 DEF Images, IsSales
  <2>2. IsFiniteSet(OfOrder(rows, o))
    BY <1>8, SalesTotals
  <2>4. (\E d \in days(o) : Sales!IsBefore(d, 0)) <=> \E r \in rows : r.order = o /\ Sales!Late(r)
    BY DEF OfOrder, Sales!Late
  <2> HIDE DEF days, k
  <2>5. IsFiniteSet(days(o))
    BY <2>1, <2>2, ImageFinite
  <2> QED BY <1>1, <2>1, <2>4, <2>5, FirstDue
<1> HIDE DEF E, days
<1>11. \A e \in E : /\ e.value = Sales!Value(OfOrder(rows, e.order)) /\ e.value \in Nat
                    /\ e.due \in Int \cup {NoDate}
                    /\ Sales!IsBefore(e.due, 0) <=> \E r \in rows : r.order = e.order /\ Sales!Late(r)
  <2> SUFFICES ASSUME NEW e \in E
               PROVE  /\ e.value = Sales!Value(OfOrder(rows, e.order)) /\ e.value \in Nat
                      /\ e.due \in Int \cup {NoDate}
                      /\ Sales!IsBefore(e.due, 0) <=> \E r \in rows : r.order = e.order /\ Sales!Late(r)
    OBVIOUS
  <2> DEFINE o == e.order
  <2>1. e = Sales!Entry(rows, o)
    BY <1>6
  <2> HIDE DEF o
  <2>2. e.value = Sales!Value(OfOrder(rows, o)) /\ e.value \in Nat
    BY <1>1, <1>9, <2>1
  <2>3. /\ e.due \in Int \cup {NoDate}
        /\ Sales!IsBefore(e.due, 0) <=> \E r \in rows : r.order = o /\ Sales!Late(r)
    BY <1>10, <2>1
  <2> QED BY <2>2, <2>3 DEF o
<1>12. \A o : Sales!Entry(rows, o).order = o
  BY <1>1
<1> QED BY <1>5, <1>6, <1>7, <1>11, <1>12 DEF E

(* A list adds up to its rows, order by order.                             *)
LEMMA EntriesCount ==
  ASSUME NEW all, IsSales(all), NEW rows \in SUBSET all
  PROVE  LET E == Sales!Entries(rows) IN
         /\ SumFunctionOnSet(Values(E), E) = Sales!Value(rows)
         /\ Cardinality(E) = Sales!CountOrders(rows)
         /\ Cardinality(Sales!LateEntries(rows)) = Sales!CountOrders(LateRows(rows))
<1> DEFINE E == Sales!Entries(rows)   L == Sales!LateEntries(rows)
           key == [r \in rows |-> Sales!Entry(rows, r.order)]
           number == [e \in E |-> e.order]
<1>1. /\ IsFiniteSet(E)
      /\ \A e \in E : /\ e = Sales!Entry(rows, e.order) /\ \E r \in rows : r.order = e.order
                      /\ e.value = Sales!Value(OfOrder(rows, e.order)) /\ e.value \in Nat
                      /\ Sales!IsBefore(e.due, 0) <=> \E r \in rows : r.order = e.order /\ Sales!Late(r)
      /\ \A r \in rows : Sales!Entry(rows, r.order) \in E
      /\ \A o : Sales!Entry(rows, o).order = o
  BY EntriesAre
<1>2. L \in SUBSET E /\ \A e \in E : e \in L <=> Sales!IsBefore(e.due, 0)
  BY DEF Sales!LateEntries
<1>3. /\ \A e \in E : number[e] = e.order
      /\ Values(E) = [e \in E |-> e.value]
      /\ \A r \in rows : key[r] = Sales!Entry(rows, r.order)
  BY DEF Values
<1>4. /\ Sales!OrdersIn(rows) = {r.order : r \in rows}
      /\ Sales!OrdersIn(LateRows(rows)) = {r.order : r \in LateRows(rows)}
      /\ Sales!CountOrders(rows) = Cardinality(Sales!OrdersIn(rows))
      /\ Sales!CountOrders(LateRows(rows)) = Cardinality(Sales!OrdersIn(LateRows(rows)))
  BY SalesFigures DEF Sales!OrdersIn, Sales!CountOrders
<1>5. IsFiniteSet(rows) /\ Sales!Value(rows) = SumFunctionOnSet(Prices(all), rows)
  BY SalesTotals
<1>6. \A r \in rows : Prices(all)[r] \in Int
  BY DEF IsSales, Prices
<1> HIDE DEF E, L, number, key
<1>7. \A e \in E : Values(E)[e] = SumFunctionOnSet(Prices(all), Keyed(rows, key, e))
  <2> SUFFICES ASSUME NEW e \in E
               PROVE  Values(E)[e] = SumFunctionOnSet(Prices(all), Keyed(rows, key, e))
    OBVIOUS
  <2>1. Keyed(rows, key, e) = OfOrder(rows, e.order)
    <3>1. \A r \in rows : key[r] = e <=> r.order = e.order
      BY <1>1, <1>3
    <3> QED BY <3>1 DEF Keyed, OfOrder
  <2>2. OfOrder(rows, e.order) \in SUBSET all
    BY DEF OfOrder
  <2>3. Values(E)[e] = Sales!Value(OfOrder(rows, e.order))
    BY <1>1, <1>3
  <2> QED BY <2>1, <2>2, <2>3, SalesTotals
<1>8. SumFunctionOnSet(Values(E), E) = Sales!Value(rows)
  <2>1. \A r \in rows : key[r] \in E
    BY <1>1, <1>3
  <2>2. SumFunctionOnSet(Values(E), E) = SumFunctionOnSet(Prices(all), rows)
    BY <1>1, <1>5, <1>6, <1>7, <2>1, SumByKey
  <2> QED BY <1>5, <2>2
<1>9. \A e, g \in E : number[e] = number[g] => e = g
  BY <1>1, <1>3
<1>10. Images(number, E) = Sales!OrdersIn(rows)
  <2>1. \A r \in rows : number[Sales!Entry(rows, r.order)] = r.order
    BY <1>1, <1>3
  <2> QED BY <1>1, <1>3, <1>4, <2>1 DEF Images
<1>11. Images(number, L) = Sales!OrdersIn(LateRows(rows))
  <2>1. \A r \in rows : number[Sales!Entry(rows, r.order)] = r.order
    BY <1>1, <1>3
  <2>2. \A r \in LateRows(rows) : r \in rows /\ Sales!Entry(rows, r.order) \in L
    BY <1>1, <1>2 DEF LateRows
  <2>3. \A e \in L : \E r \in LateRows(rows) : number[e] = r.order
    BY <1>1, <1>2, <1>3 DEF LateRows
  <2> QED BY <1>4, <2>1, <2>2, <2>3 DEF Images
<1>12. IsFiniteSet(L) /\ \A e, g \in L : number[e] = number[g] => e = g
  BY <1>1, <1>2, <1>9, FS_Subset
<1>13. Cardinality(E) = Sales!CountOrders(rows)
  <2>1. Cardinality(Images(number, E)) = Cardinality(E)
    BY <1>1, <1>9, CountOfImages
  <2> QED BY <1>4, <1>10, <2>1
<1>14. Cardinality(L) = Sales!CountOrders(LateRows(rows))
  <2>1. Cardinality(Images(number, L)) = Cardinality(L)
    BY <1>12, CountOfImages
  <2> QED BY <1>4, <1>11, <2>1
<1> QED BY <1>8, <1>13, <1>14 DEF E, L

(* The customer of an entry is that of its order's rows, so the entries of *)
(* one customer's rows are the customer's entries.                         *)
Customers(all) == {r.customer : r \in all}
CustomerOf(all, entries) == [e \in entries |-> (CHOOSE r \in all : r.order = e.order).customer]
InBar(entries, weeks, bar) == {e \in entries : Sales!BarOf(e, weeks) = bar}

LEMMA EntriesOfCustomer ==
  ASSUME NEW all, IsSales(all), NEW rows \in SUBSET all, NEW c
  PROVE  LET E == Sales!Entries(rows)   mine == OfCustomer(rows, c)   key == CustomerOf(all, E) IN
         /\ Sales!Entries(mine) = Keyed(E, key, c)
         /\ Sales!LateEntries(mine) = Keyed(Sales!LateEntries(rows), key, c)
         /\ \A weeks, bar : InBar(Sales!Entries(mine), weeks, bar) = Keyed(InBar(E, weeks, bar), key, c)
<1> DEFINE E == Sales!Entries(rows)   mine == OfCustomer(rows, c)   key == CustomerOf(all, E)
<1>1. mine \in SUBSET rows /\ mine \in SUBSET all
  BY DEF OfCustomer
<1>2. /\ \A e \in E : e = Sales!Entry(rows, e.order) /\ \E r \in rows : r.order = e.order
      /\ \A r \in rows : Sales!Entry(rows, r.order) \in E
      /\ \A o : Sales!Entry(rows, o).order = o
  BY EntriesAre
<1>3. /\ \A e \in Sales!Entries(mine) : e = Sales!Entry(mine, e.order) /\ \E r \in mine : r.order = e.order
      /\ \A r \in mine : Sales!Entry(mine, r.order) \in Sales!Entries(mine)
  BY <1>1, EntriesAre
<1>4. ASSUME NEW r \in mine PROVE Sales!Entry(mine, r.order) = Sales!Entry(rows, r.order)
  <2>1. \A x \in rows : x.order = r.order => x \in mine
    BY DEF OfCustomer, IsSales
  <2>2. {x \in mine : x.order = r.order} = {x \in rows : x.order = r.order}
    BY <1>1, <2>1
  <2> QED BY <2>2 DEF Sales!Entry
<1>5. ASSUME NEW e \in E, NEW r \in rows, r.order = e.order PROVE key[e] = r.customer
  <2>1. (CHOOSE x \in all : x.order = e.order) \in all
        /\ (CHOOSE x \in all : x.order = e.order).order = e.order
    BY <1>5
  <2> QED BY <1>5, <2>1 DEF CustomerOf, IsSales
<1>6. Sales!Entries(mine) = Keyed(E, key, c)
  <2> HIDE DEF key, E
  <2>1. ASSUME NEW e \in Sales!Entries(mine) PROVE e \in E /\ key[e] = c
    <3>1. PICK r \in mine : r.order = e.order
      BY <1>3
    <3>2. e = Sales!Entry(rows, r.order) /\ r \in rows /\ r.customer = c
      BY <1>1, <1>3, <1>4, <3>1 DEF OfCustomer
    <3>3. e \in E
      BY <1>2, <3>2
    <3> QED BY <1>5, <3>1, <3>2, <3>3
  <2>2. ASSUME NEW e \in E, key[e] = c PROVE e \in Sales!Entries(mine)
    <3>1. PICK r \in rows : r.order = e.order
      BY <1>2
    <3>2. r \in mine
      BY <1>5, <2>2, <3>1 DEF OfCustomer
    <3>3. e = Sales!Entry(mine, r.order)
      BY <1>2, <1>4, <3>1, <3>2
    <3> QED BY <1>3, <3>2, <3>3
  <2> HIDE DEF mine
  <2> QED BY <2>1, <2>2 DEF Keyed
<1> HIDE DEF mine, key, E
<1>7. Sales!LateEntries(mine) = Keyed(Sales!LateEntries(rows), key, c)
  BY <1>6 DEF Sales!LateEntries, Keyed, E
<1>8. \A weeks, bar : InBar(Sales!Entries(mine), weeks, bar) = Keyed(InBar(E, weeks, bar), key, c)
  BY <1>6 DEF InBar, Keyed
<1> QED BY <1>6, <1>7, <1>8 DEF mine, key, E

(* Every entry is some customer's, so over all customers entries, values,  *)
(* late entries and bars add up.                                           *)
LEMMA CustomersAddUp ==
  ASSUME NEW all, IsSales(all), NEW rows \in SUBSET all, NEW S \in SUBSET Sales!Entries(rows), NEW h, NEW n,
         LET key == CustomerOf(all, Sales!Entries(rows)) IN
         \A c \in Customers(all) :
           /\ h[c] = SumFunctionOnSet(Values(Sales!Entries(rows)), Keyed(S, key, c))
           /\ n[c] = Cardinality(Keyed(S, key, c))
  PROVE  /\ SumFunctionOnSet(h, Customers(all)) = SumFunctionOnSet(Values(Sales!Entries(rows)), S)
         /\ SumFunctionOnSet(n, Customers(all)) = Cardinality(S)
<1> DEFINE E == Sales!Entries(rows)   key == CustomerOf(all, E)   f == Values(E)   C == Customers(all)
<1>1. IsFiniteSet(E) /\ \A e \in E : e.value \in Nat /\ \E r \in rows : r.order = e.order
  BY EntriesAre
<1>2. IsFiniteSet(S) /\ \A e \in S : f[e] \in Int
  BY <1>1, FS_Subset DEF Values
<1>3. IsFiniteSet(C)
  <2> DEFINE k == [r \in all |-> r.customer]
  <2>1. C = Images(k, all) /\ IsFiniteSet(all)
    BY DEF Images, Customers, IsSales
  <2> HIDE DEF k, C
  <2> QED BY <2>1, ImageFinite
<1>4. \A e \in S : key[e] \in C
  <2> SUFFICES ASSUME NEW e \in S PROVE key[e] \in C
    OBVIOUS
  <2>1. \E r \in all : r.order = e.order
    BY <1>1
  <2>2. (CHOOSE r \in all : r.order = e.order) \in all
    BY <2>1
  <2> QED BY <2>2 DEF CustomerOf, Customers
<1>5. \A c \in C : h[c] = SumFunctionOnSet(f, Keyed(S, key, c)) /\ n[c] = Cardinality(Keyed(S, key, c))
  OBVIOUS
<1> HIDE DEF E, key, f, C
<1>6. SumFunctionOnSet(h, C) = SumFunctionOnSet(f, S)
  BY <1>2, <1>3, <1>4, <1>5, SumByKey
<1>7. SumFunctionOnSet(n, C) = Cardinality(S)
  BY <1>2, <1>3, <1>4, <1>5, CountByKey
<1> QED BY <1>6, <1>7 DEF E, f, C

(* The entries of part of a list, summed as the pages sum them.            *)
LEMMA EntryTotals ==
  ASSUME NEW all, IsSales(all), NEW rows \in SUBSET all, NEW S \in SUBSET Sales!Entries(rows)
  PROVE  /\ IsFiniteSet(S)
         /\ Sales!Total(S, LAMBDA e : e.value) = SumFunctionOnSet(Values(Sales!Entries(rows)), S)
         /\ Sales!Cardinality(S) = Cardinality(S)
<1> DEFINE E == Sales!Entries(rows)   g == [e \in S |-> e.value]   f == Values(E)
<1>1. IsFiniteSet(E) /\ \A e \in E : e.value \in Nat
  BY EntriesAre
<1>2. /\ \A e \in E : f[e] \in Int
      /\ DOMAIN g = S /\ \A e \in S : g[e] = f[e]
  BY <1>1 DEF Values
<1>3. Sales!Total(S, LAMBDA e : e.value) = Sales!SumFunction(g)
  BY DEF Sales!Total
<1> HIDE DEF E, g, f
<1>4. IsFiniteSet(S) /\ SumFunctionOnSet(g, DOMAIN g) = SumFunctionOnSet(f, S)
  BY <1>1, <1>2, PartSum DEF E
<1> QED BY <1>3, <1>4, SalesFigures DEF E, f

(* Every entry of a book is on exactly one of its pages.                   *)
PagedOnce(book, sort, per, total, e) ==
  Sales!Cardinality({n \in 1 .. Sales!PageCount(total, per) : e \in Sales!OnPage(book, sort, n, per)}) = 1

LEMMA OnOnePage ==
  ASSUME NEW all, IsSales(all), NEW rows \in SUBSET all, NEW e \in Sales!Entries(rows), NEW sort,
         NEW per \in 1 .. 2, NEW total, total = Cardinality(Sales!Entries(rows))
  PROVE  PagedOnce(Sales!Entries(rows), sort, per, total, e)
<1> DEFINE book == Sales!Entries(rows)
           ahead == {f \in book : Sales!Precedes(sort, f, e)}
           rank == Cardinality(ahead)
           at == rank \div per + 1
           numbers == {n \in 1 .. Sales!PageCount(total, per) : e \in Sales!OnPage(book, sort, n, per)}
<1>1. /\ IsFiniteSet(book)
      /\ \A f \in book : f.due \in Int \cup {NoDate} /\ \E r \in rows : r.order = f.order
  BY EntriesAre
<1>2. ~Sales!Precedes(sort, e, e)
  <2>1. e.order \in Int
    BY <1>1 DEF IsSales
  <2> QED BY <2>1 DEF Sales!Precedes
<1>3. rank \in Nat /\ rank <= total - 1 /\ total \in Nat
  <2>1. ahead \in SUBSET (book \ {e}) /\ e \in book
    BY <1>2
  <2>2. IsFiniteSet(book \ {e}) /\ Cardinality(book \ {e}) = Cardinality(book) - 1 /\ Cardinality(book) \in Nat
    BY <1>1, <2>1, FS_RemoveElement, FS_CardinalityType
  <2>3. IsFiniteSet(ahead) /\ Cardinality(ahead) <= Cardinality(book \ {e})
    BY <2>1, <2>2, FS_Subset
  <2>4. Cardinality(ahead) \in Nat
    BY <2>3, FS_CardinalityType
  <2> QED BY <2>2, <2>3, <2>4
<1>4. \A n : e \in Sales!OnPage(book, sort, n, per) <=> rank \in per * (n - 1) .. per * n - 1
  BY SalesFigures DEF Sales!OnPage
<1> HIDE DEF ahead, rank
<1>5. Sales!PageCount(total, per) = (total + per - 1) \div per
  BY DEF Sales!PageCount
<1>6. numbers = {at}
  <2>1. at \in 1 .. Sales!PageCount(total, per)
    <3>1. CASE per = 1
      BY <1>3, <1>5, <3>1
    <3>2. CASE per = 2
      BY <1>3, <1>5, <3>2
    <3> QED BY <3>1, <3>2
  <2>2. \A n \in Int : rank \in per * (n - 1) .. per * n - 1 <=> n = at
    <3>1. CASE per = 1
      BY <1>3, <3>1
    <3>2. CASE per = 2
      BY <1>3, <3>2
    <3> QED BY <3>1, <3>2
  <2>3. Sales!PageCount(total, per) \in Int
    <3>1. CASE per = 1
      BY <1>3, <1>5, <3>1
    <3>2. CASE per = 2
      BY <1>3, <1>5, <3>2
    <3> QED BY <3>1, <3>2
  <2>4. \A n \in 1 .. Sales!PageCount(total, per) : n \in Int /\ (e \in Sales!OnPage(book, sort, n, per) <=> n = at)
    BY <1>4, <2>2, <2>3
  <2> HIDE DEF at, book
  <2> QED BY <2>1, <2>4
<1> HIDE DEF at
<1>7. Cardinality(numbers) = 1
  BY <1>6, FS_Singleton
<1> QED BY <1>7, SalesFigures DEF PagedOnce

(* A release counts once, whatever it was joined with.                     *)
PricedOnce(all) ==
  Sales!Value(Sales!OpenBook(all))
    = Sales!Total({<<r.order, r.line>> : r \in Sales!OfStatus(all, TRUE)}, LAMBDA k :
        (CHOOSE r \in all : r.open /\ <<r.order, r.line>> = k).price)

LEMMA EachReleaseOnce ==
  ASSUME NEW all, IsSales(all)
  PROVE  PricedOnce(all)
<1> DEFINE B == Sales!OfStatus(all, TRUE)   D == Sales!OpenBook(all)
           K == {<<r.order, r.line>> : r \in B}
           One(k) == CHOOSE r \in all : r.open /\ <<r.order, r.line>> = k
           f == [k \in K |-> One(k).price]
           b == [r \in D |-> <<r.order, r.line>>]
<1>1. B \in SUBSET all /\ \A r \in all : r \in B <=> r.open
  BY DEF Sales!OfStatus, IsSales
<1>2. /\ D \in SUBSET B /\ D \in SUBSET all
      /\ \A r \in B : \E x \in D : x.order = r.order /\ x.line = r.line
      /\ \A x, y \in D : x.order = y.order /\ x.line = y.line => x = y
  BY <1>1, OneRowEach DEF Sales!OpenBook
<1>3. \A x, y \in D : b[x] = b[y] => x = y
  <2>1. \A x \in D : b[x] = <<x.order, x.line>>
    OBVIOUS
  <2> HIDE DEF D, b
  <2>2. ASSUME NEW x \in D, NEW y \in D, b[x] = b[y] PROVE x = y
    <3>1. <<x.order, x.line>> = <<y.order, y.line>>
      BY <2>1, <2>2
    <3>2. x.order = y.order /\ x.line = y.line
      BY <3>1
    <3> QED BY <1>2, <3>2
  <2> QED BY <2>2
<1>4. Images(b, D) = K
  <2>1. \A x \in D : b[x] = <<x.order, x.line>> /\ x \in B
    BY <1>2
  <2>2. ASSUME NEW k \in K PROVE k \in Images(b, D)
    <3>1. PICK r \in B : k = <<r.order, r.line>>
      OBVIOUS
    <3>2. PICK x \in D : x.order = r.order /\ x.line = r.line
      BY <1>2
    <3> HIDE DEF b, D
    <3>3. k = b[x]
      BY <2>1, <3>1, <3>2
    <3> QED BY <3>3 DEF Images
  <2> HIDE DEF b, D, B
  <2>3. Images(b, D) \in SUBSET K
    BY <2>1 DEF Images
  <2> HIDE DEF K
  <2> QED BY <2>2, <2>3
<1>5. ASSUME NEW x \in D PROVE Prices(all)[x] \in Int /\ Prices(all)[x] = f[b[x]]
  <2> DEFINE k == <<x.order, x.line>>
  <2>1. k \in K /\ b[x] = k /\ x \in all /\ x.open
    BY <1>1, <1>2
  <2>2. One(k) \in all /\ <<One(k).order, One(k).line>> = k
    BY <2>1
  <2>3. One(k).price = x.price
    BY <2>1, <2>2 DEF IsSales
  <2> HIDE DEF k, K
  <2> QED BY <2>1, <2>3 DEF Prices, IsSales
<1>6. Sales!Value(D) = SumFunctionOnSet(Prices(all), D) /\ IsFiniteSet(D)
  BY <1>2, SalesTotals
<1>7. DOMAIN f = K /\ Sales!Total(K, LAMBDA k : One(k).price) = Sales!SumFunction(f)
  BY DEF Sales!Total
<1> HIDE DEF f, b, K, D
<1>8. SumFunctionOnSet(f, Images(b, D)) = SumFunctionOnSet(Prices(all), D)
  BY <1>3, <1>5, <1>6, SumOfImages
<1>9. Sales!Value(D) = Sales!Total(K, LAMBDA k : One(k).price)
  BY <1>4, <1>6, <1>7, <1>8, SalesFigures, Zenon
<1> QED BY <1>9, Zenon DEF PricedOnce, D, K

(* The overdue report lists the late orders of the book with the value of  *)
(* their late releases.                                                    *)
LEMMA OverdueIsListed ==
  ASSUME NEW all, IsSales(all)
  PROVE  /\ Sales!OverdueReport(all).orders = Sales!CountOrders(LateRows(Sales!OfStatus(all, TRUE)))
         /\ Sales!OverdueReport(all).value = Sales!Value(LateRows(Sales!OpenBook(all)))
         /\ Sales!CountOrders(LateRows(Sales!OpenBook(all)))
              = Sales!CountOrders(LateRows(Sales!OfStatus(all, TRUE)))
<1> DEFINE B == Sales!OfStatus(all, TRUE)   D == Sales!OpenBook(all)   L == LateRows(D)
           key == [r \in L |-> <<r.order, r.customer, r.type>>]
           K == Images(key, L)
           of(k) == {r \in L : <<r.order, r.customer, r.type>> = k}
           f == [k \in K |-> Sales!Value(of(k))]
           first == [k \in K |-> k[1]]
<1>1. /\ D \in SUBSET B /\ D \in SUBSET all /\ B \in SUBSET all
      /\ \A r \in B : \E x \in D : x.order = r.order /\ x.line = r.line /\ x.due = r.due
  BY OneRowEach DEF Sales!OpenBook, Sales!OfStatus
<1>2. L \in SUBSET all /\ IsFiniteSet(L)
  <2>1. L \in SUBSET all
    BY <1>1 DEF LateRows
  <2> QED BY <2>1, SalesTotals
<1>3. Sales!OrdersIn(LateRows(D)) = Sales!OrdersIn(LateRows(B))
  <2>1. \A r \in LateRows(B) : \E x \in LateRows(D) : x.order = r.order
    BY <1>1 DEF LateRows, Sales!Late
  <2>2. LateRows(D) \in SUBSET LateRows(B)
    BY <1>1 DEF LateRows
  <2> QED BY <2>1, <2>2 DEF Sales!OrdersIn
<1>4. Sales!CountOrders(LateRows(D)) = Sales!CountOrders(LateRows(B))
  BY <1>3 DEF Sales!CountOrders
<1>5. K = {<<r.order, r.customer, r.type>> : r \in L}
  BY DEF Images
<1>6. /\ Sales!OverdueReport(all).orders = Sales!Cardinality(K)
      /\ Sales!OverdueReport(all).value = Sales!SumFunction(f)
  <2>1. L = {r \in Sales!OpenBook(all) : Sales!Late(r)}
    BY DEF LateRows
  <2> HIDE DEF L, K
  <2> QED BY <1>5, <2>1 DEF Sales!OverdueReport, Sales!Total
<1>7. \A k \in K : of(k) = Keyed(L, key, k) /\ of(k) \in SUBSET all
  BY <1>2 DEF Keyed
<1>8. \A r \in L : key[r] \in K
  BY DEF Images
<1>9. DOMAIN f = K /\ \A k \in K : f[k] = Sales!Value(of(k))
  OBVIOUS
<1>10. IsFiniteSet(K)
  <2> HIDE DEF L, key
  <2> QED BY <1>2, ImageFinite
<1>11. Images(first, K) = Sales!OrdersIn(L) /\ \A k, l \in K : first[k] = first[l] => k = l
  <2>1. \A k \in K : \E r \in L : k = <<r.order, r.customer, r.type>> /\ first[k] = r.order
    BY <1>5
  <2>2. \A r \in L : <<r.order, r.customer, r.type>> \in K /\ first[<<r.order, r.customer, r.type>>] = r.order
    BY <1>5
  <2>3. \A r, x \in L : r.order = x.order => r.customer = x.customer /\ r.type = x.type
    BY <1>2 DEF IsSales
  <2> HIDE DEF K, L, first
  <2>4. Images(first, K) = Sales!OrdersIn(L)
    <3>1. ASSUME NEW r \in L PROVE \E k \in K : first[k] = r.order
      BY <2>2
    <3>2. ASSUME NEW k \in K PROVE \E r \in L : first[k] = r.order
      BY <2>1
    <3> QED BY <3>1, <3>2 DEF Images, Sales!OrdersIn
  <2>5. ASSUME NEW k \in K, NEW l \in K, first[k] = first[l] PROVE k = l
    <3>1. PICK r \in L : k = <<r.order, r.customer, r.type>> /\ first[k] = r.order
      BY <2>1
    <3>2. PICK x \in L : l = <<x.order, x.customer, x.type>> /\ first[l] = x.order
      BY <2>1
    <3>3. r.order = x.order
      BY <2>5, <3>1, <3>2
    <3>4. r.customer = x.customer /\ r.type = x.type
      BY <2>3, <3>3
    <3> QED BY <3>1, <3>2, <3>3, <3>4
  <2> QED BY <2>4, <2>5
<1> HIDE DEF L, key, K, of, f, first
<1>12. Cardinality(K) = Cardinality(Sales!OrdersIn(L))
  <2>1. Cardinality(Images(first, K)) = Cardinality(K)
    BY <1>10, <1>11, CountOfImages
  <2> QED BY <1>11, <2>1
<1>13. SumFunctionOnSet(f, K) = SumFunctionOnSet(Prices(all), L)
  <2>1. \A k \in K : f[k] = SumFunctionOnSet(Prices(all), Keyed(L, key, k))
    BY <1>7, <1>9, SalesTotals
  <2>2. \A r \in L : Prices(all)[r] \in Int
    BY <1>2 DEF Prices, IsSales
  <2> QED BY <1>2, <1>8, <1>10, <2>1, <2>2, SumByKey
<1>14. Sales!OverdueReport(all).value = Sales!Value(L)
  BY <1>2, <1>6, <1>9, <1>13, SalesFigures, SalesTotals
<1>15. Sales!OverdueReport(all).orders = Sales!CountOrders(L)
  BY <1>6, <1>12, SalesFigures DEF Sales!CountOrders
<1> QED BY <1>4, <1>14, <1>15 DEF L

(* The overview's rows: one for every model, and one for the lines without *)
(* a model.                                                                *)
RowKeys(all) == Sales!ModelsIn(all) \cup {NoModel}

LEMMA ModelsAddUp ==
  ASSUME NEW all, IsSales(all), NEW rows \in SUBSET all, NEW h,
         \A m \in RowKeys(all) : h[m] = Sales!Value(OfModel(rows, m))
  PROVE  /\ IsFiniteSet(RowKeys(all))
         /\ SumFunctionOnSet(h, RowKeys(all)) = Sales!Value(rows)
<1> DEFINE M == RowKeys(all)   key == [r \in rows |-> r.model]   model == [r \in all |-> r.model]
<1>1. IsFiniteSet(M)
  <2>1. M \in SUBSET (Images(model, all) \cup {NoModel})
    BY DEF RowKeys, Sales!ModelsIn, Images
  <2>2. IsFiniteSet(Images(model, all))
    <3>1. IsFiniteSet(all)
      BY DEF IsSales
    <3> HIDE DEF model
    <3> QED BY <3>1, ImageFinite
  <2> HIDE DEF M, model
  <2>3. IsFiniteSet(Images(model, all) \cup {NoModel})
    BY <2>2, FS_AddElement
  <2> QED BY <2>1, <2>3, FS_Subset
<1>2. IsFiniteSet(rows) /\ Sales!Value(rows) = SumFunctionOnSet(Prices(all), rows)
  BY SalesTotals
<1>3. \A r \in rows : Prices(all)[r] \in Int /\ key[r] \in M
  BY DEF IsSales, Prices, RowKeys, Sales!ModelsIn, Sales!RealModel
<1>4. \A m \in M : h[m] = SumFunctionOnSet(Prices(all), Keyed(rows, key, m))
  <2> SUFFICES ASSUME NEW m \in M PROVE h[m] = SumFunctionOnSet(Prices(all), Keyed(rows, key, m))
    OBVIOUS
  <2>1. Keyed(rows, key, m) = OfModel(rows, m) /\ OfModel(rows, m) \in SUBSET all
    BY DEF Keyed, OfModel
  <2> HIDE DEF key
  <2> QED BY <2>1, SalesTotals
<1> HIDE DEF M, key
<1>5. SumFunctionOnSet(h, M) = SumFunctionOnSet(Prices(all), rows)
  BY <1>1, <1>2, <1>3, <1>4, SumByKey
<1> QED BY <1>1, <1>2, <1>5 DEF M

(* What the overview shows.                                                *)
OverviewShows(all, overview) ==
  LET D == Sales!OpenBook(all)   closed == Sales!ClosedSince(all, 360) IN
  /\ overview.openOrders = Sales!CountOrders(Sales!OfStatus(all, TRUE))
  /\ overview.overdueOrders = Sales!CountOrders(LateRows(Sales!OfStatus(all, TRUE)))
  /\ overview.openValue = Sales!Value(D)
  /\ overview.overdueValue = Sales!Value(LateRows(D))
  /\ overview.closedValue = Sales!Value(closed)
  /\ overview.weeks = Sales!DueByWeek(Sales!Entries(D), 12, "units")
  /\ overview.intake = Sales!Breakdown(Sales!ClosedSince(all, 365), "month", {})
  /\ \A m \in RowKeys(all) :
       /\ overview.rows[m].openValue = Sales!Value(OfModel(D, m))
       /\ overview.rows[m].openOrders = Sales!CountOrders(OfModel(D, m))
       /\ overview.rows[m].overdueOrders = Sales!CountOrders(LateRows(OfModel(D, m)))
       /\ overview.rows[m].closedValue = Sales!Value(OfModel(closed, m))

LEMMA OverviewDoesShow ==
  ASSUME NEW all, IsSales(all)
  PROVE  OverviewShows(all, Sales!ModelOverview(all))
<1> DEFINE M == RowKeys(all)   D == Sales!OpenBook(all)   closed == Sales!ClosedSince(all, 360)
           sheet == [m \in M |-> Sales!ModelRow(all, m)]
           v == [m \in M |-> sheet[m].openValue]   o == [m \in M |-> sheet[m].overdueValue]
           c == [m \in M |-> sheet[m].closedValue]
           overview == Sales!ModelOverview(all)
<1>1. /\ overview.openOrders = Sales!CountOrders(Sales!OfStatus(all, TRUE))
      /\ overview.overdueOrders = Sales!CountOrders({r \in Sales!OfStatus(all, TRUE) : Sales!Late(r)})
      /\ overview.rows = sheet
      /\ overview.weeks = Sales!DueByWeek(Sales!Entries(D), 12, "units")
      /\ overview.intake = Sales!Breakdown(Sales!ClosedSince(all, 365), "month", {})
  BY DEF Sales!ModelOverview, RowKeys
<1>2. /\ overview.openValue = Sales!SumFunction(v)
      /\ overview.overdueValue = Sales!SumFunction(o)
      /\ overview.closedValue = Sales!SumFunction(c)
  BY DEF Sales!ModelOverview, Sales!Total, RowKeys
<1>3. \A m \in M : sheet[m] = Sales!ModelRow(all, m)
  OBVIOUS
<1>4. /\ DOMAIN v = M /\ DOMAIN o = M /\ DOMAIN c = M
      /\ \A m \in M : /\ v[m] = Sales!ModelRow(all, m).openValue
                      /\ o[m] = Sales!ModelRow(all, m).overdueValue
                      /\ c[m] = Sales!ModelRow(all, m).closedValue
  OBVIOUS
<1>5. \A m : /\ Sales!ModelRow(all, m).openValue = Sales!Value(OfModel(D, m))
             /\ Sales!ModelRow(all, m).openOrders = Sales!CountOrders(OfModel(D, m))
             /\ Sales!ModelRow(all, m).overdueOrders = Sales!CountOrders(LateRows(OfModel(D, m)))
             /\ Sales!ModelRow(all, m).overdueValue = Sales!Value(LateRows(OfModel(D, m)))
             /\ Sales!ModelRow(all, m).closedValue = Sales!Value(OfModel(closed, m))
  BY DEF Sales!ModelRow, OfModel, LateRows
<1>6. \A m : LateRows(OfModel(D, m)) = OfModel(LateRows(D), m)
  BY DEF OfModel, LateRows
<1>7. D \in SUBSET all /\ LateRows(D) \in SUBSET all /\ closed \in SUBSET all
  <2>1. Sales!OfStatus(all, TRUE) \in SUBSET all /\ closed \in SUBSET all
    BY DEF Sales!OfStatus, Sales!ClosedSince
  <2>2. D \in SUBSET all
    BY <2>1, OneRowEach DEF Sales!OpenBook
  <2> QED BY <2>1, <2>2 DEF LateRows
<1> HIDE DEF M, D, closed, sheet, v, o, c, overview
<1>8. overview.openValue = Sales!Value(D)
  <2>1. \A m \in M : v[m] = Sales!Value(OfModel(D, m))
    BY <1>4, <1>5
  <2>2. SumFunctionOnSet(v, M) = Sales!Value(D)
    BY <1>7, <2>1, ModelsAddUp DEF M
  <2> QED BY <1>2, <1>4, <2>2, SalesFigures
<1>9. overview.overdueValue = Sales!Value(LateRows(D))
  <2>1. \A m \in M : o[m] = Sales!Value(OfModel(LateRows(D), m))
    BY <1>4, <1>5, <1>6
  <2>2. SumFunctionOnSet(o, M) = Sales!Value(LateRows(D))
    BY <1>7, <2>1, ModelsAddUp DEF M
  <2> QED BY <1>2, <1>4, <2>2, SalesFigures
<1>10. overview.closedValue = Sales!Value(closed)
  <2>1. \A m \in M : c[m] = Sales!Value(OfModel(closed, m))
    BY <1>4, <1>5
  <2>2. SumFunctionOnSet(c, M) = Sales!Value(closed)
    BY <1>7, <2>1, ModelsAddUp DEF M
  <2> QED BY <1>2, <1>4, <2>2, SalesFigures
<1>11. \A m \in M : overview.rows[m] = Sales!ModelRow(all, m)
  BY <1>1, <1>3
<1>12. \A m \in M :
         /\ overview.rows[m].openValue = Sales!Value(OfModel(D, m))
         /\ overview.rows[m].openOrders = Sales!CountOrders(OfModel(D, m))
         /\ overview.rows[m].overdueOrders = Sales!CountOrders(LateRows(OfModel(D, m)))
         /\ overview.rows[m].closedValue = Sales!Value(OfModel(closed, m))
  BY <1>5, <1>11
<1>13. overview.overdueOrders = Sales!CountOrders(LateRows(Sales!OfStatus(all, TRUE)))
  BY <1>1 DEF LateRows
<1>14. OverviewShows(all, overview)
  BY <1>1, <1>8, <1>9, <1>10, <1>12, <1>13 DEF OverviewShows, M, D, closed
<1> QED BY <1>14 DEF overview

(* The quantities of real models' lines are the units.                     *)
LEMMA RealUnitsOf ==
  ASSUME NEW all, IsSales(all), NEW P \in SUBSET all
  PROVE  Sales!Qty(P \cap {r \in all : Sales!RealModel(r)}) = Sales!Units(P)
<1> DEFINE R == P \cap {r \in all : Sales!RealModel(r)}
<1>1. R \in SUBSET P /\ R \in SUBSET all
  OBVIOUS
<1>2. IsFiniteSet(P) /\ IsFiniteSet(R)
  BY <1>1, SalesTotals
<1>3. /\ \A r \in P : RealUnits(all)[r] \in Int
      /\ \A r \in P \ R : RealUnits(all)[r] = 0
      /\ \A r \in R : Quantities(all)[r] \in Int /\ RealUnits(all)[r] = Quantities(all)[r]
  BY DEF RealUnits, Quantities, Sales!UnitQty, IsSales
<1>4. Sales!Qty(R) = SumFunctionOnSet(Quantities(all), R) /\ Sales!Units(P) = SumFunctionOnSet(RealUnits(all), P)
  BY <1>1, SalesTotals
<1> HIDE DEF R
<1>5. SumFunctionOnSet(Quantities(all), R) = SumFunctionOnSet(RealUnits(all), R)
  BY <1>2, <1>3, SumSame
<1>6. SumFunctionOnSet(RealUnits(all), P) = SumFunctionOnSet(RealUnits(all), R)
  BY <1>1, <1>2, <1>3, RestAddsNothing
<1> QED BY <1>4, <1>5, <1>6 DEF R

(* What a report on some rows shows.                                       *)
ReportShows(all, chosen, counted, report) ==
  LET open == Sales!OpenBook(all) \cap chosen   entries == Sales!Entries(open) IN
  /\ report.open.orders = Cardinality(entries)
  /\ report.open.overdue = Cardinality(Sales!LateEntries(open))
  /\ report.open.value = Sales!Total(entries, LAMBDA e : e.value)
  /\ report.open.overdueValue = Sales!Total(Sales!LateEntries(open), LAMBDA e : e.value)
  /\ report.open.units = Sales!Qty(open \cap counted)
  /\ report.closed.value = Sales!Value(Sales!ClosedSince(all, 360) \cap chosen)
  /\ \A bar \in 0 .. 12 :
       report.weeks[bar].value = Sales!Total(InBar(entries, 12, bar), LAMBDA e : e.value)
  /\ report.intake = Sales!Breakdown(Sales!ClosedSince(all, 365) \cap chosen, "month", {})
  /\ report.ages = Sales!OverdueAges(Sales!LateEntries(open))

LEMMA ReportDoesShow ==
  ASSUME NEW all, IsSales(all), NEW chosen \in SUBSET all, NEW counted
  PROVE  ReportShows(all, chosen, counted, Sales!ReportOn(all, chosen, counted))
<1> DEFINE open == Sales!OpenBook(all) \cap chosen   entries == Sales!Entries(open)
           report == Sales!ReportOn(all, chosen, counted)
<1>1. /\ report.open = Sales!OpenSummary(open, counted)
      /\ report.closed = Sales!ClosedSummary(Sales!ClosedSince(all, 360) \cap chosen)
      /\ report.weeks = Sales!DueByWeek(entries, 12, "qty")
      /\ report.intake = Sales!Breakdown(Sales!ClosedSince(all, 365) \cap chosen, "month", {})
      /\ report.ages = Sales!OverdueAges(Sales!LateEntries(open))
  BY DEF Sales!ReportOn
<1>2. open \in SUBSET all
  OBVIOUS
<1> HIDE DEF open, report
<1>3. /\ Sales!OpenSummary(open, counted).orders = Sales!CountOrders(open)
      /\ Sales!OpenSummary(open, counted).overdue = Sales!Cardinality(Sales!LateEntries(open))
      /\ Sales!OpenSummary(open, counted).value = Sales!Total(entries, LAMBDA e : e.value)
      /\ Sales!OpenSummary(open, counted).overdueValue
           = Sales!Total(Sales!LateEntries(open), LAMBDA e : e.value)
      /\ Sales!OpenSummary(open, counted).units = Sales!Qty(open \cap counted)
  BY DEF Sales!OpenSummary
<1>4. \A bar \in 0 .. 12 :
        Sales!DueByWeek(entries, 12, "qty")[bar].value = Sales!Total(InBar(entries, 12, bar), LAMBDA e : e.value)
  BY DEF Sales!DueByWeek, InBar
<1>5. Sales!ClosedSummary(Sales!ClosedSince(all, 360) \cap chosen).value
        = Sales!Value(Sales!ClosedSince(all, 360) \cap chosen)
  BY DEF Sales!ClosedSummary
<1>6. Cardinality(entries) = Sales!CountOrders(open)
  BY <1>2, EntriesCount
<1>7. /\ report.open.orders = Cardinality(entries)
      /\ report.open.overdue = Cardinality(Sales!LateEntries(open))
      /\ report.open.value = Sales!Total(entries, LAMBDA e : e.value)
      /\ report.open.overdueValue = Sales!Total(Sales!LateEntries(open), LAMBDA e : e.value)
      /\ report.open.units = Sales!Qty(open \cap counted)
  BY <1>1, <1>3, <1>6, SalesFigures
<1>8. report.closed.value = Sales!Value(Sales!ClosedSince(all, 360) \cap chosen)
  BY <1>1, <1>5
<1>9. \A bar \in 0 .. 12 :
        report.weeks[bar].value = Sales!Total(InBar(entries, 12, bar), LAMBDA e : e.value)
  BY <1>1, <1>4
<1>10. ReportShows(all, chosen, counted, report)
  BY <1>1, <1>7, <1>8, <1>9, Zenon DEF ReportShows, open
<1> QED BY <1>10 DEF report

(* The months of a breakdown, none for a month without rows.               *)
OfMonth(rows, m) == {r \in rows : r.month = m}
MonthAddsUp(rows, m) ==
  LET breakdown == Sales!Breakdown(rows, "month", {})   mine == OfMonth(rows, m) IN
  /\ (IF m \in DOMAIN breakdown THEN breakdown[m].value ELSE 0) = Sales!Value(mine)
  /\ m \in DOMAIN breakdown => breakdown[m].value = Sales!Value(mine)

LEMMA MonthOf ==
  ASSUME NEW all, IsSales(all), NEW rows \in SUBSET all, NEW m
  PROVE  MonthAddsUp(rows, m)
<1> DEFINE breakdown == Sales!Breakdown(rows, "month", {})   mine == OfMonth(rows, m)
           K == {r.month : r \in rows}
<1>1. DOMAIN breakdown = K /\ (m \in K => breakdown[m].value = Sales!Value(mine))
  BY DEF Sales!Breakdown, OfMonth
<1>2. m \notin K => Sales!Value(mine) = 0
  <2> SUFFICES ASSUME m \notin K PROVE Sales!Value(mine) = 0
    OBVIOUS
  <2>1. mine = {}
    BY DEF OfMonth
  <2>2. Sales!Value({}) = SumFunctionOnSet(Prices(all), {})
    BY SalesTotals
  <2> QED BY <2>1, <2>2, SumOfNone
<1> HIDE DEF breakdown, K, mine
<1>3. /\ (IF m \in DOMAIN breakdown THEN breakdown[m].value ELSE 0) = Sales!Value(mine)
      /\ m \in DOMAIN breakdown => breakdown[m].value = Sales!Value(mine)
  BY <1>1, <1>2
<1> QED BY <1>3 DEF MonthAddsUp, breakdown, mine

(* The ages of the late entries.                                           *)
AgesAddUp(late) ==
  Sales!Total(0 .. 4, LAMBDA band : Sales!OverdueAges(late)[band]) = Cardinality(late)

LEMMA AgesCount ==
  ASSUME NEW all, IsSales(all), NEW rows \in SUBSET all
  PROVE  AgesAddUp(Sales!LateEntries(rows))
<1> DEFINE L == Sales!LateEntries(rows)   ages == Sales!OverdueAges(L)
           f == [band \in 0 .. 4 |-> ages[band]]
           key == [e \in L |-> Sales!AgeBand(-e.due)]
<1>1. Sales!Total(0 .. 4, LAMBDA band : ages[band]) = Sales!SumFunction(f) /\ DOMAIN f = 0 .. 4
  BY DEF Sales!Total
<1>2. \A band \in 0 .. 4 : f[band] = Sales!Cardinality(Keyed(L, key, band))
  <2>1. \A band \in 0 .. 4 : Keyed(L, key, band) = {e \in L : Sales!AgeBand(-e.due) = band}
    BY DEF Keyed
  <2>2. \A band \in 0 .. 4 : ages[band] = Sales!Cardinality({e \in L : Sales!AgeBand(-e.due) = band})
    BY DEF Sales!OverdueAges
  <2>3. \A band \in 0 .. 4 : f[band] = ages[band]
    OBVIOUS
  <2> HIDE DEF key, L, f, ages
  <2> QED BY <2>1, <2>2, <2>3
<1>3. IsFiniteSet(L) /\ \A e \in L : e.due \in Int
  <2>1. /\ IsFiniteSet(Sales!Entries(rows))
        /\ \A e \in Sales!Entries(rows) : e.due \in Int \cup {NoDate}
    BY EntriesAre
  <2>2. L \in SUBSET Sales!Entries(rows) /\ \A e \in L : e.due # NoDate
    BY DEF Sales!LateEntries, Sales!IsBefore
  <2> HIDE DEF L
  <2> QED BY <2>1, <2>2, FS_Subset
<1>4. \A e \in L : key[e] \in 0 .. 4
  <2>1. \A d \in Int : Sales!AgeBand(d) \in 0 .. 4
    BY DEF Sales!AgeBand
  <2>2. \A e \in L : key[e] = Sales!AgeBand(-e.due) /\ -e.due \in Int
    BY <1>3
  <2> QED BY <2>1, <2>2
<1> HIDE DEF L, ages, f, key
<1>5. IsFiniteSet(0 .. 4)
  <2>1. 0 \in Int /\ 4 \in Int
    OBVIOUS
  <2> QED BY <2>1, FS_Interval
<1>6. SumFunctionOnSet(f, 0 .. 4) = Cardinality(L)
  <2> DEFINE K == 0 .. 4
  <2>1. /\ IsFiniteSet(K) /\ \A e \in L : key[e] \in K
        /\ \A k \in K : f[k] = Cardinality(Keyed(L, key, k))
    BY <1>2, <1>4, <1>5, SalesFigures
  <2> HIDE DEF K
  <2>2. SumFunctionOnSet(f, K) = Cardinality(L)
    BY <1>3, <2>1, CountByKey
  <2> QED BY <2>2 DEF K
<1>7. Sales!Total(0 .. 4, LAMBDA band : ages[band]) = Cardinality(L)
  BY <1>1, <1>6, SalesFigures
<1> QED BY <1>7 DEF AgesAddUp, L, ages

(* What the report on one customer shows, as the customer's part of sums   *)
(* over the whole book.                                                    *)
CustomerShows(all, c, report) ==
  LET D == Sales!OpenBook(all)   E == Sales!Entries(D)   key == CustomerOf(all, E)
      late == Sales!LateEntries(D)   closed == Sales!ClosedSince(all, 365) IN
  /\ report.open.value = SumFunctionOnSet(Values(E), Keyed(E, key, c))
  /\ report.open.orders = Cardinality(Keyed(E, key, c))
  /\ report.open.units = Sales!Units(OfCustomer(D, c))
  /\ report.open.overdue = Cardinality(Keyed(late, key, c))
  /\ report.open.overdueValue = SumFunctionOnSet(Values(E), Keyed(late, key, c))
  /\ \A bar \in 0 .. 12 : report.weeks[bar].value = SumFunctionOnSet(Values(E), Keyed(InBar(E, 12, bar), key, c))
  /\ \A m : (IF m \in DOMAIN report.intake THEN report.intake[m].value ELSE 0)
              = Sales!Value(OfCustomer(OfMonth(closed, m), c))
  /\ Sales!Total(0 .. 4, LAMBDA band : report.ages[band]) = report.open.overdue

LEMMA CustomerDoesShow ==
  ASSUME NEW all, IsSales(all), NEW c
  PROVE  CustomerShows(all, c, Sales!CustomerReport(all, {c}))
<1> DEFINE D == Sales!OpenBook(all)   E == Sales!Entries(D)   key == CustomerOf(all, E)
           late == Sales!LateEntries(D)   closed == Sales!ClosedSince(all, 365)
           chosen == {r \in all : r.customer \in {c}}   counted == {r \in all : Sales!RealModel(r)}
           open == D \cap chosen   entries == Sales!Entries(open)   lates == Sales!LateEntries(open)
           report == Sales!CustomerReport(all, {c})
<1>1. ReportShows(all, chosen, counted, report)
  <2>1. report = Sales!ReportOn(all, chosen, counted)
    BY DEF Sales!CustomerReport
  <2>2. chosen \in SUBSET all
    OBVIOUS
  <2> HIDE DEF chosen, counted, report
  <2> QED BY <2>1, <2>2, ReportDoesShow
<1>2. D \in SUBSET all /\ closed \in SUBSET all
  <2>1. Sales!OfStatus(all, TRUE) \in SUBSET all /\ closed \in SUBSET all
    BY DEF Sales!OfStatus, Sales!ClosedSince
  <2>2. D \in SUBSET all
    BY <2>1, OneRowEach DEF Sales!OpenBook
  <2> QED BY <2>1, <2>2
<1>3. open = OfCustomer(D, c) /\ open \in SUBSET all
  <2> HIDE DEF D
  <2> QED BY <1>2 DEF OfCustomer
<1>4. /\ entries = Keyed(E, key, c)
      /\ lates = Keyed(late, key, c)
      /\ \A weeks, bar : InBar(entries, weeks, bar) = Keyed(InBar(E, weeks, bar), key, c)
  <2> HIDE DEF D, open
  <2> QED BY <1>2, <1>3, EntriesOfCustomer
<1>5. /\ \A S, k : Keyed(S, key, k) \in SUBSET S
      /\ late \in SUBSET E /\ \A bar : InBar(E, 12, bar) \in SUBSET E
  BY DEF Keyed, InBar, Sales!LateEntries
<1> HIDE DEF late, E, open, entries, lates, key, closed, counted, report
<1>6. \A S \in SUBSET E : Sales!Total(S, LAMBDA e : e.value) = SumFunctionOnSet(Values(E), S)
  <2> HIDE DEF D
  <2> QED BY <1>2, EntryTotals DEF E
<1>7. /\ report.open.orders = Cardinality(entries)
      /\ report.open.overdue = Cardinality(lates)
      /\ report.open.value = Sales!Total(entries, LAMBDA e : e.value)
      /\ report.open.overdueValue = Sales!Total(lates, LAMBDA e : e.value)
      /\ report.open.units = Sales!Qty(open \cap counted)
      /\ \A bar \in 0 .. 12 :
           report.weeks[bar].value = Sales!Total(InBar(entries, 12, bar), LAMBDA e : e.value)
      /\ report.intake = Sales!Breakdown(closed \cap chosen, "month", {})
      /\ report.ages = Sales!OverdueAges(lates)
  BY <1>1 DEF ReportShows, open, entries, lates, closed
<1>8. /\ report.open.value = SumFunctionOnSet(Values(E), Keyed(E, key, c))
      /\ report.open.orders = Cardinality(Keyed(E, key, c))
      /\ report.open.overdue = Cardinality(Keyed(late, key, c))
      /\ report.open.overdueValue = SumFunctionOnSet(Values(E), Keyed(late, key, c))
  <2>1. Keyed(E, key, c) \in SUBSET E /\ Keyed(late, key, c) \in SUBSET E
    BY <1>5
  <2>2. /\ Sales!Total(Keyed(E, key, c), LAMBDA e : e.value) = SumFunctionOnSet(Values(E), Keyed(E, key, c))
        /\ Sales!Total(Keyed(late, key, c), LAMBDA e : e.value) = SumFunctionOnSet(Values(E), Keyed(late, key, c))
    BY <1>6, <2>1
  <2> QED BY <1>4, <1>7, <2>2
<1>9. \A bar \in 0 .. 12 : report.weeks[bar].value = SumFunctionOnSet(Values(E), Keyed(InBar(E, 12, bar), key, c))
  <2> SUFFICES ASSUME NEW bar \in 0 .. 12
               PROVE  report.weeks[bar].value = SumFunctionOnSet(Values(E), Keyed(InBar(E, 12, bar), key, c))
    OBVIOUS
  <2> DEFINE S == Keyed(InBar(E, 12, bar), key, c)
  <2>1. S \in SUBSET E /\ InBar(entries, 12, bar) = S
    BY <1>4, <1>5
  <2>2. report.weeks[bar].value = Sales!Total(InBar(entries, 12, bar), LAMBDA e : e.value)
    BY <1>7
  <2> HIDE DEF S
  <2>3. Sales!Total(S, LAMBDA e : e.value) = SumFunctionOnSet(Values(E), S)
    BY <1>6, <2>1
  <2>4. report.weeks[bar].value = SumFunctionOnSet(Values(E), S)
    BY <2>1, <2>2, <2>3
  <2> QED BY <2>4 DEF S
<1>10. report.open.units = Sales!Units(OfCustomer(D, c))
  <2>1. Sales!Qty(open \cap counted) = Sales!Units(open)
    BY <1>3, RealUnitsOf DEF counted
  <2> QED BY <1>3, <1>7, <2>1
<1>11. ASSUME NEW m
       PROVE  (IF m \in DOMAIN report.intake THEN report.intake[m].value ELSE 0)
                = Sales!Value(OfCustomer(OfMonth(closed, m), c))
  <2> DEFINE taken == closed \cap chosen
  <2>1. taken \in SUBSET all
    BY <1>2
  <2>2. OfMonth(taken, m) = OfCustomer(OfMonth(closed, m), c)
    BY <1>2 DEF OfCustomer, OfMonth
  <2> HIDE DEF taken
  <2>3. MonthAddsUp(taken, m)
    BY <2>1, MonthOf
  <2>4. report.intake = Sales!Breakdown(taken, "month", {})
    BY <1>7 DEF taken
  <2> QED BY <2>2, <2>3, <2>4 DEF MonthAddsUp
<1>12. Sales!Total(0 .. 4, LAMBDA band : report.ages[band]) = report.open.overdue
  <2>1. AgesAddUp(lates)
    BY <1>3, AgesCount DEF lates
  <2> QED BY <1>7, <2>1 DEF AgesAddUp
<1>13. CustomerShows(all, c, report)
  BY <1>8, <1>9, <1>10, <1>11, <1>12, Zenon DEF CustomerShows, E, key, late, closed
<1> QED BY <1>13 DEF report

(* What the report on one model shows.                                     *)
ModelShows(all, m, report) ==
  LET D == Sales!OpenBook(all) IN
  /\ report.open.value = Sales!Value(OfModel(D, m))
  /\ report.open.units = Sales!Qty(OfModel(D, m))
  /\ report.open.orders = Sales!CountOrders(OfModel(D, m))
  /\ report.open.overdue = Sales!CountOrders(LateRows(OfModel(D, m)))
  /\ report.closed.value = Sales!Value(OfModel(Sales!ClosedSince(all, 360), m))

LEMMA ModelDoesShow ==
  ASSUME NEW all, IsSales(all), NEW m
  PROVE  ModelShows(all, m, Sales!ModelReport(all, {m}))
<1> DEFINE D == Sales!OpenBook(all)   closed == Sales!ClosedSince(all, 360)
           chosen == {r \in all : r.model \in {m}}
           open == D \cap chosen   entries == Sales!Entries(open)   lates == Sales!LateEntries(open)
           report == Sales!ModelReport(all, {m})
<1>1. ReportShows(all, chosen, all, report)
  <2>1. report = Sales!ReportOn(all, chosen, all)
    BY DEF Sales!ModelReport
  <2>2. chosen \in SUBSET all
    OBVIOUS
  <2> HIDE DEF chosen, report
  <2> QED BY <2>1, <2>2, ReportDoesShow
<1>2. D \in SUBSET all /\ closed \in SUBSET all
  <2>1. Sales!OfStatus(all, TRUE) \in SUBSET all /\ closed \in SUBSET all
    BY DEF Sales!OfStatus, Sales!ClosedSince
  <2>2. D \in SUBSET all
    BY <2>1, OneRowEach DEF Sales!OpenBook
  <2> QED BY <2>1, <2>2
<1>3. /\ open = OfModel(D, m) /\ open \in SUBSET all /\ open \cap all = open
      /\ closed \cap chosen = OfModel(closed, m)
  <2> HIDE DEF D, closed
  <2> QED BY <1>2 DEF OfModel
<1> HIDE DEF open, entries, lates, closed, chosen, report
<1>4. /\ report.open.orders = Cardinality(entries)
      /\ report.open.overdue = Cardinality(lates)
      /\ report.open.value = Sales!Total(entries, LAMBDA e : e.value)
      /\ report.open.units = Sales!Qty(open \cap all)
      /\ report.closed.value = Sales!Value(closed \cap chosen)
  BY <1>1 DEF ReportShows, open, entries, lates, closed
<1>5. /\ Sales!Total(entries, LAMBDA e : e.value) = SumFunctionOnSet(Values(entries), entries)
      /\ SumFunctionOnSet(Values(entries), entries) = Sales!Value(open)
      /\ Cardinality(entries) = Sales!CountOrders(open)
      /\ Cardinality(lates) = Sales!CountOrders(LateRows(open))
  <2>1. entries \in SUBSET entries
    OBVIOUS
  <2>2. Sales!Total(entries, LAMBDA e : e.value) = SumFunctionOnSet(Values(entries), entries)
    BY <1>3, <2>1, EntryTotals DEF entries
  <2> QED BY <1>3, <2>2, EntriesCount DEF entries, lates
<1>6. /\ report.open.value = Sales!Value(OfModel(D, m))
      /\ report.open.units = Sales!Qty(OfModel(D, m))
      /\ report.open.orders = Sales!CountOrders(OfModel(D, m))
      /\ report.open.overdue = Sales!CountOrders(LateRows(OfModel(D, m)))
      /\ report.closed.value = Sales!Value(OfModel(closed, m))
  BY <1>3, <1>4, <1>5
<1> QED BY <1>6 DEF ModelShows, report, closed

(* The late orders' whole values are no less than what is late.            *)
LEMMA LateIsWithin ==
  ASSUME NEW all, IsSales(all), NEW rows \in SUBSET all
  PROVE  SumFunctionOnSet(Values(Sales!Entries(rows)), Sales!LateEntries(rows)) >= Sales!Value(LateRows(rows))
<1> DEFINE E == Sales!Entries(rows)   late == Sales!LateEntries(rows)   L == LateRows(rows)
           key == [r \in L |-> Sales!Entry(rows, r.order)]
           h == [e \in late |-> Sales!Value(OfOrder(L, e.order))]
<1>1. /\ IsFiniteSet(E)
      /\ \A e \in E : /\ e = Sales!Entry(rows, e.order)
                      /\ e.value = Sales!Value(OfOrder(rows, e.order)) /\ e.value \in Nat
                      /\ Sales!IsBefore(e.due, 0) <=> \E r \in rows : r.order = e.order /\ Sales!Late(r)
      /\ \A r \in rows : Sales!Entry(rows, r.order) \in E
      /\ \A o : Sales!Entry(rows, o).order = o
  BY EntriesAre
<1>2. late \in SUBSET E /\ \A e \in E : e \in late <=> Sales!IsBefore(e.due, 0)
  BY DEF Sales!LateEntries
<1>3. L \in SUBSET rows /\ L \in SUBSET all /\ \A r \in rows : r \in L <=> Sales!Late(r)
  BY DEF LateRows
<1>4. /\ \A r \in L : key[r] = Sales!Entry(rows, r.order)
      /\ \A e \in late : h[e] = Sales!Value(OfOrder(L, e.order))
  OBVIOUS
<1>5. /\ \A o : OfOrder(L, o) \in SUBSET OfOrder(rows, o) /\ OfOrder(L, o) \in SUBSET all
      /\ \A o : OfOrder(rows, o) \in SUBSET all
  BY <1>3 DEF OfOrder
<1>6. IsFiniteSet(L) /\ IsFiniteSet(late)
  BY <1>1, <1>2, <1>3, SalesTotals, FS_Subset
<1> HIDE DEF E, late, L, key, h
<1>7. \A r \in L : key[r] \in late
  <2> SUFFICES ASSUME NEW r \in L PROVE key[r] \in late
    OBVIOUS
  <2> DEFINE e == Sales!Entry(rows, r.order)
  <2>1. e \in E /\ e.order = r.order /\ r \in rows /\ Sales!Late(r)
    BY <1>1, <1>3
  <2> HIDE DEF e
  <2>2. Sales!IsBefore(e.due, 0)
    BY <1>1, <2>1
  <2>3. e \in late
    BY <1>2, <2>1, <2>2
  <2> QED BY <1>4, <2>3 DEF e
<1>8. ASSUME NEW e \in late PROVE h[e] = SumFunctionOnSet(Prices(all), Keyed(L, key, e))
  <2>1. \A r \in L : key[r] = e <=> r.order = e.order
    BY <1>1, <1>2, <1>3, <1>4
  <2>2. Keyed(L, key, e) = OfOrder(L, e.order)
    BY <2>1 DEF Keyed, OfOrder
  <2>3. OfOrder(L, e.order) \in SUBSET all
    BY <1>5
  <2> QED BY <1>4, <2>2, <2>3, SalesTotals
<1>9. SumFunctionOnSet(h, late) = Sales!Value(L)
  <2>1. \A r \in L : Prices(all)[r] \in Int
    BY <1>3 DEF Prices, IsSales
  <2>2. SumFunctionOnSet(h, late) = SumFunctionOnSet(Prices(all), L)
    BY <1>6, <1>7, <1>8, <2>1, SumByKey
  <2> QED BY <1>3, <2>2, SalesTotals
<1>10. ASSUME NEW e \in late
       PROVE  h[e] \in Int /\ Values(E)[e] \in Int /\ h[e] <= Values(E)[e]
  <2> DEFINE P == OfOrder(L, e.order)   Q == OfOrder(rows, e.order)
  <2>1. P \in SUBSET Q /\ P \in SUBSET all /\ Q \in SUBSET all
    BY <1>5
  <2>2. Values(E)[e] = Sales!Value(Q) /\ h[e] = Sales!Value(P)
    BY <1>1, <1>2, <1>4 DEF Values
  <2> HIDE DEF P, Q
  <2>3. /\ Sales!Value(P) = SumFunctionOnSet(Prices(all), P) /\ Sales!Value(P) \in Nat
        /\ Sales!Value(Q) = SumFunctionOnSet(Prices(all), Q) /\ Sales!Value(Q) \in Nat
        /\ IsFiniteSet(Q)
    BY <2>1, SalesTotals
  <2>4. \A r \in Q : Prices(all)[r] \in Nat
    BY <2>1 DEF Prices, IsSales
  <2>5. SumFunctionOnSet(Prices(all), P) <= SumFunctionOnSet(Prices(all), Q)
    BY <2>1, <2>3, <2>4, SumOfPart
  <2> QED BY <2>2, <2>3, <2>5
<1>11. SumFunctionOnSet(h, late) <= SumFunctionOnSet(Values(E), late)
  BY <1>6, <1>10, SumAtMost
<1>12. SumFunctionOnSet(h, late) \in Int /\ SumFunctionOnSet(Values(E), late) \in Int
  <2>1. (\A e \in late : h[e] \in Int) /\ (\A e \in late : Values(E)[e] \in Int)
    BY <1>10
  <2> QED BY <1>6, <2>1, SumInt
<1>13. SumFunctionOnSet(Values(E), late) >= Sales!Value(L)
  BY <1>9, <1>11, <1>12
<1> QED BY <1>13 DEF E, late, L

(* Ten weeks of bars are the first of twelve.                              *)
LEMMA SameBars ==
  ASSUME NEW all, IsSales(all), NEW rows \in SUBSET all
  PROVE  \A bar \in 0 .. 10 : InBar(Sales!Entries(rows), 12, bar) = InBar(Sales!Entries(rows), 10, bar)
<1>1. \A e \in Sales!Entries(rows) : e.due \in Int \cup {NoDate}
  BY EntriesAre
<1>2. ASSUME NEW bar \in 0 .. 10, NEW e \in Sales!Entries(rows)
      PROVE  Sales!BarOf(e, 12) = bar <=> Sales!BarOf(e, 10) = bar
  <2>1. CASE e.due = NoDate
    BY <2>1 DEF Sales!BarOf
  <2>2. CASE e.due # NoDate
    <3> DEFINE day == e.due   w == Sales!WeekOf(day)   first == Sales!Monday(0)
    <3>1. day \in Int /\ w \in Int /\ first \in Int
      BY <1>1, <2>2, CalendarAssumption DEF Sales!WeekOf, Sales!Monday
    <3>2. CASE day < first
      BY <2>2, <3>1, <3>2 DEF Sales!BarOf
    <3>3. CASE day >= first
      <4>1. /\ Sales!BarOf(e, 12) = IF w < 12 THEN w + 1 ELSE -1
            /\ Sales!BarOf(e, 10) = IF w < 10 THEN w + 1 ELSE -1
        BY <2>2, <3>1, <3>3 DEF Sales!BarOf
      <4> HIDE DEF w
      <4> QED BY <3>1, <4>1
    <3> QED BY <3>1, <3>2, <3>3
  <2> QED BY <2>1, <2>2
<1> QED BY <1>2 DEF InBar

(* The first rows of the open releases, and the entries of the book.       *)
LEMMA OpenRows ==
  ASSUME NEW all, IsSales(all)
  PROVE  LET B == Sales!OfStatus(all, TRUE)   D == Sales!OpenBook(all) IN
         /\ B \in SUBSET all /\ D \in SUBSET all /\ LateRows(D) \in SUBSET all
         /\ Sales!ClosedSince(all, 360) \in SUBSET all /\ Sales!ClosedSince(all, 365) \in SUBSET all
         /\ Sales!OrderBook(all, TRUE, all) = Sales!Entries(D)
         /\ Sales!CountOrders(D) = Sales!CountOrders(B)
         /\ Sales!LateEntries(D) \in SUBSET Sales!Entries(D)
<1> DEFINE B == Sales!OfStatus(all, TRUE)   D == Sales!OpenBook(all)
<1>1. /\ B \in SUBSET all
      /\ Sales!ClosedSince(all, 360) \in SUBSET all /\ Sales!ClosedSince(all, 365) \in SUBSET all
  BY DEF Sales!OfStatus, Sales!ClosedSince
<1>2. D = Sales!Dedup(B) /\ D \in SUBSET all /\ Sales!OrdersIn(D) = Sales!OrdersIn(B)
  BY <1>1, OneRowEach, ZenonT(60) DEF Sales!OpenBook
<1>3. LateRows(D) \in SUBSET all
  BY <1>2 DEF LateRows
<1>4. Sales!OrderBook(all, TRUE, all) = Sales!Entries(D)
  <2>1. D \cap all = D
    BY <1>2
  <2> QED BY <1>2, <2>1 DEF Sales!OrderBook
<1>5. Sales!CountOrders(D) = Sales!CountOrders(B)
  BY <1>2 DEF Sales!CountOrders
<1> QED BY <1>1, <1>2, <1>3, <1>4, <1>5 DEF Sales!LateEntries

(* The reports on all customers, one by one, add up to the book.           *)
CustomersAgree(all, reports) ==
  LET D == Sales!OpenBook(all)   E == Sales!Entries(D)   C == Customers(all) IN
  /\ Sales!Total(C, LAMBDA c : reports[c].open.value) = Sales!Value(D)
  /\ Sales!Total(C, LAMBDA c : reports[c].open.orders) = Sales!CountOrders(D)
  /\ Sales!Total(C, LAMBDA c : reports[c].open.units) = Sales!Units(D)
  /\ Sales!Total(C, LAMBDA c : reports[c].open.overdue) = Cardinality(Sales!LateEntries(D))
  /\ Sales!Total(C, LAMBDA c : reports[c].open.overdueValue) >= Sales!Value(LateRows(D))
  /\ \A bar \in 0 .. 12 : Sales!Total(C, LAMBDA c : reports[c].weeks[bar].value)
                            = Sales!DueByWeek(E, 12, "units")[bar].value
  /\ \A m \in DOMAIN Sales!Breakdown(Sales!ClosedSince(all, 365), "month", {}) :
       Sales!Total(C, LAMBDA c : IF m \in DOMAIN reports[c].intake THEN reports[c].intake[m].value ELSE 0)
         = Sales!Breakdown(Sales!ClosedSince(all, 365), "month", {})[m].value

LEMMA CustomersDoAgree ==
  ASSUME NEW all, IsSales(all), NEW reports, \A c \in Customers(all) : CustomerShows(all, c, reports[c])
  PROVE  CustomersAgree(all, reports)
<1> DEFINE D == Sales!OpenBook(all)   E == Sales!Entries(D)   C == Customers(all)
           key == CustomerOf(all, E)   late == Sales!LateEntries(D)
           closed == Sales!ClosedSince(all, 365)
           value == [c \in C |-> reports[c].open.value]   orders == [c \in C |-> reports[c].open.orders]
           units == [c \in C |-> reports[c].open.units]   overdue == [c \in C |-> reports[c].open.overdue]
           lateValue == [c \in C |-> reports[c].open.overdueValue]
           week(bar) == [c \in C |-> reports[c].weeks[bar].value]
           month(m) == [c \in C |-> IF m \in DOMAIN reports[c].intake THEN reports[c].intake[m].value ELSE 0]
<1>1. D \in SUBSET all /\ closed \in SUBSET all /\ late \in SUBSET E
  <2>1. D \in SUBSET all
    BY OpenRows
  <2>2. closed \in SUBSET all
    BY DEF Sales!ClosedSince, Sales!OfStatus
  <2>3. late \in SUBSET E
    BY DEF Sales!LateEntries
  <2> QED BY <2>1, <2>2, <2>3
<1>2. \A c \in C :
        /\ reports[c].open.value = SumFunctionOnSet(Values(E), Keyed(E, key, c))
        /\ reports[c].open.orders = Cardinality(Keyed(E, key, c))
        /\ reports[c].open.units = Sales!Units(OfCustomer(D, c))
        /\ reports[c].open.overdue = Cardinality(Keyed(late, key, c))
        /\ reports[c].open.overdueValue = SumFunctionOnSet(Values(E), Keyed(late, key, c))
        /\ \A bar \in 0 .. 12 :
             reports[c].weeks[bar].value = SumFunctionOnSet(Values(E), Keyed(InBar(E, 12, bar), key, c))
        /\ \A m : (IF m \in DOMAIN reports[c].intake THEN reports[c].intake[m].value ELSE 0)
                    = Sales!Value(OfCustomer(OfMonth(closed, m), c))
  <2> SUFFICES ASSUME NEW c \in C
               PROVE  /\ reports[c].open.value = SumFunctionOnSet(Values(E), Keyed(E, key, c))
                      /\ reports[c].open.orders = Cardinality(Keyed(E, key, c))
                      /\ reports[c].open.units = Sales!Units(OfCustomer(D, c))
                      /\ reports[c].open.overdue = Cardinality(Keyed(late, key, c))
                      /\ reports[c].open.overdueValue = SumFunctionOnSet(Values(E), Keyed(late, key, c))
                      /\ \A bar \in 0 .. 12 : reports[c].weeks[bar].value
                           = SumFunctionOnSet(Values(E), Keyed(InBar(E, 12, bar), key, c))
                      /\ \A m : (IF m \in DOMAIN reports[c].intake THEN reports[c].intake[m].value ELSE 0)
                                  = Sales!Value(OfCustomer(OfMonth(closed, m), c))
    BY Zenon
  <2>1. CustomerShows(all, c, reports[c])
    OBVIOUS
  <2> QED BY <2>1, Zenon DEF CustomerShows
<1>3. /\ Sales!Total(C, LAMBDA c : reports[c].open.value) = Sales!SumFunction(value)
      /\ Sales!Total(C, LAMBDA c : reports[c].open.orders) = Sales!SumFunction(orders)
      /\ Sales!Total(C, LAMBDA c : reports[c].open.units) = Sales!SumFunction(units)
      /\ Sales!Total(C, LAMBDA c : reports[c].open.overdue) = Sales!SumFunction(overdue)
      /\ Sales!Total(C, LAMBDA c : reports[c].open.overdueValue) = Sales!SumFunction(lateValue)
      /\ \A bar : Sales!Total(C, LAMBDA c : reports[c].weeks[bar].value) = Sales!SumFunction(week(bar))
      /\ \A m : Sales!Total(C, LAMBDA c : IF m \in DOMAIN reports[c].intake THEN reports[c].intake[m].value ELSE 0)
                  = Sales!SumFunction(month(m))
  BY DEF Sales!Total
<1>4. /\ DOMAIN value = C /\ DOMAIN orders = C /\ DOMAIN units = C /\ DOMAIN overdue = C /\ DOMAIN lateValue = C
      /\ \A bar : DOMAIN week(bar) = C
      /\ \A m : DOMAIN month(m) = C
  OBVIOUS
<1>5. \A c \in C :
        /\ value[c] = SumFunctionOnSet(Values(E), Keyed(E, key, c))
        /\ orders[c] = Cardinality(Keyed(E, key, c))
        /\ units[c] = Sales!Units(OfCustomer(D, c))
        /\ overdue[c] = Cardinality(Keyed(late, key, c))
        /\ lateValue[c] = SumFunctionOnSet(Values(E), Keyed(late, key, c))
        /\ \A bar \in 0 .. 12 : week(bar)[c] = SumFunctionOnSet(Values(E), Keyed(InBar(E, 12, bar), key, c))
        /\ \A m : month(m)[c] = Sales!Value(OfCustomer(OfMonth(closed, m), c))
  <2> SUFFICES ASSUME NEW c \in C
               PROVE  /\ value[c] = SumFunctionOnSet(Values(E), Keyed(E, key, c))
                      /\ orders[c] = Cardinality(Keyed(E, key, c))
                      /\ units[c] = Sales!Units(OfCustomer(D, c))
                      /\ overdue[c] = Cardinality(Keyed(late, key, c))
                      /\ lateValue[c] = SumFunctionOnSet(Values(E), Keyed(late, key, c))
                      /\ \A bar \in 0 .. 12 : week(bar)[c]
                           = SumFunctionOnSet(Values(E), Keyed(InBar(E, 12, bar), key, c))
                      /\ \A m : month(m)[c] = Sales!Value(OfCustomer(OfMonth(closed, m), c))
    OBVIOUS
  <2> HIDE DEF D, E, C, key, late, closed
  <2>1. value[c] = reports[c].open.value /\ orders[c] = reports[c].open.orders
    OBVIOUS
  <2>2. units[c] = reports[c].open.units /\ overdue[c] = reports[c].open.overdue
    OBVIOUS
  <2>3. lateValue[c] = reports[c].open.overdueValue
    OBVIOUS
  <2>4. \A bar \in 0 .. 12 : week(bar)[c] = reports[c].weeks[bar].value
    OBVIOUS
  <2>5. \A m : month(m)[c] = IF m \in DOMAIN reports[c].intake THEN reports[c].intake[m].value ELSE 0
    OBVIOUS
  <2> HIDE DEF value, orders, units, overdue, lateValue, week, month
  <2> HIDE DEF C
  <2>6. /\ value[c] = SumFunctionOnSet(Values(E), Keyed(E, key, c))
        /\ orders[c] = Cardinality(Keyed(E, key, c))
        /\ units[c] = Sales!Units(OfCustomer(D, c))
        /\ overdue[c] = Cardinality(Keyed(late, key, c))
        /\ lateValue[c] = SumFunctionOnSet(Values(E), Keyed(late, key, c))
    BY <1>2, <2>1, <2>2, <2>3, Zenon
  <2>7. \A bar \in 0 .. 12 : week(bar)[c] = SumFunctionOnSet(Values(E), Keyed(InBar(E, 12, bar), key, c))
    BY <1>2, <2>4, Zenon
  <2>8. \A m : month(m)[c] = Sales!Value(OfCustomer(OfMonth(closed, m), c))
    BY <1>2, <2>5, Zenon
  <2> QED BY <2>6, <2>7, <2>8, Zenon
<1>6. \A bar \in 0 .. 12 : /\ InBar(E, 12, bar) \in SUBSET E
                           /\ Sales!DueByWeek(E, 12, "units")[bar].value
                                = Sales!Total(InBar(E, 12, bar), LAMBDA e : e.value)
  BY DEF Sales!DueByWeek, InBar
<1> HIDE DEF D, closed, late, value, orders, units, overdue, lateValue, week, month
<1>7. SumFunctionOnSet(Values(E), E) = Sales!Value(D) /\ Cardinality(E) = Sales!CountOrders(D)
  BY <1>1, EntriesCount
<1>8. SumFunctionOnSet(value, C) = Sales!Value(D) /\ SumFunctionOnSet(orders, C) = Sales!CountOrders(D)
  <2>1. E \in SUBSET E
    OBVIOUS
  <2>2. \A c \in C : /\ value[c] = SumFunctionOnSet(Values(E), Keyed(E, key, c))
                     /\ orders[c] = Cardinality(Keyed(E, key, c))
    BY <1>5, Zenon
  <2>3. /\ SumFunctionOnSet(value, C) = SumFunctionOnSet(Values(E), E)
        /\ SumFunctionOnSet(orders, C) = Cardinality(E)
    BY <1>1, <2>1, <2>2, CustomersAddUp
  <2> QED BY <1>7, <2>3
<1>9. /\ SumFunctionOnSet(overdue, C) = Cardinality(late)
      /\ SumFunctionOnSet(lateValue, C) = SumFunctionOnSet(Values(E), late)
  <2>1. \A c \in C : /\ lateValue[c] = SumFunctionOnSet(Values(E), Keyed(late, key, c))
                     /\ overdue[c] = Cardinality(Keyed(late, key, c))
    BY <1>5, Zenon
  <2> QED BY <1>1, <2>1, CustomersAddUp
<1>10. SumFunctionOnSet(Values(E), late) >= Sales!Value(LateRows(D))
  BY <1>1, LateIsWithin DEF late
<1>11. ASSUME NEW bar \in 0 .. 12
       PROVE  SumFunctionOnSet(week(bar), C) = Sales!DueByWeek(E, 12, "units")[bar].value
  <2> DEFINE S == InBar(E, 12, bar)   n == [c \in C |-> Cardinality(Keyed(S, key, c))]
  <2>1. S \in SUBSET E
    BY <1>6
  <2>2. /\ \A c \in C : week(bar)[c] = SumFunctionOnSet(Values(E), Keyed(S, key, c))
        /\ \A c \in C : n[c] = Cardinality(Keyed(S, key, c))
    BY <1>5
  <2> HIDE DEF n, S
  <2>3. SumFunctionOnSet(week(bar), C) = SumFunctionOnSet(Values(E), S)
    BY <1>1, <2>1, <2>2, CustomersAddUp
  <2>4. Sales!Total(S, LAMBDA e : e.value) = SumFunctionOnSet(Values(E), S)
    BY <1>1, <2>1, EntryTotals
  <2> QED BY <1>6, <2>3, <2>4 DEF S
<1> DEFINE customer == [r \in all |-> r.customer]
<1>12. IsFiniteSet(C) /\ \A r \in all : customer[r] \in C
  <2>1. C = Images(customer, all) /\ IsFiniteSet(all)
    BY DEF Images, Customers, IsSales
  <2>2. \A r \in all : customer[r] \in Images(customer, all)
    BY DEF Images
  <2> HIDE DEF C, customer
  <2> QED BY <2>1, <2>2, ImageFinite
<1>13. \A P \in SUBSET all : \A c : Keyed(P, customer, c) = OfCustomer(P, c) /\ OfCustomer(P, c) \in SUBSET all
  BY DEF Keyed, OfCustomer
<1> HIDE DEF C, customer, E, key
<1>14. SumFunctionOnSet(units, C) = Sales!Units(D)
  <2>1. \A c \in C : units[c] = SumFunctionOnSet(RealUnits(all), Keyed(D, customer, c))
    <3>1. \A c \in C : units[c] = Sales!Units(OfCustomer(D, c))
      BY <1>5, Zenon
    <3>2. \A c : Keyed(D, customer, c) = OfCustomer(D, c) /\ OfCustomer(D, c) \in SUBSET all
      BY <1>1, <1>13, Zenon
    <3>3. \A c : Sales!Units(OfCustomer(D, c)) = SumFunctionOnSet(RealUnits(all), OfCustomer(D, c))
      BY <3>2, SalesTotals
    <3> QED BY <3>1, <3>2, <3>3, Zenon
  <2>2. \A r \in D : RealUnits(all)[r] \in Int /\ customer[r] \in C
    BY <1>1, <1>12 DEF RealUnits, IsSales, Sales!UnitQty
  <2>3. IsFiniteSet(D) /\ Sales!Units(D) = SumFunctionOnSet(RealUnits(all), D)
    BY <1>1, SalesTotals
  <2>4. SumFunctionOnSet(units, C) = SumFunctionOnSet(RealUnits(all), D)
    BY <1>12, <2>1, <2>2, <2>3, SumByKey
  <2> QED BY <2>3, <2>4
<1>15. ASSUME NEW m \in DOMAIN Sales!Breakdown(closed, "month", {})
       PROVE  SumFunctionOnSet(month(m), C) = Sales!Breakdown(closed, "month", {})[m].value
  <2> DEFINE P == {r \in closed : r.month = m}
  <2>1. P \in SUBSET all
    BY <1>1
  <2>2. Sales!Breakdown(closed, "month", {})[m].value = Sales!Value(P)
    <3>1. MonthAddsUp(closed, m)
      BY <1>1, MonthOf
    <3> QED BY <1>15, <3>1 DEF MonthAddsUp, OfMonth
  <2>3. \A c \in C : month(m)[c] = Sales!Value(OfCustomer(P, c))
    BY <1>5, Zenon DEF OfMonth
  <2> HIDE DEF P
  <2>4. \A c \in C : month(m)[c] = SumFunctionOnSet(Prices(all), Keyed(P, customer, c))
    BY <1>13, <2>1, <2>3, SalesTotals
  <2>5. \A r \in P : Prices(all)[r] \in Int /\ customer[r] \in C
    BY <1>12, <2>1 DEF Prices, IsSales
  <2>6. IsFiniteSet(P) /\ Sales!Value(P) = SumFunctionOnSet(Prices(all), P)
    BY <2>1, SalesTotals
  <2>7. SumFunctionOnSet(month(m), C) = SumFunctionOnSet(Prices(all), P)
    BY <1>12, <2>4, <2>5, <2>6, SumByKey
  <2> QED BY <2>2, <2>6, <2>7
<1>16. /\ Sales!Total(C, LAMBDA c : reports[c].open.value) = Sales!Value(D)
       /\ Sales!Total(C, LAMBDA c : reports[c].open.orders) = Sales!CountOrders(D)
       /\ Sales!Total(C, LAMBDA c : reports[c].open.units) = Sales!Units(D)
       /\ Sales!Total(C, LAMBDA c : reports[c].open.overdue) = Cardinality(late)
       /\ Sales!Total(C, LAMBDA c : reports[c].open.overdueValue) >= Sales!Value(LateRows(D))
  BY <1>3, <1>4, <1>8, <1>9, <1>10, <1>14, SalesFigures
<1>17. \A bar \in 0 .. 12 : Sales!Total(C, LAMBDA c : reports[c].weeks[bar].value)
                              = Sales!DueByWeek(E, 12, "units")[bar].value
  BY <1>3, <1>4, <1>11, SalesFigures
<1>18. \A m \in DOMAIN Sales!Breakdown(closed, "month", {}) :
         Sales!Total(C, LAMBDA c : IF m \in DOMAIN reports[c].intake THEN reports[c].intake[m].value ELSE 0)
           = Sales!Breakdown(closed, "month", {})[m].value
  BY <1>3, <1>4, <1>15, SalesFigures
<1> QED BY <1>16, <1>17, <1>18, Zenon DEF CustomersAgree, C, D, E, late, closed

(* The reports on all models, one by one, and the lines without a model    *)
(* add up to the book.                                                     *)
ModelsAgree(all, reports) ==
  LET D == Sales!OpenBook(all) IN
  /\ Sales!Total(Sales!ModelsIn(all), LAMBDA m : reports[m].open.value) + Sales!Value(OfModel(D, NoModel))
       = Sales!Value(D)
  /\ Sales!Total(Sales!ModelsIn(all), LAMBDA m : reports[m].open.units) = Sales!Units(D)

LEMMA ModelsDoAgree ==
  ASSUME NEW all, IsSales(all), NEW reports,
         \A m \in Sales!ModelsIn(all) :
           /\ reports[m].open.value = Sales!Value(OfModel(Sales!OpenBook(all), m))
           /\ reports[m].open.units = Sales!Qty(OfModel(Sales!OpenBook(all), m))
  PROVE  ModelsAgree(all, reports)
<1> DEFINE D == Sales!OpenBook(all)   M == Sales!ModelsIn(all)   K == RowKeys(all)
           value == [m \in M |-> reports[m].open.value]   units == [m \in M |-> reports[m].open.units]
           h == [m \in K |-> Sales!Value(OfModel(D, m))]
           R == D \cap {r \in all : Sales!RealModel(r)}
           key == [r \in R |-> r.model]
<1>1. D \in SUBSET all
  BY OpenRows
<1>2. /\ Sales!Total(M, LAMBDA m : reports[m].open.value) = Sales!SumFunction(value)
      /\ Sales!Total(M, LAMBDA m : reports[m].open.units) = Sales!SumFunction(units)
  BY DEF Sales!Total
<1>3. /\ DOMAIN value = M /\ DOMAIN units = M
      /\ \A m \in M : value[m] = Sales!Value(OfModel(D, m)) /\ units[m] = Sales!Qty(OfModel(D, m))
      /\ \A m \in K : h[m] = Sales!Value(OfModel(D, m))
  <2> HIDE DEF D, K
  <2> QED BY DEF D
<1>4. NoModel \in K /\ K \ {NoModel} = M /\ M \in SUBSET K /\ \A m \in M : m # NoModel
  BY DEF RowKeys, Sales!ModelsIn, Sales!RealModel
<1>5. \A m : OfModel(D, m) \in SUBSET D /\ OfModel(D, m) \in SUBSET all
  BY <1>1 DEF OfModel
<1>6. R \in SUBSET all /\ \A r \in R : key[r] \in M
  BY DEF Sales!ModelsIn
<1>7. \A m \in M : Keyed(R, key, m) = OfModel(D, m)
  BY <1>1, <1>4 DEF Keyed, OfModel, Sales!RealModel
<1>8. Sales!Qty(R) = Sales!Units(D)
  BY <1>1, RealUnitsOf
<1> HIDE DEF D, M, K, value, units, h, R, key
<1>9. IsFiniteSet(K) /\ SumFunctionOnSet(h, K) = Sales!Value(D)
  BY <1>1, <1>3, ModelsAddUp DEF K
<1>10. IsFiniteSet(M)
  BY <1>4, <1>9, FS_Subset
<1>11. \A m \in K : h[m] \in Int /\ Sales!Value(OfModel(D, m)) \in Int
  <2>1. \A m \in K : Sales!Value(OfModel(D, m)) \in Int
    BY <1>5, SalesTotals
  <2> QED BY <1>3, <2>1
<1>12. SumFunctionOnSet(value, M) + Sales!Value(OfModel(D, NoModel)) = Sales!Value(D)
  <2>1. SumFunctionOnSet(h, K) = h[NoModel] + SumFunctionOnSet(h, M)
    BY <1>4, <1>9, <1>11, SumOfRest
  <2>2. \A m \in M : value[m] \in Int /\ h[m] = value[m]
    BY <1>3, <1>4, <1>11
  <2>3. SumFunctionOnSet(value, M) = SumFunctionOnSet(h, M) /\ SumFunctionOnSet(value, M) \in Int
    BY <1>10, <2>2, SumSame, SumInt
  <2>4. h[NoModel] = Sales!Value(OfModel(D, NoModel)) /\ h[NoModel] \in Int
    BY <1>3, <1>4, <1>11
  <2> QED BY <1>9, <2>1, <2>3, <2>4
<1>13. SumFunctionOnSet(units, M) = Sales!Units(D)
  <2>1. \A m \in M : units[m] = SumFunctionOnSet(Quantities(all), Keyed(R, key, m))
    <3>1. \A m \in M : units[m] = Sales!Qty(OfModel(D, m)) /\ Keyed(R, key, m) = OfModel(D, m)
      BY <1>3, <1>7, Zenon
    <3>2. \A m \in M : Sales!Qty(OfModel(D, m)) = SumFunctionOnSet(Quantities(all), OfModel(D, m))
      BY <1>5, SalesTotals
    <3> QED BY <3>1, <3>2, Zenon
  <2>2. \A r \in R : Quantities(all)[r] \in Int
    BY <1>6 DEF Quantities, IsSales
  <2>3. IsFiniteSet(R) /\ Sales!Qty(R) = SumFunctionOnSet(Quantities(all), R)
    BY <1>6, SalesTotals
  <2>4. SumFunctionOnSet(units, M) = SumFunctionOnSet(Quantities(all), R)
    BY <1>6, <1>10, <2>1, <2>2, <2>3, SumByKey
  <2> QED BY <1>8, <2>3, <2>4
<1>14. /\ Sales!Total(M, LAMBDA m : reports[m].open.value) + Sales!Value(OfModel(D, NoModel)) = Sales!Value(D)
       /\ Sales!Total(M, LAMBDA m : reports[m].open.units) = Sales!Units(D)
  BY <1>2, <1>3, <1>12, <1>13, SalesFigures, Zenon
<1> QED BY <1>14, Zenon DEF ModelsAgree, D, M

-----------------------------------------------------------------------------
(* sales/orders/services.py: the sales pages tell one story of any table.  *)
THEOREM SalesPagesAgree ==
  ASSUME NEW all, IsSales(all)
  PROVE  Sales!SalesReportsAgreeFor(all)
<1> DEFINE B == Sales!OfStatus(all, TRUE)   D == Sales!OpenBook(all)   E == Sales!Entries(D)
           C == Customers(all)   M == Sales!ModelsIn(all)   late == Sales!LateEntries(D)
           closed == Sales!ClosedSince(all, 360)
           book == Sales!OrderBook(all, TRUE, all)   board == Sales!Dashboard(all)
           overdue == Sales!OverdueReport(all)   overview == Sales!ModelOverview(all)
           byCustomer == [c \in C |-> Sales!CustomerReport(all, {c})]
           byModel == [m \in M |-> Sales!ModelReport(all, {m})]
           everyone == Sales!CustomerReport(all, C)
           sum == board.summary
<1>1. /\ B \in SUBSET all /\ D \in SUBSET all /\ LateRows(D) \in SUBSET all
      /\ book = E
      /\ Sales!CountOrders(D) = Sales!CountOrders(B)
      /\ late \in SUBSET E
  BY OpenRows, ZenonT(60)
<1>2. /\ sum.total = Sales!CountOrders(B) /\ sum.overdue = Sales!CountOrders(LateRows(B))
      /\ sum.value = Sales!Value(D) /\ sum.overdueValue = Sales!Value(LateRows(D))
      /\ sum.units = Sales!Units(D)
      /\ board.weeks = Sales!DueByWeek(E, 10, "units")
  <2>1. sum = Sales!Summary(all, TRUE) /\ board.weeks = Sales!DueByWeek(E, 10, "units")
    BY DEF Sales!Dashboard
  <2>2. D = Sales!Dedup(B)
    BY DEF Sales!OpenBook
  <2>3. /\ Sales!Summary(all, TRUE).total = Sales!CountOrders(B)
        /\ Sales!Summary(all, TRUE).overdue = Sales!CountOrders(LateRows(B))
        /\ Sales!Summary(all, TRUE).value = Sales!Value(D)
        /\ Sales!Summary(all, TRUE).overdueValue = Sales!Value(LateRows(D))
        /\ Sales!Summary(all, TRUE).units = Sales!Units(D)
    BY <2>2 DEF Sales!Summary, LateRows
  <2> HIDE DEF sum, board
  <2> QED BY <2>1, <2>3
<1>3. /\ overview.openOrders = Sales!CountOrders(B)
      /\ overview.overdueOrders = Sales!CountOrders(LateRows(B))
      /\ overview.openValue = Sales!Value(D)
      /\ overview.overdueValue = Sales!Value(LateRows(D))
      /\ overview.closedValue = Sales!Value(closed)
      /\ overview.weeks = Sales!DueByWeek(E, 12, "units")
      /\ overview.intake = Sales!Breakdown(Sales!ClosedSince(all, 365), "month", {})
      /\ \A m \in RowKeys(all) :
           /\ overview.rows[m].openValue = Sales!Value(OfModel(D, m))
           /\ overview.rows[m].openOrders = Sales!CountOrders(OfModel(D, m))
           /\ overview.rows[m].overdueOrders = Sales!CountOrders(LateRows(OfModel(D, m)))
           /\ overview.rows[m].closedValue = Sales!Value(OfModel(closed, m))
  <2>1. OverviewShows(all, overview)
    BY OverviewDoesShow
  <2> QED BY <2>1, Zenon DEF OverviewShows
<1>4. /\ DOMAIN byCustomer = C /\ DOMAIN byModel = M
      /\ \A c \in C : byCustomer[c] = Sales!CustomerReport(all, {c})
      /\ \A m \in M : byModel[m] = Sales!ModelReport(all, {m})
  OBVIOUS
<1>5. M \in SUBSET RowKeys(all) /\ NoModel \in RowKeys(all)
  BY DEF RowKeys
<1> HIDE DEF B, D, E, C, M, late, closed, book, board, overdue, overview, byCustomer, byModel, everyone, sum
<1>6. \A c \in C : CustomerShows(all, c, byCustomer[c])
  BY <1>4, CustomerDoesShow, ZenonT(60)
<1>7. \A m \in M :
        /\ byModel[m].open.value = Sales!Value(OfModel(D, m))
        /\ byModel[m].open.units = Sales!Qty(OfModel(D, m))
        /\ byModel[m].open.orders = Sales!CountOrders(OfModel(D, m))
        /\ byModel[m].open.overdue = Sales!CountOrders(LateRows(OfModel(D, m)))
        /\ byModel[m].closed.value = Sales!Value(OfModel(closed, m))
  <2>1. \A m \in M : ModelShows(all, m, byModel[m])
    BY <1>4, ModelDoesShow, ZenonT(60)
  <2> QED BY <2>1, Zenon DEF ModelShows, D, closed
<1>8. CustomersAgree(all, byCustomer)
  BY <1>6, CustomersDoAgree DEF C
<1>9. ModelsAgree(all, byModel)
  BY <1>7, ModelsDoAgree DEF D, M
<1>10. /\ Cardinality(E) = Sales!CountOrders(D)
       /\ SumFunctionOnSet(Values(E), E) = Sales!Value(D)
       /\ Cardinality(late) = Sales!CountOrders(LateRows(D))
  BY <1>1, EntriesCount DEF E, late
<1>11. /\ overdue.orders = Sales!CountOrders(LateRows(B)) /\ overdue.value = Sales!Value(LateRows(D))
       /\ Sales!CountOrders(LateRows(D)) = Sales!CountOrders(LateRows(B))
  BY OverdueIsListed DEF B, D, overdue
<1>12. \A e \in book : \A per \in 1 .. 2 :
         /\ Sales!Cardinality({n \in 1 .. Sales!PageCount(sum.total, per) :
              e \in Sales!OnPage(book, "due", n, per)}) = 1
         /\ Sales!Cardinality({n \in 1 .. Sales!PageCount(sum.total, per) :
              e \in Sales!OnPage(book, "number", n, per)}) = 1
  <2>1. sum.total = Cardinality(E)
    BY <1>1, <1>2, <1>10
  <2>2. \A e \in E : \A per \in 1 .. 2 :
          PagedOnce(E, "due", per, sum.total, e) /\ PagedOnce(E, "number", per, sum.total, e)
    BY <1>1, <2>1, OnOnePage DEF E
  <2> QED BY <1>1, <2>2, Zenon DEF PagedOnce
<1>13. Sales!Total(book, LAMBDA e : e.value) = sum.value
  <2>1. E \in SUBSET E
    OBVIOUS
  <2>2. Sales!Total(E, LAMBDA e : e.value) = SumFunctionOnSet(Values(E), E)
    BY <1>1, <2>1, EntryTotals DEF E
  <2>3. Sales!Total(E, LAMBDA e : e.value) = sum.value
    BY <1>2, <1>10, <2>2, Zenon
  <2> QED BY <1>1, <2>3, Zenon
<1>14. sum.value = Sales!Total({<<r.order, r.line>> : r \in Sales!OfStatus(all, TRUE)}, LAMBDA k :
         (CHOOSE r \in all : r.open /\ <<r.order, r.line>> = k).price)
  <2>1. PricedOnce(all)
    BY EachReleaseOnce
  <2> QED BY <1>2, <2>1, Zenon DEF PricedOnce, D
<1>15. overdue.orders = sum.overdue /\ overdue.value = sum.overdueValue
  BY <1>2, <1>11
<1>16. sum.overdue = Sales!Cardinality({e \in book : Sales!IsBefore(e.due, 0)})
  <2>1. late = {e \in E : Sales!IsBefore(e.due, 0)}
    BY DEF late, E, Sales!LateEntries
  <2>2. Sales!Cardinality(late) = sum.overdue
    BY <1>2, <1>10, <1>11, SalesFigures
  <2> QED BY <1>1, <2>1, <2>2, Zenon
<1>17. /\ overview.openValue = sum.value /\ overview.overdueValue = sum.overdueValue
       /\ overview.openOrders = sum.total /\ overview.overdueOrders = sum.overdue
  BY <1>2, <1>3
<1>18. \A bar \in DOMAIN board.weeks : overview.weeks[bar] = board.weeks[bar]
  <2>1. DOMAIN board.weeks = 0 .. 10
    BY <1>2 DEF Sales!DueByWeek
  <2>2. ASSUME NEW bar \in 0 .. 10
        PROVE  Sales!DueByWeek(E, 12, "units")[bar] = Sales!DueByWeek(E, 10, "units")[bar]
    <3>1. \A n \in {10, 12} : Sales!DueByWeek(E, n, "units")[bar]
            = [value |-> Sales!Total(InBar(E, n, bar), LAMBDA e : e.value),
               units |-> Sales!Total(InBar(E, n, bar), LAMBDA e : e["units"])]
      BY DEF Sales!DueByWeek, InBar
    <3>2. InBar(E, 12, bar) = InBar(E, 10, bar)
      BY <1>1, SameBars DEF E
    <3> QED BY <3>1, <3>2
  <2> QED BY <1>2, <1>3, <2>1, <2>2
<1>19. /\ Sales!Total(C, LAMBDA c : byCustomer[c].open.value) = sum.value
       /\ Sales!Total(C, LAMBDA c : byCustomer[c].open.orders) = sum.total
       /\ Sales!Total(C, LAMBDA c : byCustomer[c].open.units) = sum.units
       /\ Sales!Total(C, LAMBDA c : byCustomer[c].open.overdue) = sum.overdue
       /\ Sales!Total(C, LAMBDA c : byCustomer[c].open.overdueValue) >= sum.overdueValue
  <2>1. /\ Sales!Total(C, LAMBDA c : byCustomer[c].open.value) = Sales!Value(D)
        /\ Sales!Total(C, LAMBDA c : byCustomer[c].open.orders) = Sales!CountOrders(D)
        /\ Sales!Total(C, LAMBDA c : byCustomer[c].open.units) = Sales!Units(D)
        /\ Sales!Total(C, LAMBDA c : byCustomer[c].open.overdue) = Cardinality(late)
        /\ Sales!Total(C, LAMBDA c : byCustomer[c].open.overdueValue) >= Sales!Value(LateRows(D))
    BY <1>8, Zenon DEF CustomersAgree, C, D, late
  <2> QED BY <1>1, <1>2, <1>10, <1>11, <2>1
<1>20. \A bar \in DOMAIN overview.weeks :
         Sales!Total(C, LAMBDA c : byCustomer[c].weeks[bar].value) = overview.weeks[bar].value
  <2>1. DOMAIN overview.weeks = 0 .. 12
    BY <1>3 DEF Sales!DueByWeek
  <2>2. \A bar \in 0 .. 12 : Sales!Total(C, LAMBDA c : byCustomer[c].weeks[bar].value)
                               = Sales!DueByWeek(E, 12, "units")[bar].value
    BY <1>8, Zenon DEF CustomersAgree, C, D, E
  <2> QED BY <1>3, <2>1, <2>2, Zenon
<1>21. \A m \in DOMAIN overview.intake :
         Sales!Total(C, LAMBDA c : IF m \in DOMAIN byCustomer[c].intake THEN byCustomer[c].intake[m].value ELSE 0)
           = overview.intake[m].value
  <2>1. \A m \in DOMAIN Sales!Breakdown(Sales!ClosedSince(all, 365), "month", {}) :
          Sales!Total(C, LAMBDA c : IF m \in DOMAIN byCustomer[c].intake THEN byCustomer[c].intake[m].value ELSE 0)
            = Sales!Breakdown(Sales!ClosedSince(all, 365), "month", {})[m].value
    BY <1>8, Zenon DEF CustomersAgree, C
  <2> QED BY <1>3, <2>1, ZenonT(60)
<1>22. /\ Sales!Total(M, LAMBDA m : byModel[m].open.value) + overview.rows[NoModel].openValue = sum.value
       /\ Sales!Total(M, LAMBDA m : byModel[m].open.units) = sum.units
  <2>1. /\ Sales!Total(M, LAMBDA m : byModel[m].open.value) + Sales!Value(OfModel(D, NoModel)) = Sales!Value(D)
        /\ Sales!Total(M, LAMBDA m : byModel[m].open.units) = Sales!Units(D)
    BY <1>9, Zenon DEF ModelsAgree, M, D
  <2>2. overview.rows[NoModel].openValue = Sales!Value(OfModel(D, NoModel))
    BY <1>3, <1>5
  <2> QED BY <1>2, <2>1, <2>2, Zenon
<1>23. \A m \in M : /\ byModel[m].closed.value = overview.rows[m].closedValue
                    /\ byModel[m].open.orders = overview.rows[m].openOrders
                    /\ byModel[m].open.overdue = overview.rows[m].overdueOrders
  BY <1>3, <1>5, <1>7
<1>24. everyone.closed.value = overview.closedValue
  <2> DEFINE chosen == {r \in all : r.customer \in C}   counted == {r \in all : Sales!RealModel(r)}
  <2>1. everyone = Sales!ReportOn(all, chosen, counted)
    BY DEF everyone, Sales!CustomerReport
  <2>2. chosen = all /\ closed \cap all = closed
    BY DEF C, Customers, closed, Sales!ClosedSince, Sales!OfStatus
  <2> HIDE DEF chosen, counted
  <2>3. ReportShows(all, chosen, counted, everyone)
    BY <2>1, <2>2, ReportDoesShow
  <2>4. everyone.closed.value = Sales!Value(closed \cap chosen)
    BY <2>3 DEF ReportShows, closed
  <2> QED BY <1>3, <2>2, <2>4
<1>25. \A c \in C : Sales!Total(0 .. 4, LAMBDA band : byCustomer[c].ages[band]) = byCustomer[c].open.overdue
  BY <1>6, Zenon DEF CustomerShows
<1>26. Sales!StoryAgrees(all, book, board, overdue, overview, byCustomer, byModel, everyone)
  BY <1>4, <1>12, <1>13, <1>14, <1>15, <1>16, <1>17, <1>18, <1>19, <1>20, <1>21, <1>22, <1>23, <1>24, <1>25, Zenon
  DEF Sales!StoryAgrees, sum
<1>27. C = {r.customer : r \in all}
  BY DEF C, Customers
<1> QED BY <1>26, <1>27 DEF Sales!SalesReportsAgreeFor, book, board, overdue, overview, byCustomer, byModel, everyone, M

-----------------------------------------------------------------------------
(***************************************************************************)
(* The pages over the bounded tables.                                      *)
(***************************************************************************)
(* A set written out is finite.                                            *)
LEMMA FewAreFinite ==
  \A S, a, b, c, d, e :
    S = {a} \/ S = {a, b} \/ S = {a, b, c} \/ S = {a, b, c, d, e} => IsFiniteSet(S)
<1> SUFFICES ASSUME NEW S, NEW a, NEW b, NEW c, NEW d, NEW e,
                    S = {a} \/ S = {a, b} \/ S = {a, b, c} \/ S = {a, b, c, d, e}
             PROVE  IsFiniteSet(S)
  OBVIOUS
<1>1. IsFiniteSet({a})
  BY FS_Singleton
<1>2. IsFiniteSet({a} \cup {b})
  BY <1>1, FS_AddElement
<1>3. IsFiniteSet(({a} \cup {b}) \cup {c})
  BY <1>2, FS_AddElement
<1>4. IsFiniteSet((({a} \cup {b}) \cup {c}) \cup {d})
  BY <1>3, FS_AddElement
<1>5. IsFiniteSet(((({a} \cup {b}) \cup {c}) \cup {d}) \cup {e})
  BY <1>4, FS_AddElement
<1>6. {a} \cup {b} = {a, b} /\ ({a} \cup {b}) \cup {c} = {a, b, c}
  OBVIOUS
<1>7. ((({a} \cup {b}) \cup {c}) \cup {d}) \cup {e} = {a, b, c, d, e}
  OBVIOUS
<1> QED BY <1>1, <1>2, <1>3, <1>5, <1>6, <1>7, Zenon

LEMMA NeedInputs == IsNeed(NeedTable)
<1> DEFINE a == NeedRow(1, 1, 1, -3, 5, FALSE)   b == NeedRow(1, 1, 2, -3, 5, FALSE)
           c == NeedRow(1, 2, 3, 9, 7, FALSE)   d == NeedRow(2, 1, 4, 2, 11, FALSE)
           e == NeedRow(2, 2, 5, -1, 13, TRUE)
<1>1. NeedTable = {a, b, c, d, e}
  BY DEF NeedTable
<1>2. /\ a.price \in Int /\ b.price \in Int /\ c.price \in Int /\ d.price \in Int /\ e.price \in Int
      /\ a.req \in Int /\ b.req \in Int /\ c.req \in Int /\ d.req \in Int /\ e.req \in Int
  BY DEF NeedRow
<1> HIDE DEF a, b, c, d, e
<1>3. IsFiniteSet(NeedTable)
  BY <1>1, FewAreFinite, Zenon
<1>4. \A r \in NeedTable : r.price \in Int /\ r.req \in Int \cup {NoDate}
  BY <1>1, <1>2
<1> QED BY <1>3, <1>4 DEF IsNeed

LEMMA SalesInputs == \A all \in SalesTables : IsSales(all)
<1> SUFFICES ASSUME NEW all \in SalesTables PROVE IsSales(all)
  OBVIOUS
<1>1. PICK m1, d1, m2, d2, cust, m3, d3, open :
        /\ d1 \in Int \cup {NoDate} /\ d2 \in Int \cup {NoDate} /\ d3 \in Int /\ open \in BOOLEAN
        /\ all = SalesTable(m1, d1, m2, d2, cust, m3, d3, open)
  <2> DEFINE A == {"a", NoModel}   B == {-9, -1, 3, NoDate}   C == {"a", "b", NoModel}
             D == {-1, 3, 75, NoDate}   E == {"c1", "c2"}   F == {-1, 0, 9}
  <2>1. all \in {SalesTable(m1, d1, m2, d2, cust, m3, d3, open) :
                   m1 \in A, d1 \in B, m2 \in C, d2 \in D, cust \in E, m3 \in A, d3 \in F, open \in BOOLEAN}
    BY DEF SalesTables
  <2>2. B \in SUBSET (Int \cup {NoDate}) /\ D \in SUBSET (Int \cup {NoDate}) /\ F \in SUBSET Int
    OBVIOUS
  <2> HIDE DEF A, B, C, D, E, F
  <2>3. \E m1, d1, m2, d2, cust, m3, d3, open :
          /\ d1 \in B /\ d2 \in D /\ d3 \in F /\ open \in BOOLEAN
          /\ all = SalesTable(m1, d1, m2, d2, cust, m3, d3, open)
    BY <2>1
  <2> QED BY <2>2, <2>3, SMTT(30)
<1> DEFINE a == SalesRow(1, 1, 1, "c1", m1, d1, TRUE)   b == SalesRow(2, 1, 1, "c1", m1, d1, TRUE)
           c == SalesRow(3, 1, 2, "c1", m2, d2, TRUE)   d == SalesRow(4, 2, 1, cust, m3, d3, open)
           e == SalesRow(5, 3, 3, cust, "a", 80, TRUE)
           Typed(r) == /\ r.id \in Int /\ r.order \in Int /\ r.open \in BOOLEAN /\ r.price \in Nat
                       /\ r.qty \in Int /\ r.due \in Int \cup {NoDate}
<1>2. all = {a, b, c, d, e}
  BY <1>1 DEF SalesTable
<1>3. /\ a.id = 1 /\ b.id = 2 /\ c.id = 3 /\ d.id = 4 /\ e.id = 5
      /\ a.order = 1 /\ b.order = 1 /\ c.order = 1 /\ d.order = 2 /\ e.order = 3
      /\ a.line = 1 /\ b.line = 1 /\ c.line = 2 /\ d.line = 1 /\ e.line = 3
      /\ a.open = TRUE /\ b.open = TRUE /\ c.open = TRUE /\ d.open = open /\ e.open = TRUE
  BY DEF SalesRow
<1>4. /\ a.due = d1 /\ b.due = d1 /\ c.due = d2 /\ d.due = d3 /\ e.due = 80
      /\ a.price = 10 + 1 /\ b.price = 10 + 1 /\ c.price = 10 + 2 /\ d.price = 10 + 1 /\ e.price = 10 + 3
      /\ a.qty = 1 + 1 /\ b.qty = 1 + 1 /\ c.qty = 1 + 2 /\ d.qty = 1 + 1 /\ e.qty = 1 + 3
  BY DEF SalesRow
<1>5. /\ a.customer = "c1" /\ b.customer = "c1" /\ c.customer = "c1"
      /\ a.type = "retail" /\ b.type = "retail" /\ c.type = "retail"
  BY DEF SalesRow
<1> HIDE DEF a, b, c, d, e
<1>6. IsFiniteSet(all)
  BY <1>2, FewAreFinite, Zenon
<1>7. \A r \in all : Typed(r)
  <2>1. d1 \in Int \cup {NoDate} /\ d2 \in Int \cup {NoDate} /\ d3 \in Int /\ open \in BOOLEAN
    BY <1>1
  <2>2. /\ a.open \in BOOLEAN /\ b.open \in BOOLEAN /\ c.open \in BOOLEAN
        /\ d.open \in BOOLEAN /\ e.open \in BOOLEAN
    BY <1>3, <2>1, Zenon
  <2>3. /\ a.due \in Int \cup {NoDate} /\ b.due \in Int \cup {NoDate} /\ c.due \in Int \cup {NoDate}
        /\ d.due \in Int \cup {NoDate} /\ e.due \in Int \cup {NoDate}
    <3>1. 80 \in Int
      OBVIOUS
    <3> QED BY <1>4, <2>1, <3>1, Zenon
  <2>4. /\ a.price \in Nat /\ b.price \in Nat /\ c.price \in Nat /\ d.price \in Nat /\ e.price \in Nat
        /\ a.qty \in Int /\ b.qty \in Int /\ c.qty \in Int /\ d.qty \in Int /\ e.qty \in Int
    <3>1. 10 + 1 \in Nat /\ 10 + 2 \in Nat /\ 10 + 3 \in Nat /\ 1 + 1 \in Int /\ 1 + 2 \in Int /\ 1 + 3 \in Int
      OBVIOUS
    <3> QED BY <1>4, <3>1, Zenon
  <2>5. /\ a.id \in Int /\ b.id \in Int /\ c.id \in Int /\ d.id \in Int /\ e.id \in Int
        /\ a.order \in Int /\ b.order \in Int /\ c.order \in Int /\ d.order \in Int /\ e.order \in Int
    <3>1. 1 \in Int /\ 2 \in Int /\ 3 \in Int /\ 4 \in Int /\ 5 \in Int
      OBVIOUS
    <3> QED BY <1>3, <3>1, Zenon
  <2>6. Typed(a) /\ Typed(b) /\ Typed(c) /\ Typed(d) /\ Typed(e)
    BY <2>2, <2>3, <2>4, <2>5, Zenon
  <2> HIDE DEF Typed
  <2> QED BY <1>2, <2>6
<1>8. \A r, x \in all : r.id = x.id => r = x
  BY <1>2, <1>3
<1>9. \A r, x \in all : r.order = x.order => r.customer = x.customer /\ r.type = x.type
  BY <1>2, <1>3, <1>5
<1>10. \A r, x \in all : r.order = x.order /\ r.line = x.line => r.price = x.price /\ r.due = x.due
  BY <1>2, <1>3, <1>4
<1> QED BY <1>6, <1>7, <1>8, <1>9, <1>10 DEF IsSales

LEMMA MonthInputs == \A months \in MonthTables : IsMonths(months)
<1> DEFINE S == {[value |-> v, units |-> v] : v \in 0 .. 2}
<1>1. \A s \in S : s.value \in Nat /\ s.units \in Int
  OBVIOUS
<1>2. ASSUME NEW months \in MonthTables PROVE \E n \in 1 .. 6 : months \in [1 .. n -> S]
  BY DEF MonthTables
<1> HIDE DEF S
<1>3. ASSUME NEW n \in 1 .. 6, NEW months \in [1 .. n -> S] PROVE IsMonths(months)
  <2>1. Len(months) = n
    OBVIOUS
  <2> QED BY <1>1, <2>1 DEF IsMonths
<1> QED BY <1>2, <1>3

LEMMA OutputInputs == \A entries \in Outputs : IsOutput(entries)
<1> SUFFICES ASSUME NEW entries \in Outputs PROVE IsOutput(entries)
  OBVIOUS
<1> DEFINE D == {-8, -3, 0, 4, 6}
           a == [id |-> 1, day |-> 0, dept |-> "Sewing", qty |-> 2]
           b(d) == [id |-> 2, day |-> d, dept |-> "Sewing", qty |-> 3]
           c(d) == [id |-> 3, day |-> d, dept |-> "Upholstery", qty |-> 5]
<1>1. PICK d2 \in D, d3 \in D : entries = {a, b(d2), c(d3)}
  BY DEF Outputs
<1>2. D \in SUBSET Int
  OBVIOUS
<1>3. /\ a.day = 0 /\ a.qty = 2
      /\ \A d : b(d).day = d /\ b(d).qty = 3 /\ c(d).day = d /\ c(d).qty = 5
  OBVIOUS
<1> HIDE DEF a, b, c, D
<1>4. IsFiniteSet(entries)
  BY <1>1, FewAreFinite, Zenon
<1>5. \A e \in entries : e.day \in Int /\ e.qty \in Int
  BY <1>1, <1>2, <1>3
<1> QED BY <1>4, <1>5 DEF IsOutput

LEMMA BayInputs == \A orders \in BayOrders : IsBay(orders)
<1> SUFFICES ASSUME NEW orders \in BayOrders PROVE IsBay(orders)
  OBVIOUS
<1>1. PICK h, d1, s1, q1, more, d2, s2, q2, c, d3, void :
        /\ h \in BOOLEAN /\ d1 \in Int \cup {NoDate} /\ s1 \in BOOLEAN /\ s2 \in BOOLEAN
        /\ q1 \in Int /\ q2 \in Int /\ more \in {{}, {BayJob(2, 2)}} /\ d2 \in Int /\ d3 \in Int
        /\ orders = BayTable(h, d1, s1, q1, more, d2, s2, q2, c, d3, void)
  <2> DEFINE D1 == {-3, 0, 5, NoDate}   Q == {0, 1, 2}
             D2 == {-1, 30}   Cs == {"c1", "c2"}   D3 == {3, 60}   V == {0, 2, 3}
  <2>1. orders \in {BayTable(h, d1, s1, q1, more, d2, s2, q2, c, d3, void) :
                      h \in BOOLEAN, d1 \in D1, s1 \in BOOLEAN, s2 \in BOOLEAN, q1 \in Q, q2 \in Q,
                      more \in Extra, d2 \in D2, c \in Cs, d3 \in D3, void \in V}
    BY DEF BayOrders
  <2>2. /\ D1 \in SUBSET (Int \cup {NoDate}) /\ Q \in SUBSET Int
        /\ D2 \in SUBSET Int /\ D3 \in SUBSET Int
    OBVIOUS
  <2> HIDE DEF D1, D2, D3, Q, Cs, V
  <2>3. \E h, d1, s1, q1, more, d2, s2, q2, c, d3, void :
          /\ h \in BOOLEAN /\ d1 \in D1 /\ s1 \in BOOLEAN /\ s2 \in BOOLEAN
          /\ q1 \in Q /\ q2 \in Q /\ more \in Extra /\ d2 \in D2 /\ d3 \in D3
          /\ orders = BayTable(h, d1, s1, q1, more, d2, s2, q2, c, d3, void)
    BY <2>1
  <2>4. \E h, d1, s1, q1, more, d2, s2, q2, c, d3, void :
          /\ h \in BOOLEAN /\ d1 \in Int \cup {NoDate} /\ s1 \in BOOLEAN /\ s2 \in BOOLEAN
          /\ q1 \in Int /\ q2 \in Int /\ more \in Extra /\ d2 \in Int /\ d3 \in Int
          /\ orders = BayTable(h, d1, s1, q1, more, d2, s2, q2, c, d3, void)
    BY <2>2, <2>3
  <2> QED BY <2>4, Zenon DEF Extra
<1> DEFINE r1 == BayRelease(1, d1, s1, void, {BayJob(1, q1)} \cup more)   r2 == BayRelease(2, d2, s2, void, {BayJob(3, q2)})
           r3 == BayRelease(3, d3, TRUE, void, {BayJob(4, 2)})
           o1 == [customer |-> "c1", held |-> h, releases |-> {r1, r2}]
           o2 == [customer |-> c, held |-> FALSE, releases |-> {r3}]
           Carried == \A r \in {r1, r2, r3} :
                      /\ r.price \in Nat /\ r.staged \in BOOLEAN /\ r.void \in BOOLEAN
                      /\ r.day \in Int \cup {NoDate} /\ IsFiniteSet(r.jobs) /\ \A j \in r.jobs : j.required \in Int /\ j.done \in Int
<1>2. orders = {o1, o2}
  BY <1>1 DEF BayTable
<1>3. o1.held = h /\ o1.releases = {r1, r2} /\ o2.held = FALSE /\ o2.releases = {r3}
  OBVIOUS
<1>4. /\ r1.price = 10 + 1 /\ r1.staged = s1 /\ r1.day = d1 /\ r1.jobs = {BayJob(1, q1)} \cup more
      /\ r2.price = 10 + 2 /\ r2.staged = s2 /\ r2.day = d2 /\ r2.jobs = {BayJob(3, q2)}
      /\ r3.price = 10 + 3 /\ r3.staged = TRUE /\ r3.day = d3 /\ r3.jobs = {BayJob(4, 2)}
  BY DEF BayRelease
<1>10. r1.void \in BOOLEAN /\ r2.void \in BOOLEAN /\ r3.void \in BOOLEAN
  BY DEF BayRelease
<1>5. \A id, done : BayJob(id, done).required = 2 /\ BayJob(id, done).done = done
  BY DEF BayJob
<1> HIDE DEF r1, r2, r3, o1, o2
<1>6. Carried
  <2> DEFINE j1 == BayJob(1, q1)   j2 == BayJob(2, 2)   j3 == BayJob(3, q2)   j4 == BayJob(4, 2)
  <2>1. r1.jobs = {j1} \/ r1.jobs = {j1, j2}
    <3>1. more = {} \/ more = {j2}
      BY <1>1
    <3>2. r1.jobs = {j1} \cup more
      BY <1>4
    <3> HIDE DEF j1, j2
    <3> QED BY <3>1, <3>2
  <2>2. r2.jobs = {j3} /\ r3.jobs = {j4}
    BY <1>4
  <2>3. /\ j1.required = 2 /\ j2.required = 2 /\ j3.required = 2 /\ j4.required = 2
        /\ j1.done = q1 /\ j2.done = 2 /\ j3.done = q2 /\ j4.done = 2
    BY <1>5
  <2> HIDE DEF j1, j2, j3, j4
  <2>4. IsFiniteSet(r1.jobs) /\ IsFiniteSet(r2.jobs) /\ IsFiniteSet(r3.jobs)
    <3>1. IsFiniteSet(r1.jobs)
      BY <2>1, FewAreFinite, Zenon
    <3>2. IsFiniteSet(r2.jobs)
      BY <2>2, FewAreFinite, Zenon
    <3>3. IsFiniteSet(r3.jobs)
      BY <2>2, FewAreFinite, Zenon
    <3> QED BY <3>1, <3>2, <3>3
  <2>5. 2 \in Int /\ q1 \in Int /\ q2 \in Int
    BY <1>1
  <2>6. /\ \A j \in r1.jobs : j.required \in Int /\ j.done \in Int
        /\ \A j \in r2.jobs : j.required \in Int /\ j.done \in Int
        /\ \A j \in r3.jobs : j.required \in Int /\ j.done \in Int
    BY <2>1, <2>2, <2>3, <2>5
  <2>7. /\ d1 \in Int \cup {NoDate} /\ d2 \in Int /\ d3 \in Int
        /\ s1 \in BOOLEAN /\ s2 \in BOOLEAN
    BY <1>1
  <2>8. r1.price \in Nat /\ r2.price \in Nat /\ r3.price \in Nat
    <3>1. 10 + 1 \in Nat /\ 10 + 2 \in Nat /\ 10 + 3 \in Nat
      OBVIOUS
    <3> QED BY <1>4, <3>1, Zenon
  <2>9. /\ r1.staged \in BOOLEAN /\ r2.staged \in BOOLEAN /\ r3.staged \in BOOLEAN
        /\ r1.day \in Int \cup {NoDate} /\ r2.day \in Int \cup {NoDate} /\ r3.day \in Int \cup {NoDate}
    <3>1. TRUE \in BOOLEAN
      OBVIOUS
    <3>2. d2 \in Int \cup {NoDate} /\ d3 \in Int \cup {NoDate}
      BY <2>7
    <3> QED BY <1>4, <2>7, <3>1, <3>2, Zenon
  <2> QED BY <1>10, <2>4, <2>6, <2>8, <2>9, Zenon
<1> HIDE DEF Carried
<1>7. IsFiniteSet(orders) /\ IsFiniteSet(o1.releases) /\ IsFiniteSet(o2.releases)
  <2>1. IsFiniteSet(orders)
    BY <1>2, FewAreFinite, Zenon
  <2>2. IsFiniteSet(o1.releases)
    BY <1>3, FewAreFinite, Zenon
  <2>3. IsFiniteSet(o2.releases)
    BY <1>3, FewAreFinite, Zenon
  <2> QED BY <2>1, <2>2, <2>3
<1>8. o1.held \in BOOLEAN /\ o2.held \in BOOLEAN
  BY <1>1, <1>3
<1>9. \A o \in orders : /\ IsFiniteSet(o.releases) /\ o.held \in BOOLEAN
                        /\ o.releases \in SUBSET {r1, r2, r3}
  BY <1>2, <1>3, <1>7, <1>8
<1> QED BY <1>6, <1>7, <1>9, Zenon DEF IsBay, Carried

(* Every page shows tables as they can be.                                 *)
PagesShow ==
  /\ On("materials") => HasOrders(page.in)
  /\ On("sales") => IsSales(page.in)
  /\ On("months") => IsMonths(page.in)
  /\ On("bay") => IsBay(page.in)
  /\ On("output") => IsOutput(page.in)

(* Every page of purchases, of sales, of a model's months, of the loading  *)
(* bay and of the output counts the same rows to the same figures.         *)
THEOREM ReportsStand == PagesSpec => []ReportsAgree
<1>1. NoPage => PagesShow
  BY DEF NoPage, PagesShow, On
<1>2. PagesShow /\ [OpenPage]_page => PagesShow'
  <2> SUFFICES ASSUME PagesShow, OpenPage PROVE PagesShow'
    BY DEF PagesShow, On
  <2>1. CASE OpenMaterials
    <3>1. PICK site \in Sites : page' = [kind |-> "materials", in |-> site]
      BY <2>1 DEF OpenMaterials, Open
    <3>2. page'.in = site /\ page'.kind = "materials"
      BY <3>1
    <3> QED BY <3>2, SiteInputs DEF PagesShow, On
  <2>2. CASE OpenSales
    <3>1. PICK all \in SalesTables : page' = [kind |-> "sales", in |-> all]
      BY <2>2 DEF OpenSales, Open
    <3>2. page'.in = all /\ page'.kind = "sales"
      BY <3>1
    <3> QED BY <3>2, SalesInputs DEF PagesShow, On
  <2>3. CASE OpenMonths
    <3>1. PICK months \in MonthTables : page' = [kind |-> "months", in |-> months]
      BY <2>3 DEF OpenMonths, Open
    <3>2. page'.in = months /\ page'.kind = "months"
      BY <3>1
    <3> QED BY <3>2, MonthInputs DEF PagesShow, On
  <2>4. CASE OpenBay
    <3>1. PICK orders \in BayOrders : page' = [kind |-> "bay", in |-> orders]
      BY <2>4 DEF OpenBay, Open
    <3>2. page'.in = orders /\ page'.kind = "bay"
      BY <3>1
    <3> QED BY <3>2, BayInputs DEF PagesShow, On
  <2>5. CASE OpenOutput
    <3>1. PICK entries \in Outputs : page' = [kind |-> "output", in |-> entries]
      BY <2>5 DEF OpenOutput, Open
    <3>2. page'.in = entries /\ page'.kind = "output"
      BY <3>1
    <3> QED BY <3>2, OutputInputs DEF PagesShow, On
  <2>6. CASE OpenFloor \/ OpenBoard \/ OpenTransport
    <3>1. page'.kind \in {"floor", "board", "transport"}
      BY <2>6 DEF OpenFloor, OpenBoard, OpenTransport, Open
    <3> QED BY <3>1 DEF PagesShow, On
  <2> QED BY <2>1, <2>2, <2>3, <2>4, <2>5, <2>6 DEF OpenPage
<1>3. PagesShow => ReportsAgree
  <2>1. ASSUME PagesShow, On("materials") PROVE Buying!PurchasingAgreesFor(page.in, NeedTable, 1)
    <3>1. SiteTables(page.in) /\ "fabric" \in DOMAIN page.in.lead
      BY <2>1 DEF PagesShow, HasOrders
    <3>2. 1 \in Nat
      OBVIOUS
    <3> QED BY <3>1, <3>2, NeedInputs, PurchasingAgrees
  <2>2. ASSUME PagesShow, On("sales") PROVE Sales!SalesReportsAgreeFor(page.in)
    BY <2>2, SalesPagesAgree DEF PagesShow
  <2>3. ASSUME PagesShow, On("months") PROVE Sales!TrendIsFairFor(page.in)
    BY <2>3, TrendIsFair DEF PagesShow
  <2>4. ASSUME PagesShow, On("bay") PROVE Bay!BayViewsAgreeFor(page.in)
    BY <2>4, BayViewsAgree DEF PagesShow
  <2>5. ASSUME PagesShow, On("output"), NEW section, NEW to \in Int
        PROVE  Floors!OutputAddsUpFor(page.in, -9, to, section, {"Sewing"}, 4, {0, 1, 3})
    <3>1. IsOutput(page.in)
      BY <2>5 DEF PagesShow
    <3>2. -9 \in Int
      OBVIOUS
    <3> QED BY <2>5, <3>1, <3>2, OutputAddsUp
  <2>6. 0 \in Int /\ 6 \in Int
    OBVIOUS
  <2>7. ASSUME PagesShow, On("output"), NEW section, NEW to \in {0, 6}
        PROVE  Floors!OutputAddsUpFor(page.in, -9, to, section, {"Sewing"}, 4, {0, 1, 3})
    BY <2>5, <2>6, <2>7, Zenon
  <2> QED BY <2>1, <2>2, <2>3, <2>4, <2>7, Zenon DEF ReportsAgree
<1> QED BY <1>1, <1>2, <1>3, PTL DEF PagesSpec
============================================================================
