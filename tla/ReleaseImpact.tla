---------------------------- MODULE ReleaseImpact ---------------------------
(***************************************************************************)
(* The what-if calculation behind the release decisions (release_impact.py):*)
(* which jobs and orders a purchase release, a supplier's releases or a    *)
(* bundle of releases would make ready.  Every what-if nets only the       *)
(* materials it touches again and merges the result into the baseline.     *)
(***************************************************************************)
EXTENDS MaterialNetting

CONSTANTS MaxBundle,       \* releases in a bundle, 2 or 3
          MaxCandidates    \* _MAX_BUNDLE_CANDIDATES

ASSUME BundleAssumption == MaxBundle \in 2 .. 3 /\ MaxCandidates \in Nat

(* Requirements and candidates of a site, in the groups in scope.          *)
Requirements(site, scope) ==
  {row \in UNION {Assessed(site, g) : g \in scope} : NetRequired(row) > 0}
Demanded(site, scope)   == {row.material : row \in Requirements(site, scope)}
AllCandidates(site, scope) ==
  UNION {Covering(site, m) : m \in Demanded(site, scope)}

JobsOf(reqs)           == {row.job : row \in reqs}
OrdersOf(reqs)         == {row.so : row \in reqs} \ {None}
JobsByOrder(reqs, so)  == {row.job : row \in {r \in reqs : r.so = so}}
OrderByJob(reqs, job)  == LET mine == {row \in reqs : row.job = job /\ row.so # None}
                          IN  IF mine = {} THEN None ELSE InOrder(mine)[Cardinality(mine)].so

----------------------------------------------------------------------------
(* _simulate: every group's demand for a material, netted from its stock   *)
(* and the selected releases.                                              *)
LinesOf(site, reqs, selected, group, material) ==
  ToSet(Netted({row \in reqs : row.group = group /\ row.material = material},
               StockOf(site, material), {po \in selected : po.material = material},
               site.lead[group]))
ShortLines(site, reqs, selected) ==
  UNION {LinesOf(site, reqs, selected, row.group, row.material) : row \in reqs}
ShortageOf(lines, job) == Total({l \in lines : l.row.job = job}, LAMBDA l : l.shortage)

Scenario(reqs, lines) ==
  LET short == [j \in JobsOf(reqs) |-> ShortageOf(lines, j)]
      ready == {j \in JobsOf(reqs) : short[j] = 0} IN
  [lines       |-> lines,
   jobShortage |-> short,
   jobBlockers |-> [j \in JobsOf(reqs) |->
                      {l.row.material : l \in {x \in lines : x.row.job = j /\ x.shortage > 0}}],
   readyJobs   |-> ready,
   readyOrders |-> {so \in OrdersOf(reqs) : JobsByOrder(reqs, so) \subseteq ready}]
Simulate(site, reqs, selected) == Scenario(reqs, ShortLines(site, reqs, selected))

(* _simulate_incremental: only the affected materials again, merged into   *)
(* the baseline.                                                           *)
Merged(reqs, baseline, materials, touched, partial) ==
  LET affected == JobsOf(touched)
      before(j) == ShortageOf({l \in baseline.lines : l.row \in touched}, j)
      short == [j \in DOMAIN baseline.jobShortage |->
                  IF j \in affected
                  THEN baseline.jobShortage[j] - before(j) + partial.jobShortage[j]
                  ELSE baseline.jobShortage[j]]
      ready == (baseline.readyJobs \ affected) \cup {j \in affected : short[j] = 0}
      orders == {OrderByJob(reqs, j) : j \in affected} \ {None} IN
  [jobShortage |-> short,
   jobBlockers |-> [j \in DOMAIN baseline.jobBlockers |->
                      IF j \in affected
                      THEN (baseline.jobBlockers[j] \ materials) \cup partial.jobBlockers[j]
                      ELSE baseline.jobBlockers[j]],
   readyJobs   |-> ready,
   readyOrders |-> (baseline.readyOrders \ orders)
                   \cup {so \in orders : JobsByOrder(reqs, so) \subseteq ready}]

\* Mutant: the old shortages of the touched jobs stay.
Forgetful(site, reqs, selected, baseline, materials) ==
  LET touched == {row \in reqs : row.material \in materials} IN
  Merged(reqs, [baseline EXCEPT !.lines = {}], materials, touched,
         Simulate(site, touched, {po \in selected : po.material \in materials}))

SimulateIncremental(site, reqs, selected, baseline, materials) ==
  LET touched == {row \in reqs : row.material \in materials} IN
  Merged(reqs, baseline, materials, touched,
         Simulate(site, touched, {po \in selected : po.material \in materials}))

----------------------------------------------------------------------------
(* Jobs that a release could reach in time, and the impact of a selection. *)
PotentialJobs(site, reqs, po) ==
  {row.job : row \in {r \in reqs : r.material = po.material
                                    /\ InTimeFor(po, r, site.lead[r.group])}}

Impact(site, reqs, selected, scenario, baseline) ==
  LET blocked  == (UNION {PotentialJobs(site, reqs, po) : po \in selected}) \ baseline.readyJobs
      unlocked == {j \in blocked : j \in scenario.readyJobs}
      improved == {j \in blocked \ unlocked :
                     scenario.jobShortage[j] < baseline.jobShortage[j]}
      orders   == {OrderByJob(reqs, j) : j \in blocked} \ {None} IN
  [pos      |-> selected,
   affected |-> blocked,
   jobs     |-> unlocked,
   improved |-> improved,
   orders   |-> {so \in orders : so \in scenario.readyOrders /\ so \notin baseline.readyOrders},
   result   |-> CASE unlocked # {}                    -> "Releases production"
                  [] unlocked = {} /\ improved # {}   -> "Partial release"
                  [] unlocked = {} /\ improved = {} /\ blocked # {} -> "Blocked elsewhere"
                  [] OTHER                            -> "No linked demand"]

WhatIf(site, reqs, committed, baseline, selected) ==
  Impact(site, reqs, selected,
         SimulateIncremental(site, reqs, committed \cup selected, baseline,
                             {po.material : po \in selected}), baseline)

(* What is staged: every staged release is netted, also one that reaches   *)
(* no blocked job and is not among the candidates shown.                   *)
StagedImpact(site, reqs, committed, baseline, staged, shown) ==
  Impact(site, reqs, shown,
         SimulateIncremental(site, reqs, committed \cup staged, baseline,
                             {po.material : po \in shown}), baseline)

(* Every candidate that could reach a blocked job, alone.                  *)
SingleImpacts(site, reqs, all, committed, baseline) ==
  LET blocked == JobsOf(reqs) \ baseline.readyJobs IN
  [po \in {x \in all \ committed : PotentialJobs(site, reqs, x) \cap blocked # {}} |->
     WhatIf(site, reqs, committed, baseline, {po})]

(* The releases that bundles are made of: those that reach most, first.    *)
TriedBefore(site, reqs, a, b) ==
  LET reach(po) == Cardinality(PotentialJobs(site, reqs, po)) IN
  \/ reach(a) > reach(b)
  \/ reach(a) = reach(b) /\ (a.value < b.value \/ (a.value = b.value /\ a.id < b.id))
Tried(site, reqs, pos) ==
  {po \in pos : Cardinality({x \in pos : TriedBefore(site, reqs, x, po)}) < MaxCandidates}

(* The bundles whose releases share a job and unlock one together that     *)
(* none of them unlocks alone; the page lists the first of them.           *)
Bundles(site, reqs, committed, baseline, single) ==
  LET shared(B) == {j \in JobsOf(reqs) : \A po \in B : j \in PotentialJobs(site, reqs, po)}
      impacts == {WhatIf(site, reqs, committed, baseline, B) :
                    B \in {X \in UNION {kSubset(n, Tried(site, reqs, DOMAIN single)) :
                                         n \in 2 .. MaxBundle} : shared(X) # {}}} IN
  {b \in {[bundle |-> x, synergy |-> x.jobs \ UNION {single[po].jobs : po \in x.pos}] :
            x \in impacts} : b.synergy # {}}

(* A supplier is known by id, by name, or not at all.                      *)
SupplierKey(po) == IF po.supplier # None THEN <<"id", po.supplier>>
                   ELSE IF po.name # None THEN <<"name", po.name>> ELSE <<"po", po.order>>

(* The page: baseline with the committed releases, the candidates, what is *)
(* staged, every supplier's releases, and the bundles.                     *)
PageOn(site, reqs, committed, baseline, single, committedKeys, staged) ==
  LET sets == {{po \in DOMAIN single : SupplierKey(po) = s} :
                 s \in {SupplierKey(po) : po \in DOMAIN single}}
  IN
  [baseline |-> baseline,
   single   |-> single,
   staged   |-> {StagedImpact(site, reqs, committed, baseline, staged, S) :
                   S \in {staged \cap DOMAIN single} \ {{}}},
   supplier |-> {WhatIf(site, reqs, committed, baseline, S) : S \in sets},
   bundle   |-> Bundles(site, reqs, committed, baseline, single),
   panel    |-> committed \cup {po \in site.pos : /\ po.id \in committedKeys
                                                  /\ po.qty > 0 /\ po.due # NoDate}]

CommittedOf(site, scope, keys) == {po \in AllCandidates(site, scope) : po.id \in keys}
Calculation(site, reqs, all, committed, baseline, committedKeys, stagedKeys) ==
  PageOn(site, reqs, committed, baseline,
         SingleImpacts(site, reqs, all, committed, baseline), committedKeys,
         {po \in all : po.id \in stagedKeys} \ committed)
ImpactPage(site, scope, committedKeys, stagedKeys) ==
  LET reqs == Requirements(site, scope)
      committed == CommittedOf(site, scope, committedKeys) IN
  Calculation(site, reqs, AllCandidates(site, scope), committed,
              Simulate(site, reqs, committed), committedKeys, stagedKeys)

----------------------------------------------------------------------------
(* Every figure of the page is the one that netting everything again would *)
(* give: re-netting only the touched materials, and looking only at jobs a *)
(* release can reach, loses and adds nothing.                              *)
Exact(reqs, impact, before, after) ==
  /\ impact.jobs = after.readyJobs \ before.readyJobs
  /\ impact.orders = after.readyOrders \ before.readyOrders
  /\ impact.improved = {j \in JobsOf(reqs) \ after.readyJobs :
                          after.jobShortage[j] < before.jobShortage[j]}
  /\ before.readyJobs \subseteq after.readyJobs
  /\ \A j \in JobsOf(reqs) : after.jobShortage[j] <= before.jobShortage[j]

Impacts(page) == {page.single[po] : po \in DOMAIN page.single} \cup page.staged
                 \cup page.supplier \cup {b.bundle : b \in page.bundle}
WhatIfIsExactFor(site, scope, committedKeys, stagedKeys) ==
  LET reqs == Requirements(site, scope)
      committed == CommittedOf(site, scope, committedKeys) IN
  \A impact \in Impacts(ImpactPage(site, scope, committedKeys, stagedKeys)) :
    Exact(reqs, impact, Simulate(site, reqs, committed),
          Simulate(site, reqs, committed \cup impact.pos))

(* No pair of releases that only together make a job ready is missed by    *)
(* the requirement that each of them can reach a blocked job, and of those *)
(* that are tried none by the requirement that they share one.             *)
BundlesCompleteFor(site, scope, committedKeys) ==
  LET reqs == Requirements(site, scope)
      committed == CommittedOf(site, scope, committedKeys)
      ready(S) == Simulate(site, reqs, committed \cup S).readyJobs
      page == ImpactPage(site, scope, committedKeys, {}) IN
  \A B \in kSubset(2, AllCandidates(site, scope) \ committed) :
    LET together == ready(B) \ UNION {ready({po}) : po \in B} IN
    together # {} =>
      /\ B \subseteq DOMAIN page.single
      /\ B \subseteq Tried(site, reqs, DOMAIN page.single) =>
           \E b \in page.bundle : b.bundle.pos = B /\ b.synergy = together
=============================================================================
