--------------------------- MODULE MaterialNetting --------------------------
(***************************************************************************)
(* Which material is short for which job: the cumulative netting of        *)
(* netting.py over the pools that loaders.py reads, the statuses that      *)
(* status.py rolls up for jobs and sales orders, and the projected balance *)
(* of pegging.py.  The call-off pool is left out: its loader always        *)
(* returns an empty one.                                                   *)
(***************************************************************************)
EXTENDS Calendar, Sequences, SequencesExt

CONSTANT None       \* a column that is NULL

----------------------------------------------------------------------------
(* A site is [rows, pos, stock, lead, classes, exempt]: the requirement    *)
(* rows, the open purchase releases, the stock of every material, the lead *)
(* days of every group, the class filter of every group, the exempt codes. *)
NetRequired(row) == Floor(row.required - row.issued)

Assessed(site, group) ==
  {row \in site.rows :
     /\ row.group = group /\ row.open
     /\ site.classes[group] = {} \/ row.class \in site.classes[group]
     /\ row.material \notin site.exempt}

(* Stores, production and Romania; quality control and others do not count.*)
StockOf(site, material) ==
  Total({s \in site.stock : s.material = material}, LAMBDA s : s.usable)

(* Releases that can cover a material: an overdue one arrives today.       *)
Covering(site, material) ==
  {po \in site.pos : po.material = material /\ po.qty > 0 /\ po.due # NoDate}
Arrival(po) == Max({po.due, 0})
InTimeFor(po, row, lead) == row.due = NoDate \/ Arrival(po) <= row.due - lead
OrderedFor(pos, row, lead) ==
  Total({po \in pos : InTimeFor(po, row, lead)}, LAMBDA po : po.qty)

NettedBefore(a, b) ==
  \/ a.due # b.due /\ IsBefore(a.due, b.due)
  \/ a.due = b.due /\ (a.job < b.job \/ (a.job = b.job /\ a.id < b.id))
Sorted(S, Before(_, _)) ==
  [k \in 1 .. Cardinality(S) |-> CHOOSE x \in S : Cardinality({y \in S : Before(y, x)}) = k - 1]
InOrder(rows) == Sorted(rows, NettedBefore)

\* Mutant: orders are never used up.
NetOneUncounted(pool, row, pos, lead) ==
  LET poAvail == OrderedFor(pos, row, lead)
      net     == NetRequired(row)
      stock   == Min({pool.stock, net})
      po      == Min({poAvail, net - stock}) IN
  [stock    |-> Floor(pool.stock - stock),
   consumed |-> pool.consumed,
   lines    |-> Append(pool.lines,
     [row |-> row, net |-> net, stockBefore |-> pool.stock, poCover |-> poAvail,
      shortage |-> Floor(net - pool.stock - poAvail), stockUsed |-> stock, poUsed |-> po,
      poExists |-> pos # {}])]

(* One requirement takes from what the earlier ones left: stock first,     *)
(* then the releases that arrive in time.                                  *)
NetOne(pool, row, pos, lead) ==
  LET poAvail == Floor(OrderedFor(pos, row, lead) - pool.consumed)
      net     == NetRequired(row)
      cover   == Min({net, pool.stock + poAvail})
      stock   == Min({pool.stock, cover})
      po      == Min({poAvail, cover - stock}) IN
  [stock    |-> Floor(pool.stock - stock),
   consumed |-> pool.consumed + po,
   lines    |-> Append(pool.lines,
     [row |-> row, net |-> net, stockBefore |-> pool.stock, poCover |-> poAvail,
      shortage |-> Floor(net - pool.stock - poAvail), stockUsed |-> stock, poUsed |-> po,
      poExists |-> poAvail > 0 \/ Total(pos, LAMBDA x : x.qty) > pool.consumed + po])]

Netted(rows, stock, pos, lead) ==
  LET order == InOrder(rows)
      pool[k \in 0 .. Len(order)] ==
        IF k = 0 THEN [stock |-> stock, consumed |-> 0, lines |-> <<>>]
        ELSE NetOne(pool[k - 1], order[k], pos, lead)
  IN  pool[Len(order)].lines

NettedLines(site, group, material) ==
  Netted({row \in Assessed(site, group) : row.material = material},
         StockOf(site, material), Covering(site, material), site.lead[group])

MaterialsOf(site, group) == {row.material : row \in Assessed(site, group)}
ReportRows(site, group)  ==
  UNION {ToSet(NettedLines(site, group, m)) : m \in MaterialsOf(site, group)}

(* The page's filters apply to what is already netted.                     *)
ShortageReport(site, group, so, from, before, shortagesOnly) ==
  {line \in ReportRows(site, group) :
     /\ so = None \/ line.row.so = so
     /\ ~(from # NoDate /\ line.row.due # NoDate /\ line.row.due < from)
     /\ ~(before # NoDate /\ line.row.due # NoDate /\ line.row.due > before)
     /\ shortagesOnly => line.shortage # 0}

----------------------------------------------------------------------------
(* Statuses, worst first, and their roll-up.                               *)
Priority == [no_data |-> 0, ok |-> 1, med_risk |-> 2, late_po |-> 3, high_risk |-> 4]
Worst(statuses, default) ==
  CHOOSE s \in statuses \cup {default} :
    \A t \in statuses \cup {default} : Priority[t] <= Priority[s]

RowStatus(line) ==
  CASE line.net = 0                         -> "ok"
    [] line.net # 0 /\ line.shortage > 0    -> IF line.poExists THEN "late_po" ELSE "high_risk"
    [] line.net # 0 /\ line.shortage = 0 /\ line.stockBefore < line.net -> "med_risk"
    [] OTHER                                -> "ok"

JobStatus(site, group, job, empty) ==
  Worst({RowStatus(l) : l \in {x \in ReportRows(site, group) : x.row.job = job}}, empty)
SoStatus(site, group, so, empty) ==
  Worst({RowStatus(l) : l \in {x \in ReportRows(site, group) : x.row.so = so}}, empty)
SoMaterialStatus(site, so)  == SoStatus(site, "fabric", so, "no_data")
SoComponentStatus(site, so) == SoStatus(site, "component", so, "ok")

----------------------------------------------------------------------------
(* pegging.py, for one material and one group: requirements and receipts   *)
(* by date, receipts first, with the balance they leave.                   *)
PegEvents(site, group, material) ==
  {[kind |-> "requirement", due |-> r.due, rank |-> 1, job |-> r.job, id |-> r.id,
    qty |-> 0 - NetRequired(r), so |-> r.so] :
      r \in {x \in Assessed(site, group) \cup
                   {y \in site.rows : y.group = group /\ y.open /\ y.material \in site.exempt
                      /\ (site.classes[group] = {} \/ y.class \in site.classes[group])} :
               x.material = material /\ NetRequired(x) > 0}}
  \cup
  {[kind |-> "po", due |-> p.due, rank |-> 0, job |-> 0, id |-> p.id, qty |-> p.qty, so |-> None] :
      p \in {x \in site.pos : x.material = material /\ x.qty > 0}}

PeggedBefore(a, b) ==
  \/ a.due # b.due /\ IsBefore(a.due, b.due)
  \/ /\ a.due = b.due
     /\ \/ a.rank < b.rank
        \/ a.rank = b.rank /\ (a.job < b.job \/ (a.job = b.job /\ a.id < b.id))

NettedStatus(site, group, material, job) ==
  Worst({RowStatus(l) : l \in {x \in ReportRows(site, group) :
                                 x.row.material = material /\ x.row.job = job}}, "no_data")

PegStatus(netted, short, applied, anyPo) ==
  IF ~short THEN netted
  ELSE Worst({netted, IF applied \/ ~anyPo THEN "high_risk" ELSE "late_po"}, "no_data")

Peg(site, group, material, acc, e, anyPo) ==
  LET balance == acc.balance + e.qty
      applied == acc.applied \/ e.kind = "po" IN
  [balance |-> balance, applied |-> applied,
   lines |-> Append(acc.lines,
     [event |-> e, balance |-> balance, short |-> balance < 0,
      status |-> IF e.kind = "po" THEN "no_data"
                 ELSE PegStatus(NettedStatus(site, group, material, e.job),
                                balance < 0, applied, anyPo)])]

Pegged(site, group, material) ==
  LET events == PegEvents(site, group, material)
      order  == Sorted(events, PeggedBefore)
      acc[k \in 0 .. Len(order)] ==
        IF k = 0 THEN [balance |-> StockOf(site, material), applied |-> FALSE, lines |-> <<>>]
        ELSE Peg(site, group, material, acc[k - 1], order[k], \E e \in events : e.kind = "po")
  IN  acc[Len(order)].lines

----------------------------------------------------------------------------
(* Nothing is promised twice and no shortage is invented: up to every      *)
(* requirement, in date order, the releases used are among those that      *)
(* arrive in time for it and the stock used is what there is; a            *)
(* requirement is short only when all of both is gone; and the pegging     *)
(* view of the same material goes below zero only where netting is short.  *)
UpTo(lines, k, F(_)) == Total(1 .. k, LAMBDA i : F(lines[i]))

AllocationSound(site, group, material) ==
  LET lines == NettedLines(site, group, material)
      stock == StockOf(site, material)
      ordered(row) == OrderedFor(Covering(site, material), row, site.lead[group]) IN
  \A k \in 1 .. Len(lines) :
    LET usedStock == UpTo(lines, k, LAMBDA l : l.stockUsed)
        usedPo    == UpTo(lines, k, LAMBDA l : l.poUsed) IN
    /\ usedStock <= stock
    /\ usedPo <= ordered(lines[k].row)
    /\ lines[k].stockUsed + lines[k].poUsed + lines[k].shortage = lines[k].net
    /\ lines[k].shortage > 0 => usedStock = stock /\ usedPo = ordered(lines[k].row)

AlarmsAgree(site, group, material) ==
  LET pegged == Pegged(site, group, material)
      netted == NettedLines(site, group, material) IN
  /\ \A k \in DOMAIN pegged : pegged[k].short /\ StockOf(site, material) >= 0
       => \E i \in DOMAIN netted :
            /\ netted[i].shortage > 0
            /\ ~NettedBefore([due |-> pegged[k].event.due, job |-> pegged[k].event.job,
                              id |-> pegged[k].event.id], netted[i].row)
  /\ \A k \in DOMAIN pegged : pegged[k].event.kind = "requirement" =>
       \A i \in DOMAIN netted : netted[i].row.job = pegged[k].event.job =>
         Priority[RowStatus(netted[i])] <= Priority[pegged[k].status]

NettingSoundFor(site) ==
  \A group \in DOMAIN site.lead : \A material \in MaterialsOf(site, group) :
    AllocationSound(site, group, material) /\ AlarmsAgree(site, group, material)
=============================================================================
