------------------------ MODULE TransportReadiness --------------------------
(***************************************************************************)
(* How the transport board comes to call loads ready: the order importer   *)
(* collapses the joined rows of a release (transport/order_importer.py),   *)
(* the load board counts the releases of a load and compares quantities    *)
(* with its header (readiness.py), and every stage sums up its loads.      *)
(***************************************************************************)
EXTENDS Calendar, Sequences

CONSTANTS Loads, Releases, Unknown, MaxQty

(* A joined row: one release with one of its jobs.                         *)
JobStatuses == {"complete", "in progress", "blank"}
Flag        == {TRUE, FALSE, Unknown}
JoinedRows  == [release : Releases, load : Loads \cup {Unknown}, job : JobStatuses,
                credit : Flag, held : Flag, qty : (0 .. MaxQty) \cup {Unknown}]

(* A load of the board: its number and the quantity of its header.         *)
BoardRows == [load : Loads, qty : (0 .. MaxQty) \cup {Unknown}]

----------------------------------------------------------------------------
(* order_importer.py: the rows of a release that has a transport number.   *)
Assigned(rows)   == {row \in rows : row.load # Unknown}
RowsOf(rows, r)  == {row \in Assigned(rows) : row.release = r}
Collapsible(rows) == \A r \in Releases : \A x, y \in RowsOf(rows, r) :
                        x.load = y.load /\ x.qty = y.qty

\* Mutant: one complete job is enough.
AnyComplete(group) ==
  IF \E row \in group : row.job = "complete" THEN "complete" ELSE "unknown"
ProductionState(group) ==
  CASE \A row \in group : row.job = "complete"    -> "complete"
    [] \E row \in group : row.job = "in progress" -> "outstanding"
    [] OTHER                                      -> "unknown"

CombinedHold(flags) ==
  IF TRUE \in flags THEN TRUE ELSE IF Unknown \in flags THEN Unknown ELSE FALSE

CollapsedRelease(rows, r) ==
  LET group == RowsOf(rows, r) IN
  [release |-> r,
   load    |-> (CHOOSE row \in group : TRUE).load,
   qty     |-> (CHOOSE row \in group : TRUE).qty,
   state   |-> ProductionState(group),
   credit  |-> CombinedHold({row.credit : row \in group}),
   held    |-> CombinedHold({row.held : row \in group})]

SyncOrders(rows) == {CollapsedRelease(rows, r) : r \in {x \in Releases : RowsOf(rows, x) # {}}}

----------------------------------------------------------------------------
(* readiness.py                                                            *)
Count(S, P(_)) == Cardinality({x \in S : P(x)})

IsHeld(rel)        == rel.held = TRUE \/ rel.credit = TRUE
HoldUnknown(rel)   == Unknown \in {rel.held, rel.credit}
IsComplete(rel)    == rel.state = "complete"

QtyOf(releases) == Total(releases, LAMBDA rel : rel.qty)

CoverageMatches(boardRow, releases) ==
  /\ boardRow.qty # Unknown
  /\ \A rel \in releases : rel.qty # Unknown
  /\ QtyOf(releases) = boardRow.qty

Readiness(boardRow, orders) ==
  LET mine == {rel \in orders : rel.load = boardRow.load} IN
  [count     |-> Cardinality(mine),
   complete  |-> Count(mine, IsComplete),
   held      |-> Count(mine, IsHeld),
   unchecked |-> Count(mine, HoldUnknown),
   issues    |-> {rel \in mine : ~IsComplete(rel) \/ IsHeld(rel) \/ HoldUnknown(rel)},
   covered   |-> CoverageMatches(boardRow, mine)]

(* {load_id: readiness for load in loads}: the last row of a load counts.  *)
LastRowOf(board, l) == board[Max({i \in 1 .. Len(board) : board[i].load = l})]
Shown(board)        == {board[i].load : i \in 1 .. Len(board)}

Summarise(board, orders) ==
  LET ready == [l \in Shown(board) |-> Readiness(LastRowOf(board, l), orders)]
      Over(F(_)) == Total(Shown(board), LAMBDA l : F(ready[l]))
      count == Over(LAMBDA x : x.count)
      complete == Over(LAMBDA x : x.complete)
      uncovered == {l \in Shown(board) : ~ready[l].covered} IN
  [count |-> count, complete |-> complete, uncovered |-> Cardinality(uncovered),
   clear |-> /\ count > 0 /\ complete = count
             /\ Over(LAMBDA x : x.held) = 0
             /\ Over(LAMBDA x : x.unchecked) = 0
             /\ uncovered = {}]

----------------------------------------------------------------------------
(* "Conservative": loads are called clear exactly when every joined row    *)
(* Epicor gave for them says complete and shows no hold, nothing is left   *)
(* unsaid, and each load on its own carries the quantity of its header,    *)
(* the last of them when a load has several.  One load too full and        *)
(* another too empty must not make up for each other, and one blank job    *)
(* must not hide behind a complete one.                                    *)
OnLoad(rows, l) == {row \in rows : row.load = l}
CarriedQty(rows, l) ==
  Total({row.release : row \in OnLoad(rows, l)},
        LAMBDA r : (CHOOSE row \in OnLoad(rows, l) : row.release = r).qty)
LastHeaders(board) ==
  {i \in 1 .. Len(board) : \A j \in 1 .. Len(board) : j > i => board[j].load # board[i].load}

EarnedClear(board, rows) ==
  /\ \E l \in Shown(board) : OnLoad(rows, l) # {}
  /\ \A l \in Shown(board), row \in rows : row.load = l =>
       row.job = "complete" /\ row.credit = FALSE /\ row.held = FALSE /\ row.qty # Unknown
  /\ \A i \in LastHeaders(board) :
       board[i].qty # Unknown /\ board[i].qty = CarriedQty(rows, board[i].load)

ClearIsEarnedFor(board, rows) ==
  Summarise(board, SyncOrders(rows)).clear <=> EarnedClear(board, rows)

(* Every header of loads that are called clear is carried.  A load may     *)
(* have two rows; the one that is overwritten is not compared.             *)
HeadersAreCarriedFor(board, rows) ==
  Summarise(board, SyncOrders(rows)).clear =>
    \A i \in 1 .. Len(board) : board[i].qty = CarriedQty(rows, board[i].load)
=============================================================================
