----------------------------- MODULE SalesSync -----------------------------
(***************************************************************************)
(* The two importers that share the sales_orders table                     *)
(* (app/core/epicor_importers.py).  sales_open replaces the open orders;   *)
(* sales_closed asks Epicor for the closed orders of a window of order     *)
(* dates and replaces the rows of the orders it gets.  The window is       *)
(* computed from the last successful run and from the open orders the      *)
(* table holds at that moment.                                             *)
(*                                                                         *)
(* Nothing keeps runs apart: the items of a job follow one another, but    *)
(* jobs, the admin page and the command line do not wait for each other.   *)
(* Any number of runs of either importer may be in progress.               *)
(*                                                                         *)
(* The unit of time is the day.  An order stands for its rows, and once    *)
(* closed it is not reopened in Epicor; the run life cycle around each     *)
(* importer is module BaqImport's.  The deletions and insertions of a run  *)
(* and its commit are one step: SQLite has one writer at a time.           *)
(***************************************************************************)
EXTENDS Integers, FiniteSets

CONSTANTS
  Orders,     \* sales orders
  Runs,       \* runs that may be in progress at one time
  Overlap,    \* _OVERLAP_DAYS
  Lookback,   \* MAX_LOOKBACK_DAYS
  OldDays,    \* days of last year an order may date from; day 0 is the first
              \* of this year
  ByHand,     \* days at which windows given by hand begin and end
  MaxTime     \* bound on the clock, within the year

ASSUME SalesAssumption ==
  /\ Overlap \in Nat /\ Lookback \in Nat /\ Overlap < Lookback
  /\ OldDays \in Nat /\ MaxTime \in Nat
  /\ ByHand \subseteq -OldDays .. MaxTime

VARIABLES
  today,
  epicor,     \* each order in Epicor: its state, order date, closing date
  open,       \* orders with rows that have open_order = True
  closed,     \* orders with rows that have open_order = False
  last,       \* start of the last successful sales_closed run
  imp,        \* the runs in progress, of either importer
  crossed,    \* history: a run of sales_closed committed while the run of
              \* sales_open that wrote the open rows had its records in hand
  wasOpen,    \* history: orders the table has shown as open, while steady
  steady,     \* history: sales_closed was never run by hand, and its
              \* schedule was kept
  promised    \* history: the orders a successful automatic run of
              \* sales_closed found closed when it started, in the table before

vars == <<today, epicor, open, closed, last, imp, crossed, wasOpen, steady, promised>>

-----------------------------------------------------------------------------
FirstDate == -OldDays
Never     == FirstDate - 1
Days      == Never .. MaxTime

Order == [state : {"none", "open", "closed"}, date : Days, closedOn : Days]

Idle == [of |-> "none", pc |-> "idle", started |-> Never, from |-> Never,
         to |-> Never, records |-> {}, late |-> FALSE, owes |-> {}]

\* Of one importer or the other; late is for the history crossed, owes for
\* promised.
Run == [of : {"none", "sales_open", "sales_closed"}, pc : {"idle", "fetch", "commit"},
        started : Days, from : Int, to : Days, records : SUBSET Orders,
        late : BOOLEAN, owes : SUBSET Orders]

At(r, importer, pc) == imp[r].of = importer /\ imp[r].pc = pc

InEpicor(s) == {o \in Orders : epicor[o].state = s}

\* The earliest of a set of days.
Earliest(days) == CHOOSE d \in days : \A e \in days : d <= e

OpenDates == {epicor[o].date : o \in open}

\* The open-order floor, capped.
Floor == LET earliest == Earliest(OpenDates)
             cap      == today - Lookback
         IN  IF earliest > cap THEN earliest ELSE cap

\* The last run minus the overlap, or the first of the year.
RollingFromLastRun == IF last = Never THEN 0 ELSE last

RollingFrom == IF last = Never THEN 0 ELSE last - Overlap

\* get_dynamic_params of SalesOrderClosedImporter.
WindowTo == today

WindowFrom == IF OpenDates # {} /\ Earliest(OpenDates) < RollingFrom
                THEN Floor
                ELSE RollingFrom

Init ==
  /\ today = 0
  /\ epicor = [o \in Orders |-> [state |-> "none", date |-> Never, closedOn |-> Never]]
  /\ open = {} /\ closed = {} /\ last = Never
  /\ imp = [r \in Runs |-> Idle]
  /\ crossed = FALSE /\ wasOpen = {} /\ steady = TRUE /\ promised = {}

-----------------------------------------------------------------------------
(***************************************************************************)
(* Epicor and time.                                                        *)
(***************************************************************************)
PlaceOrder(o, d) ==
  /\ epicor[o].state = "none"
  /\ d \in FirstDate .. today
  /\ epicor' = [epicor EXCEPT ![o].state = "open", ![o].date = d]
  /\ UNCHANGED <<today, open, closed, last, imp, crossed, wasOpen, steady, promised>>

CloseOrder(o) ==
  /\ epicor[o].state = "open"
  /\ epicor' = [epicor EXCEPT ![o].state = "closed", ![o].closedOn = today]
  /\ UNCHANGED <<today, open, closed, last, imp, crossed, wasOpen, steady, promised>>

\* The schedule does not pause for so long that the cap cuts the overlap
\* off.  Before the first run the cap does not reach past the first of the
\* year: a year is no longer than Lookback.
InTime == IF last = Never THEN today < Lookback
                          ELSE today + 1 - last <= Lookback - Overlap

NextDay ==
  /\ today < MaxTime
  /\ today' = today + 1
  /\ steady' = (steady /\ InTime)
  /\ wasOpen' = IF steady' THEN wasOpen ELSE {}
  /\ UNCHANGED <<epicor, open, closed, last, imp, crossed, promised>>

-----------------------------------------------------------------------------
(***************************************************************************)
(* sales_open.                                                             *)
(***************************************************************************)
\* A run starts and fetches; an empty answer is refused while the table has
\* rows of either kind.
FetchOpen(r) ==
  /\ imp[r].pc = "idle"
  /\ InEpicor("open") = {} => open \cup closed = {}
  /\ imp' = [imp EXCEPT ![r] = [Idle EXCEPT !.of = "sales_open", !.pc = "commit",
                                            !.records = InEpicor("open")]]
  /\ UNCHANGED <<today, epicor, open, closed, last, crossed, wasOpen, steady, promised>>

\* _sync_records of SalesOrderOpenImporter, and the commit.
CommitOpen(r) ==
  /\ At(r, "sales_open", "commit")
  /\ open' = imp[r].records
  /\ crossed' = imp[r].late
  /\ wasOpen' = IF steady THEN wasOpen \cup open' ELSE {}
  /\ imp' = [imp EXCEPT ![r] = Idle]
  /\ UNCHANGED <<today, epicor, closed, last, steady, promised>>

(***************************************************************************)
(* sales_closed.                                                           *)
(***************************************************************************)
\* A run without parameters.
StartClosed(r) ==
  /\ imp[r].pc = "idle"
  /\ imp' = [imp EXCEPT ![r] =
               [Idle EXCEPT !.of = "sales_closed", !.pc = "fetch", !.started = today,
                            !.from = WindowFrom, !.to = WindowTo,
                            !.owes = IF steady THEN InEpicor("closed") \cap wasOpen
                                           ELSE {}]]
  /\ UNCHANGED <<today, epicor, open, closed, last, crossed, wasOpen, steady, promised>>

\* A run with OrderDateFrom and OrderDateTo given: admin page, job item
\* parameters, command line.
StartClosedFor(r, from, to) ==
  /\ imp[r].pc = "idle"
  /\ imp' = [imp EXCEPT ![r] =
               [Idle EXCEPT !.of = "sales_closed", !.pc = "fetch", !.started = today,
                            !.from = from, !.to = to]]
  /\ steady' = FALSE /\ wasOpen' = {}
  /\ UNCHANGED <<today, epicor, open, closed, last, crossed, promised>>

FetchClosed(r) ==
  /\ At(r, "sales_closed", "fetch")
  /\ imp' = [imp EXCEPT
               ![r].pc = "commit",
               ![r].records = {o \in InEpicor("closed") :
                                 epicor[o].date \in imp[r].from .. imp[r].to}]
  /\ UNCHANGED <<today, epicor, open, closed, last, crossed, wasOpen, steady, promised>>

\* The last successful batch is the one that started last.
Later(d, e) == IF d < e THEN e ELSE d

\* The runs after a run r of sales_closed has committed.
AfterClosed(r) ==
  [q \in Runs |-> IF q = r THEN Idle
                  ELSE [imp[q] EXCEPT !.late = @ \/ At(q, "sales_open", "commit")]]

\* Mutant: the old rows of the orders fetched are not deleted.
CommitClosedKeeping(r) ==
  /\ At(r, "sales_closed", "commit")
  /\ closed' = closed \cup imp[r].records
  /\ last' = Later(last, imp[r].started)
  /\ promised' = promised \cup imp[r].owes
  /\ imp' = AfterClosed(r)
  /\ UNCHANGED <<today, epicor, open, crossed, wasOpen, steady>>

\* _sync_records of SalesOrderClosedImporter, and the commit: all rows of the
\* orders fetched go, open ones included.  The batch is dated by its start.
CommitClosed(r) ==
  /\ At(r, "sales_closed", "commit")
  /\ open' = open \ imp[r].records
  /\ closed' = closed \cup imp[r].records
  /\ last' = Later(last, imp[r].started)
  /\ promised' = promised \cup imp[r].owes
  /\ imp' = AfterClosed(r)
  /\ UNCHANGED <<today, epicor, crossed, wasOpen, steady>>

\* A run ends as FAILED and changes nothing here.
Fail(r) ==
  /\ imp[r].pc # "idle"
  /\ imp' = [imp EXCEPT ![r] = Idle]
  /\ UNCHANGED <<today, epicor, open, closed, last, crossed, wasOpen, steady, promised>>

-----------------------------------------------------------------------------
Outside == \/ NextDay
           \/ \E o \in Orders : CloseOrder(o) \/ \E d \in FirstDate .. today : PlaceOrder(o, d)

Importer(r) == \/ FetchOpen(r) \/ CommitOpen(r)
               \/ StartClosed(r) \/ FetchClosed(r) \/ CommitClosed(r)
               \/ Fail(r)
               \/ \E from, to \in ByHand : StartClosedFor(r, from, to)

Next == Outside \/ \E r \in Runs : Importer(r)

Spec == Init /\ [][Next]_vars

-----------------------------------------------------------------------------
(***************************************************************************)
(* Types.                                                                  *)
(***************************************************************************)
TypeOK == /\ today \in 0 .. MaxTime
          /\ epicor \in [Orders -> Order]
          /\ open \subseteq Orders /\ closed \subseteq Orders
          /\ last \in Days
          /\ imp \in [Runs -> Run]
          /\ crossed \in BOOLEAN /\ wasOpen \subseteq Orders /\ promised \subseteq Orders
          /\ steady \in BOOLEAN

(***************************************************************************)
(* An order is in the table as open and as closed, so that its value       *)
(* counts twice, only as long as its open row comes from a run of          *)
(* sales_open that a run of sales_closed overtook: the order closed after  *)
(* the one had fetched it, and the other recorded that before the first    *)
(* deleted and inserted (SalesOrderOpenImporter and                        *)
(* SalesOrderClosedImporter._sync_records).  Runs that do not cross in     *)
(* this way leave every order once, however many there are, and the next   *)
(* such run of sales_open removes what a crossing left.                    *)
(***************************************************************************)
NotTwice == ~crossed => open \cap closed = {}

(***************************************************************************)
(* Without that condition the code breaks it (README): sales_orders has no *)
(* unique key, and the rows of an order are deleted by open_order in one   *)
(* importer and by order_num in the other.                                 *)
(***************************************************************************)
NeverTwice == open \cap closed = {}

(***************************************************************************)
(* An order that closes within the overlap of its order date is in the     *)
(* table as closed once an automatic run that started after the closing    *)
(* has succeeded: "rolling 30-day overlap to catch corrections"            *)
(* (SalesOrderClosedImporter.get_dynamic_params).  The first run, which    *)
(* reads the current year, does not reach older orders.                    *)
(***************************************************************************)
Prompt(o) == /\ epicor[o].date >= 0
             /\ epicor[o].closedOn <= epicor[o].date + Overlap

PromptClosuresRecorded == \A o \in promised : Prompt(o) => o \in closed

(***************************************************************************)
(* The same for every order of this year the table has shown as open,      *)
(* however late it closes: "ensures orders that transition from open ->    *)
(* closed are never missed, regardless of how old their order_date is".    *)
(***************************************************************************)
NeverMissed == \A o \in promised : epicor[o].date >= 0 => o \in closed

(***************************************************************************)
(* An automatic window starts no later than the last run minus the         *)
(* overlap: "The date range is the EARLIER of (last_run - OVERLAP_DAYS)    *)
(* and earliest open order_date".                                          *)
(***************************************************************************)
WindowReachesBack ==
  [][\A r \in Runs : StartClosed(r) /\ last # Never => imp'[r].from <= last - Overlap]_vars
=============================================================================
