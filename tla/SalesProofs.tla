---------------------------- MODULE SalesProofs ----------------------------
(***************************************************************************)
(* Proofs about SalesSync, for any orders, days, overlap and lookback, and *)
(* any number of runs of both importers in progress at once: the table has *)
(* an order twice only by a run of sales_open that was overtaken, and,     *)
(* while the schedule is kept, an order that closes within the overlap of  *)
(* its date is recorded.                                                   *)
(***************************************************************************)
EXTENDS SalesSync, WellFoundedInduction, TLAPS

-----------------------------------------------------------------------------
(***************************************************************************)
(* The window.                                                             *)
(***************************************************************************)
LEMMA DaysAreIntegers == /\ Days \subseteq Int /\ FirstDate \in Int /\ Never \in Int
                         /\ Never < FirstDate /\ FirstDate <= 0
                         /\ Never \in Days /\ 0 .. MaxTime \subseteq Days
BY SalesAssumption DEF Days, FirstDate, Never

\* Every set of natural numbers that is not empty has a smallest member.
Below == {pair \in Nat \X Nat : pair[1] < pair[2]}

LEMMA SmallestExists ==
  ASSUME NEW T \in SUBSET Nat, T # {}
  PROVE  \E n \in T : \A k \in T : n <= k
<1>1. IsWellFoundedOn(Below, Nat)
  BY NatLessThanWellFounded, Zenon DEF OpToRel, Below
<1>2. PICK n \in T : \A k \in T : ~(<<k, n>> \in Below)
  BY <1>1, WFMin, Zenon
<1>3. \A k \in T : ~(k < n)
  BY <1>2 DEF Below
<1> QED BY <1>3

\* A set of days that is not empty has an earliest one.
LEMMA EarliestExists ==
  ASSUME NEW days \in SUBSET Days, days # {}
  PROVE  Earliest(days) \in days /\ \A e \in days : Earliest(days) <= e
<1> DEFINE since == {d - Never : d \in days}
<1>1. \A d \in days : d \in Int /\ d - Never \in Nat
  BY SalesAssumption DEF Days, FirstDate, Never
<1>2. since \in SUBSET Nat /\ since # {}
  BY <1>1
<1>3. PICK n \in since : \A k \in since : n <= k
  <2> HIDE DEF since
  <2> QED BY <1>2, SmallestExists
<1>4. PICK d \in days : d - Never = n
  OBVIOUS
<1>5. ASSUME NEW e \in days PROVE d <= e
  <2>1. d - Never <= e - Never
    BY <1>3, <1>4
  <2> QED BY <1>1, <2>1, DaysAreIntegers
<1> QED BY <1>4, <1>5 DEF Earliest

\* What a window covers: this year, or the time since the overlap before the
\* last run.
Reaches(from) == from <= 0 \/ (last # Never /\ from <= last - Overlap)

\* The schedule has been kept.
Scheduled == today <= Lookback \/ (last # Never /\ today - last <= Lookback - Overlap)

LEMMA WindowReaches ==
  ASSUME TypeOK
  PROVE  WindowFrom \in Int /\ (Scheduled => Reaches(WindowFrom))
<1>1. OpenDates \subseteq Days
  BY DEF TypeOK, OpenDates, Order
<1>2. OpenDates # {} => Earliest(OpenDates) \in Int
  BY <1>1, EarliestExists, DaysAreIntegers
<1>3. last \in Int /\ today \in Int /\ RollingFrom \in Int
  BY DaysAreIntegers, SalesAssumption DEF TypeOK, RollingFrom
<1>4. CASE WindowFrom = RollingFrom
  BY <1>3, <1>4, SalesAssumption DEF RollingFrom, Reaches
<1>5. CASE /\ OpenDates # {} /\ Earliest(OpenDates) < RollingFrom
           /\ WindowFrom = Floor
  <2>1. Earliest(OpenDates) \in Int
    BY <1>2, <1>5
  <2>2. CASE Floor = Earliest(OpenDates)
    BY <1>3, <1>5, <2>1, <2>2, SalesAssumption DEF RollingFrom, Reaches
  <2>3. CASE Floor = today - Lookback
    BY <1>3, <1>5, <2>1, <2>3, SalesAssumption DEF RollingFrom, Reaches, Scheduled
  <2> QED BY <2>2, <2>3 DEF Floor
<1> QED BY <1>4, <1>5 DEF WindowFrom

-----------------------------------------------------------------------------
(***************************************************************************)
(* The invariant.                                                          *)
(***************************************************************************)
\* The closed rows are of orders closed in Epicor.
Apart == NotTwice /\ closed \subseteq InEpicor("closed")

DatesGood ==
  /\ \A o \in InEpicor("closed") :
       epicor[o].closedOn \in 0 .. today /\ epicor[o].date <= epicor[o].closedOn
  /\ \A o \in InEpicor("open") : epicor[o].date <= today
  /\ last <= today

\* While the schedule is kept, every order that closed in time before the
\* last run is recorded.
Complete ==
  steady =>
    /\ Scheduled
    /\ \A o \in InEpicor("closed") :
         Prompt(o) /\ epicor[o].closedOn < last => o \in closed

\* What is promised is kept.
Kept == promised \subseteq InEpicor("closed") /\ PromptClosuresRecorded

\* A run of sales_closed in progress, and the closed orders that the table
\* has or the run brings.
Closing(r) == imp[r].of = "sales_closed" /\ imp[r].pc # "idle"

Secured(r, o) == \/ o \in closed
                 \/ /\ At(r, "sales_closed", "fetch")
                    /\ epicor[o].date \in imp[r].from .. imp[r].to
                 \/ At(r, "sales_closed", "commit") /\ o \in imp[r].records

\* What sales_open is about to write has no closed rows unless a run of
\* sales_closed has committed since.  What sales_closed is about to write is
\* closed in Epicor; what it owes is on its way, and while the schedule is
\* kept, so is every order that closed in time before its start.
RunGood(r) ==
  /\ At(r, "sales_open", "commit") /\ ~imp[r].late => imp[r].records \cap closed = {}
  /\ At(r, "sales_closed", "commit") => imp[r].records \subseteq InEpicor("closed")
  /\ Closing(r) =>
       /\ imp[r].started \in 0 .. today
       /\ imp[r].owes \subseteq InEpicor("closed")
       /\ \A o \in imp[r].owes : Prompt(o) => Secured(r, o)
       /\ steady => \A o \in InEpicor("closed") :
                      Prompt(o) /\ epicor[o].closedOn < imp[r].started => Secured(r, o)

SalesInv == TypeOK /\ Apart /\ DatesGood /\ Complete /\ Kept /\ \A r \in Runs : RunGood(r)


-----------------------------------------------------------------------------
(***************************************************************************)
(* Types.                                                                  *)
(***************************************************************************)
LEMMA IdleTyped == Idle \in Run /\ Idle.pc = "idle" /\ Idle.of = "none"
BY DaysAreIntegers DEF Idle, Run

\* A step changes one run.
LEMMA RunsApart ==
  ASSUME TypeOK, NEW x \in Run, NEW r \in Runs, imp' = [imp EXCEPT ![r] = x]
  PROVE  /\ imp' \in [Runs -> Run]
         /\ imp'[r] = x
         /\ \A q \in Runs : q # r => imp'[q] = imp[q]
BY DEF TypeOK

\* Dates are integers.
LEMMA DatesTyped ==
  ASSUME TypeOK
  PROVE  /\ today \in Int /\ last \in Int /\ last \in Days
         /\ \A o \in Orders : epicor[o].date \in Int /\ epicor[o].closedOn \in Int
         /\ \A r \in Runs : imp[r].started \in Int
<1>1. \A r \in Runs : imp[r].started \in Days
  BY DEF TypeOK, Run
<1>2. \A o \in Orders : epicor[o].date \in Days /\ epicor[o].closedOn \in Days
  BY DEF TypeOK, Order
<1> QED BY <1>1, <1>2, DaysAreIntegers DEF TypeOK

LEMMA StartClosedIs ==
  ASSUME TypeOK, NEW r \in Runs, StartClosed(r)
  PROVE  /\ imp' \in [Runs -> Run]
         /\ \A q \in Runs : q # r => imp'[q] = imp[q]
         /\ imp'[r].of = "sales_closed" /\ imp'[r].pc = "fetch"
         /\ imp'[r].started = today /\ imp'[r].from = WindowFrom /\ imp'[r].to = today
         /\ steady => imp'[r].owes \subseteq InEpicor("closed")
         /\ ~steady => imp'[r].owes = {}
<1> DEFINE owes == IF steady THEN InEpicor("closed") \cap wasOpen ELSE {}
           x == [Idle EXCEPT !.of = "sales_closed", !.pc = "fetch", !.started = today,
                             !.from = WindowFrom, !.to = WindowTo, !.owes = owes]
<1>1. owes \in SUBSET Orders /\ (steady => owes \subseteq InEpicor("closed"))
      /\ (~steady => owes = {})
  BY DEF InEpicor
<1>2. today \in Days /\ WindowFrom \in Int /\ WindowTo = today
  BY DaysAreIntegers, WindowReaches DEF TypeOK, WindowTo
<1>3. /\ x \in Run /\ x.of = "sales_closed" /\ x.pc = "fetch"
      /\ x.started = today /\ x.from = WindowFrom /\ x.to = today /\ x.owes = owes
  <2> HIDE DEF owes
  <2> QED BY <1>1, <1>2, IdleTyped DEF Idle, Run
<1>4. imp' = [imp EXCEPT ![r] = x]
  BY DEF StartClosed
<1>5. imp' \in [Runs -> Run] /\ imp'[r] = x /\ \A q \in Runs : q # r => imp'[q] = imp[q]
  <2> HIDE DEF x
  <2> QED BY <1>3, <1>4, RunsApart
<1> QED BY <1>1, <1>3, <1>5

LEMMA StartClosedForIs ==
  ASSUME TypeOK, NEW r \in Runs, NEW from \in ByHand, NEW to \in ByHand,
         StartClosedFor(r, from, to)
  PROVE  /\ imp' \in [Runs -> Run]
         /\ \A q \in Runs : q # r => imp'[q] = imp[q]
         /\ imp'[r].of = "sales_closed" /\ imp'[r].pc = "fetch"
         /\ imp'[r].started = today /\ imp'[r].owes = {}
<1> DEFINE x == [Idle EXCEPT !.of = "sales_closed", !.pc = "fetch", !.started = today,
                             !.from = from, !.to = to]
<1>1. today \in Days /\ from \in Int /\ to \in Days
  BY SalesAssumption, DaysAreIntegers DEF TypeOK, FirstDate, Never, Days
<1>2. x \in Run /\ x.of = "sales_closed" /\ x.pc = "fetch" /\ x.started = today /\ x.owes = {}
  BY <1>1, IdleTyped DEF Idle, Run
<1>3. imp' = [imp EXCEPT ![r] = x]
  BY DEF StartClosedFor
<1> HIDE DEF x
<1> QED BY <1>2, <1>3, RunsApart

LEMMA FetchOpenIs ==
  ASSUME TypeOK, NEW r \in Runs, FetchOpen(r)
  PROVE  /\ imp' \in [Runs -> Run]
         /\ \A q \in Runs : q # r => imp'[q] = imp[q]
         /\ imp'[r].of = "sales_open" /\ imp'[r].pc = "commit"
         /\ imp'[r].records = InEpicor("open")
<1> DEFINE x == [Idle EXCEPT !.of = "sales_open", !.pc = "commit",
                             !.records = InEpicor("open")]
<1>1. InEpicor("open") \in SUBSET Orders
  BY DEF InEpicor
<1>2. x \in Run /\ x.of = "sales_open" /\ x.pc = "commit" /\ x.records = InEpicor("open")
  BY <1>1, IdleTyped DEF Idle, Run
<1>3. imp' = [imp EXCEPT ![r] = x]
  BY DEF FetchOpen
<1> HIDE DEF x
<1> QED BY <1>2, <1>3, RunsApart

LEMMA FetchClosedIs ==
  ASSUME TypeOK, NEW r \in Runs, FetchClosed(r)
  PROVE  /\ imp' \in [Runs -> Run]
         /\ \A q \in Runs : q # r => imp'[q] = imp[q]
         /\ imp'[r].of = "sales_closed" /\ imp'[r].pc = "commit"
         /\ imp'[r].records = {o \in InEpicor("closed") :
                                 epicor[o].date \in imp[r].from .. imp[r].to}
         /\ imp'[r].started = imp[r].started /\ imp'[r].owes = imp[r].owes
<1> DEFINE records == {o \in InEpicor("closed") :
                         epicor[o].date \in imp[r].from .. imp[r].to}
           x == [imp[r] EXCEPT !.pc = "commit", !.records = records]
<1>1. records \in SUBSET Orders /\ imp[r] \in Run /\ imp[r].of = "sales_closed"
  BY DEF InEpicor, TypeOK, FetchClosed, At
<1>2. /\ x \in Run /\ x.of = "sales_closed" /\ x.pc = "commit" /\ x.records = records
      /\ x.started = imp[r].started /\ x.owes = imp[r].owes
  <2> HIDE DEF records
  <2> QED BY <1>1 DEF Run
<1>3. imp' = [imp EXCEPT ![r] = x]
  BY DEF FetchClosed, TypeOK
<1>4. imp' \in [Runs -> Run] /\ imp'[r] = x /\ \A q \in Runs : q # r => imp'[q] = imp[q]
  <2> HIDE DEF x
  <2> QED BY <1>2, <1>3, RunsApart
<1> QED BY <1>2, <1>4

\* The commit of sales_closed marks the runs of sales_open it overtakes.
LEMMA AfterClosedIs ==
  ASSUME TypeOK, NEW r \in Runs, imp' = AfterClosed(r)
  PROVE  /\ imp' \in [Runs -> Run]
         /\ imp'[r] = Idle
         /\ \A q \in Runs : q # r =>
              /\ imp'[q].of = imp[q].of /\ imp'[q].pc = imp[q].pc
              /\ imp'[q].started = imp[q].started
              /\ imp'[q].from = imp[q].from /\ imp'[q].to = imp[q].to
              /\ imp'[q].records = imp[q].records /\ imp'[q].owes = imp[q].owes
              /\ At(q, "sales_open", "commit") => imp'[q].late
<1>1. \A q \in Runs : imp[q] \in Run
  BY DEF TypeOK
<1>2. \A q \in Runs : q # r =>
        imp'[q] = [imp[q] EXCEPT !.late = imp[q].late \/ At(q, "sales_open", "commit")]
  BY DEF AfterClosed
<1>3. ASSUME NEW q \in Runs, q # r
      PROVE  /\ imp'[q] \in Run
             /\ imp'[q].of = imp[q].of /\ imp'[q].pc = imp[q].pc
             /\ imp'[q].started = imp[q].started
             /\ imp'[q].from = imp[q].from /\ imp'[q].to = imp[q].to
             /\ imp'[q].records = imp[q].records /\ imp'[q].owes = imp[q].owes
             /\ At(q, "sales_open", "commit") => imp'[q].late
  <2> DEFINE late == imp[q].late \/ At(q, "sales_open", "commit")
             x == imp[q]
  <2>1. late \in BOOLEAN /\ x \in Run /\ imp'[q] = [x EXCEPT !.late = late]
    BY <1>1, <1>2, <1>3 DEF Run, At
  <2>2. At(q, "sales_open", "commit") => late = TRUE
    BY <2>1, Zenon
  <2> HIDE DEF late, x
  <2>3. /\ imp'[q] \in Run /\ imp'[q].of = x.of /\ imp'[q].pc = x.pc
        /\ imp'[q].started = x.started /\ imp'[q].from = x.from /\ imp'[q].to = x.to
        /\ imp'[q].records = x.records /\ imp'[q].owes = x.owes
        /\ imp'[q].late = late
    BY <2>1 DEF Run
  <2> QED BY <2>2, <2>3, Zenon DEF x
<1>4. imp'[r] = Idle /\ imp' = [q \in Runs |-> imp'[q]]
  BY DEF AfterClosed
<1>5. \A q \in Runs : imp'[q] \in Run
  BY <1>3, <1>4, IdleTyped
<1> QED BY <1>3, <1>4, <1>5

-----------------------------------------------------------------------------
(***************************************************************************)
(* Steps.                                                                  *)
(***************************************************************************)
\* Steps of the importers: Epicor and the day stay, and so does the table
\* of closed orders but for what is added.
Importing == /\ UNCHANGED <<today, epicor>> /\ TypeOK'
             /\ closed \subseteq closed'
             /\ steady' => steady

LEMMA ImportingKeeps ==
  ASSUME Importing
  PROVE  /\ InEpicor("closed")' = InEpicor("closed") /\ InEpicor("open")' = InEpicor("open")
         /\ \A o \in Orders : Prompt(o)' <=> Prompt(o)
BY DEF Importing, InEpicor, Prompt

\* A run the step leaves alone.
LEMMA RunStays ==
  ASSUME Importing, NEW r \in Runs, RunGood(r), imp'[r] = imp[r],
         closed' = closed \/ ~At(r, "sales_open", "commit") \/ imp'[r].late
  PROVE  RunGood(r)'
<1>1. /\ At(r, "sales_open", "commit")' <=> At(r, "sales_open", "commit")
      /\ At(r, "sales_closed", "commit")' <=> At(r, "sales_closed", "commit")
      /\ At(r, "sales_closed", "fetch")' <=> At(r, "sales_closed", "fetch")
      /\ Closing(r)' <=> Closing(r)
  BY DEF At, Closing
<1>2. \A o \in Orders : Secured(r, o) => Secured(r, o)'
  BY <1>1 DEF Secured, Importing
<1>3. Closing(r) => imp[r].owes \subseteq Orders
  BY DEF RunGood, InEpicor
<1>4. \A o \in InEpicor("closed") : o \in Orders
  BY DEF InEpicor
<1> QED BY <1>1, <1>2, <1>3, <1>4, ImportingKeeps DEF Importing, RunGood

\* A run that is over.
LEMMA RunOver ==
  ASSUME NEW r \in Runs, imp'[r] = Idle
  PROVE  RunGood(r)'
BY IdleTyped DEF RunGood, At, Closing

\* What the table promises stays when its rows do.
LEMMA TableStays ==
  ASSUME SalesInv, Importing, UNCHANGED <<open, closed, last, crossed, promised>>
  PROVE  Apart' /\ DatesGood' /\ Complete' /\ Kept'
<1>1. Apart' /\ DatesGood'
  BY ImportingKeeps DEF SalesInv, Apart, NotTwice, DatesGood, Importing
<1>2. Complete'
  BY ImportingKeeps DEF SalesInv, Complete, Scheduled, Importing, InEpicor
<1>3. Kept'
  BY ImportingKeeps DEF SalesInv, Kept, PromptClosuresRecorded, Importing, InEpicor
<1> QED BY <1>1, <1>2, <1>3

LEMMA PlaceKeeps ==
  ASSUME SalesInv, NEW o \in Orders, NEW d \in FirstDate .. today, PlaceOrder(o, d)
  PROVE  SalesInv'
<1>1. /\ epicor'[o].state = "open" /\ epicor'[o].date = d /\ epicor[o].state = "none"
      /\ \A p \in Orders : p # o => epicor'[p] = epicor[p]
  BY DEF SalesInv, TypeOK, PlaceOrder, Order
<1>2. d \in Days /\ d <= today
  BY DatesTyped, DaysAreIntegers, SalesAssumption
     DEF SalesInv, TypeOK, Days, FirstDate, Never
<1>3. TypeOK'
  BY <1>2 DEF SalesInv, TypeOK, PlaceOrder, Order
<1>4. /\ InEpicor("closed")' = InEpicor("closed")
      /\ InEpicor("open")' \subseteq InEpicor("open") \cup {o}
      /\ \A p \in InEpicor("closed") : epicor'[p] = epicor[p]
      /\ \A p \in InEpicor("open") : p # o => epicor'[p] = epicor[p]
  BY <1>1 DEF InEpicor
<1>5. UNCHANGED <<today, open, closed, last, imp, crossed, steady, promised>>
  BY DEF PlaceOrder
<1>6. Apart'
  BY <1>4, <1>5 DEF SalesInv, Apart, NotTwice
<1>7. DatesGood'
  BY <1>1, <1>2, <1>4, <1>5 DEF SalesInv, DatesGood
<1>8. \A p \in InEpicor("closed") :
        (Prompt(p)' <=> Prompt(p)) /\ \A r \in Runs : Secured(r, p)' <=> Secured(r, p)
  BY <1>4, <1>5 DEF Prompt, Secured, At
<1>9. Complete'
  BY <1>4, <1>5, <1>8 DEF SalesInv, Complete, Scheduled
<1>10. Kept'
  BY <1>4, <1>5, <1>8 DEF SalesInv, Kept, PromptClosuresRecorded
<1>11. ASSUME NEW r \in Runs PROVE RunGood(r)'
  BY <1>4, <1>5, <1>8 DEF SalesInv, RunGood, At, Closing
<1> QED BY <1>3, <1>6, <1>7, <1>9, <1>10, <1>11 DEF SalesInv

LEMMA CloseKeeps ==
  ASSUME SalesInv, NEW o \in Orders, CloseOrder(o)
  PROVE  SalesInv'
<1>1. /\ epicor'[o].state = "closed" /\ epicor'[o].date = epicor[o].date
      /\ epicor'[o].closedOn = today /\ epicor[o].state = "open"
      /\ \A p \in Orders : p # o => epicor'[p] = epicor[p]
  BY DEF SalesInv, TypeOK, CloseOrder, Order
<1>2. today \in Days /\ today \in Int /\ 0 <= today
  BY DaysAreIntegers DEF SalesInv, TypeOK
<1>3. TypeOK'
  BY <1>2 DEF SalesInv, TypeOK, CloseOrder, Order
<1>4. /\ InEpicor("closed")' = InEpicor("closed") \cup {o}
      /\ InEpicor("open")' \subseteq InEpicor("open") /\ o \in InEpicor("open")
      /\ \A p \in InEpicor("closed") : p # o /\ epicor'[p] = epicor[p]
      /\ \A p \in InEpicor("open")' : epicor'[p] = epicor[p]
  BY <1>1 DEF InEpicor
<1>5. UNCHANGED <<today, open, closed, last, imp, crossed, steady, promised>>
  BY DEF CloseOrder
<1>6. Apart'
  BY <1>4, <1>5 DEF SalesInv, Apart, NotTwice
<1>7. DatesGood'
  <2>1. epicor'[o].closedOn \in 0 .. today /\ epicor'[o].date <= epicor'[o].closedOn
    BY <1>1, <1>2, <1>4 DEF SalesInv, DatesGood
  <2> QED BY <2>1, <1>4, <1>5 DEF SalesInv, DatesGood
<1>8. \A p \in InEpicor("closed") :
        (Prompt(p)' <=> Prompt(p)) /\ \A r \in Runs : Secured(r, p)' <=> Secured(r, p)
  BY <1>4, <1>5 DEF Prompt, Secured, At
<1>9. Complete'
  <2>1. ~(epicor'[o].closedOn < last)
    BY <1>1, DatesTyped DEF SalesInv, DatesGood
  <2> QED BY <2>1, <1>4, <1>5, <1>8 DEF SalesInv, Complete, Scheduled
<1>10. Kept'
  BY <1>4, <1>5, <1>8 DEF SalesInv, Kept, PromptClosuresRecorded
<1>11. ASSUME NEW r \in Runs PROVE RunGood(r)'
  <2>1. Closing(r) => ~(epicor'[o].closedOn < imp[r].started)
    BY <1>1, DatesTyped DEF SalesInv, RunGood
  <2> QED BY <2>1, <1>4, <1>5, <1>8 DEF SalesInv, RunGood, At, Closing
<1> QED BY <1>3, <1>6, <1>7, <1>9, <1>10, <1>11 DEF SalesInv

LEMMA NextDayKeeps ==
  ASSUME SalesInv, NextDay
  PROVE  SalesInv'
<1>0. (steady' => steady) /\ steady' \in BOOLEAN
  BY Zenon DEF NextDay
<1>1. /\ today \in Int /\ today' = today + 1 /\ last \in Int /\ MaxTime \in Int
      /\ UNCHANGED <<epicor, open, closed, last, imp, crossed, promised>>
  BY DatesTyped, SalesAssumption DEF SalesInv, NextDay
<1>2. TypeOK'
  BY <1>0, <1>1 DEF NextDay, SalesInv, TypeOK
<1>3. InEpicor("closed")' = InEpicor("closed") /\ InEpicor("open")' = InEpicor("open")
  BY <1>1 DEF InEpicor
<1>4. Apart'
  BY <1>1, <1>3 DEF SalesInv, Apart, NotTwice
<1>5. DatesGood'
  BY <1>1, <1>3, DatesTyped DEF SalesInv, DatesGood, InEpicor
<1>6. \A p \in InEpicor("closed") :
        (Prompt(p)' <=> Prompt(p)) /\ \A r \in Runs : Secured(r, p)' <=> Secured(r, p)
  BY <1>1, <1>3 DEF Prompt, Secured, At
<1>7. steady' => Scheduled'
  <2>1. steady' => InTime
    BY DEF NextDay
  <2> QED BY <1>1, <2>1, SalesAssumption DEF InTime, Scheduled
<1>8. Complete'
  BY <1>0, <1>1, <1>3, <1>6, <1>7 DEF SalesInv, Complete
<1>9. Kept'
  BY <1>1, <1>3, <1>6 DEF SalesInv, Kept, PromptClosuresRecorded
<1>10. ASSUME NEW r \in Runs PROVE RunGood(r)'
  <2>1. imp[r].started \in 0 .. today => imp[r].started \in 0 .. today'
    BY <1>1
  <2> QED BY <1>0, <1>1, <1>3, <1>6, <2>1 DEF SalesInv, RunGood, At, Closing
<1> QED BY <1>2, <1>4, <1>5, <1>8, <1>9, <1>10 DEF SalesInv

LEMMA FetchOpenKeeps ==
  ASSUME SalesInv, NEW r \in Runs, FetchOpen(r)
  PROVE  SalesInv'
<1>1. /\ imp'[r].of = "sales_open" /\ imp'[r].pc = "commit"
      /\ imp'[r].records = InEpicor("open")
      /\ \A q \in Runs : q # r => imp'[q] = imp[q]
      /\ Importing /\ UNCHANGED <<open, closed, last, crossed, promised>>
  BY FetchOpenIs DEF SalesInv, TypeOK, FetchOpen, Importing
<1>2. InEpicor("open") \cap InEpicor("closed") = {}
  BY DEF InEpicor
<1>3. RunGood(r)'
  BY <1>1, <1>2 DEF SalesInv, Apart, RunGood, At, Closing
<1>4. \A q \in Runs : RunGood(q)'
  BY <1>1, <1>3, RunStays DEF SalesInv
<1> QED BY <1>1, <1>4, TableStays DEF SalesInv, Importing

LEMMA CommitOpenKeeps ==
  ASSUME SalesInv, NEW r \in Runs, CommitOpen(r)
  PROVE  SalesInv'
<1>1. /\ imp' \in [Runs -> Run] /\ imp'[r] = Idle
      /\ \A q \in Runs : q # r => imp'[q] = imp[q]
  BY IdleTyped, RunsApart DEF SalesInv, CommitOpen
<1>2. /\ open' = imp[r].records /\ At(r, "sales_open", "commit") /\ crossed' = imp[r].late
      /\ UNCHANGED <<today, epicor, closed, last, steady, promised>>
  BY DEF CommitOpen
<1>3. Importing
  <2>1. open' \subseteq Orders /\ crossed' \in BOOLEAN
    BY <1>2 DEF SalesInv, TypeOK, Run
  <2> QED BY <1>1, <1>2, <2>1 DEF SalesInv, TypeOK, CommitOpen, Importing
<1>4. \A q \in Runs : RunGood(q)'
  BY <1>1, <1>2, <1>3, RunStays, RunOver DEF SalesInv
<1>5. Apart'
  BY <1>2, <1>3, ImportingKeeps DEF SalesInv, Apart, NotTwice, RunGood
<1>6. DatesGood'
  BY <1>2, <1>3, ImportingKeeps DEF SalesInv, DatesGood
<1>7. Complete'
  BY <1>2, <1>3, ImportingKeeps DEF SalesInv, Complete, Scheduled, InEpicor
<1>8. Kept'
  BY <1>2, <1>3, ImportingKeeps DEF SalesInv, Kept, PromptClosuresRecorded, InEpicor
<1> QED BY <1>3, <1>4, <1>5, <1>6, <1>7, <1>8 DEF SalesInv, Importing

\* What the window of a run that starts does not cover is recorded.
LEMMA StartSecures ==
  ASSUME SalesInv, steady, NEW o \in InEpicor("closed"), Prompt(o)
  PROVE  o \in closed \/ epicor[o].date \in WindowFrom .. today
<1>1. /\ WindowFrom \in Int /\ Reaches(WindowFrom) /\ o \in Orders
      /\ today \in Int /\ last \in Int /\ Overlap \in Int
      /\ epicor[o].date \in Int /\ epicor[o].closedOn \in Int
  BY WindowReaches, DatesTyped, SalesAssumption DEF SalesInv, Complete, InEpicor
<1>2. epicor[o].closedOn <= today /\ epicor[o].date <= epicor[o].closedOn
  BY <1>1 DEF SalesInv, DatesGood
<1>3. 0 <= epicor[o].date /\ epicor[o].closedOn <= epicor[o].date + Overlap
  BY DEF Prompt
<1>4. CASE WindowFrom <= 0
  BY <1>1, <1>2, <1>3, <1>4
<1>5. CASE WindowFrom <= last - Overlap
  <2>1. CASE epicor[o].closedOn < last
    BY <2>1 DEF SalesInv, Complete
  <2>2. CASE ~(epicor[o].closedOn < last)
    BY <1>1, <1>2, <1>3, <1>5, <2>2
  <2> QED BY <2>1, <2>2
<1> QED BY <1>1, <1>4, <1>5 DEF Reaches

LEMMA StartClosedKeeps ==
  ASSUME SalesInv, NEW r \in Runs, StartClosed(r)
  PROVE  SalesInv'
<1>1. /\ imp'[r].of = "sales_closed" /\ imp'[r].pc = "fetch" /\ imp'[r].started = today
      /\ imp'[r].from = WindowFrom /\ imp'[r].to = today
      /\ steady => imp'[r].owes \subseteq InEpicor("closed")
      /\ ~steady => imp'[r].owes = {}
      /\ \A q \in Runs : q # r => imp'[q] = imp[q]
      /\ Importing /\ UNCHANGED <<open, closed, last, crossed, steady, promised>>
  BY StartClosedIs DEF SalesInv, TypeOK, StartClosed, Importing
<1>2. today \in 0 .. today
  BY DatesTyped DEF SalesInv, TypeOK
<1>3. steady => \A o \in InEpicor("closed") : Prompt(o) => Secured(r, o)'
  BY <1>1, StartSecures DEF Secured, Importing, At
<1>4. RunGood(r)'
  <2>1. steady \/ imp'[r].owes = {}
    BY <1>1
  <2>2. \A o \in imp'[r].owes : Prompt(o)' => Secured(r, o)'
    BY <1>1, <1>3, <2>1, ImportingKeeps DEF InEpicor
  <2>3. steady' => \A o \in InEpicor("closed")' : Prompt(o)' => Secured(r, o)'
    BY <1>1, <1>3, ImportingKeeps DEF InEpicor
  <2>4. imp'[r].started \in 0 .. today' /\ imp'[r].owes \subseteq InEpicor("closed")'
    BY <1>1, <1>2, <2>1, ImportingKeeps DEF Importing
  <2> QED BY <1>1, <2>2, <2>3, <2>4 DEF RunGood, At
<1>5. \A q \in Runs : RunGood(q)'
  BY <1>1, <1>4, RunStays DEF SalesInv
<1> QED BY <1>1, <1>5, TableStays DEF SalesInv, Importing

LEMMA StartClosedForKeeps ==
  ASSUME SalesInv, NEW r \in Runs, NEW from \in ByHand, NEW to \in ByHand,
         StartClosedFor(r, from, to)
  PROVE  SalesInv'
<1>1. /\ imp'[r].of = "sales_closed" /\ imp'[r].pc = "fetch" /\ imp'[r].started = today
      /\ imp'[r].owes = {} /\ ~steady'
      /\ \A q \in Runs : q # r => imp'[q] = imp[q]
      /\ Importing /\ UNCHANGED <<open, closed, last, crossed, promised>>
  BY StartClosedForIs DEF SalesInv, TypeOK, StartClosedFor, Importing
<1>2. today \in 0 .. today
  BY DatesTyped DEF SalesInv, TypeOK
<1>3. RunGood(r)'
  BY <1>1, <1>2 DEF RunGood, At, Importing
<1>4. \A q \in Runs : RunGood(q)'
  BY <1>1, <1>3, RunStays DEF SalesInv
<1> QED BY <1>1, <1>4, TableStays DEF SalesInv, Importing

LEMMA FetchClosedKeeps ==
  ASSUME SalesInv, NEW r \in Runs, FetchClosed(r)
  PROVE  SalesInv'
<1>1. /\ imp'[r].of = "sales_closed" /\ imp'[r].pc = "commit"
      /\ imp'[r].records = {o \in InEpicor("closed") :
                              epicor[o].date \in imp[r].from .. imp[r].to}
      /\ imp'[r].started = imp[r].started /\ imp'[r].owes = imp[r].owes
      /\ \A q \in Runs : q # r => imp'[q] = imp[q]
      /\ At(r, "sales_closed", "fetch")
      /\ Importing /\ UNCHANGED <<open, closed, last, crossed, steady, promised>>
  BY FetchClosedIs DEF SalesInv, TypeOK, FetchClosed, Importing
<1>2. \A o \in InEpicor("closed") : Secured(r, o) => Secured(r, o)'
  BY <1>1 DEF Secured, At
<1>3. RunGood(r)'
  <2>1. RunGood(r) /\ Closing(r)
    BY <1>1 DEF SalesInv, At, Closing
  <2>2. imp'[r].records \subseteq InEpicor("closed")'
    BY <1>1, ImportingKeeps
  <2>3. \A o \in imp'[r].owes : Prompt(o)' => Secured(r, o)'
    BY <1>1, <1>2, <2>1, ImportingKeeps DEF RunGood, InEpicor
  <2>4. steady' => \A o \in InEpicor("closed")' :
          Prompt(o)' /\ epicor'[o].closedOn < imp'[r].started => Secured(r, o)'
    BY <1>1, <1>2, <2>1, ImportingKeeps DEF RunGood, InEpicor, Importing
  <2>5. imp'[r].started \in 0 .. today' /\ imp'[r].owes \subseteq InEpicor("closed")'
    BY <1>1, <2>1, ImportingKeeps DEF RunGood, Importing
  <2> QED BY <1>1, <2>2, <2>3, <2>4, <2>5 DEF RunGood, At
<1>4. \A q \in Runs : RunGood(q)'
  BY <1>1, <1>3, RunStays DEF SalesInv
<1> QED BY <1>1, <1>4, TableStays DEF SalesInv, Importing

LEMMA CommitClosedKeeps ==
  ASSUME SalesInv, NEW r \in Runs, CommitClosed(r)
  PROVE  SalesInv'
<1> DEFINE x == imp[r]
<1>1. /\ At(r, "sales_closed", "commit")
      /\ open' = open \ x.records /\ closed' = closed \cup x.records
      /\ last' = Later(last, x.started) /\ promised' = promised \cup x.owes
      /\ imp' = AfterClosed(r)
      /\ UNCHANGED <<today, epicor, crossed, steady>>
  BY DEF CommitClosed
<1>2. /\ x \in Run /\ RunGood(r) /\ Closing(r)
      /\ x.started \in 0 .. today /\ today \in Int /\ last \in Int
  BY <1>1, DatesTyped DEF SalesInv, TypeOK, RunGood, At, Closing
<1>3. last' \in Days /\ last' <= today /\ last' \in Int
      /\ (last' = last \/ last' = x.started) /\ last <= last' /\ x.started <= last'
  BY <1>1, <1>2, DatesTyped DEF SalesInv, DatesGood, Later, Run
<1>4. Importing
  BY <1>1, <1>2, <1>3, AfterClosedIs DEF SalesInv, TypeOK, CommitClosed, Importing, Run
<1>5. ASSUME NEW q \in Runs, q # r PROVE RunGood(q)'
  <2>1. /\ imp'[q].of = imp[q].of /\ imp'[q].pc = imp[q].pc
        /\ imp'[q].started = imp[q].started
        /\ imp'[q].from = imp[q].from /\ imp'[q].to = imp[q].to
        /\ imp'[q].records = imp[q].records /\ imp'[q].owes = imp[q].owes
        /\ At(q, "sales_open", "commit") => imp'[q].late
    BY <1>1, <1>5, AfterClosedIs DEF SalesInv
  <2>2. /\ At(q, "sales_open", "commit")' <=> At(q, "sales_open", "commit")
        /\ At(q, "sales_closed", "commit")' <=> At(q, "sales_closed", "commit")
        /\ At(q, "sales_closed", "fetch")' <=> At(q, "sales_closed", "fetch")
        /\ Closing(q)' <=> Closing(q)
    BY <2>1 DEF At, Closing
  <2>3. \A o \in Orders : Secured(q, o) => Secured(q, o)'
    BY <1>4, <2>1, <2>2 DEF Secured, Importing
  <2>4. RunGood(q) /\ \A o \in InEpicor("closed") : o \in Orders
    BY DEF SalesInv, InEpicor
  <2> QED BY <1>4, <2>1, <2>2, <2>3, <2>4, ImportingKeeps DEF Importing, RunGood
<1>6. \A q \in Runs : RunGood(q)'
  <2>1. RunGood(r)'
    BY <1>1, AfterClosedIs, RunOver DEF SalesInv
  <2> QED BY <1>5, <2>1
<1>7. Apart'
  BY <1>1, <1>2, <1>4, ImportingKeeps DEF SalesInv, Apart, NotTwice, RunGood
<1>8. DatesGood'
  BY <1>1, <1>3, <1>4, ImportingKeeps DEF SalesInv, DatesGood
<1>9. \A o \in Orders : Secured(r, o) => o \in closed'
  BY <1>1 DEF Secured, At
<1>10. Scheduled => Scheduled'
  <2>1. last' # Never
    BY <1>2, <1>3, DaysAreIntegers
  <2> QED BY <1>1, <1>2, <1>3, <2>1, SalesAssumption DEF Scheduled
<1>11. Complete'
  <2>1. ASSUME steady, NEW o \in InEpicor("closed"), Prompt(o), epicor[o].closedOn < last'
        PROVE  o \in closed'
    <3>1. CASE epicor[o].closedOn < last
      BY <1>1, <2>1, <3>1 DEF SalesInv, Complete
    <3>2. CASE epicor[o].closedOn < x.started
      BY <1>2, <1>9, <2>1, <3>2 DEF RunGood, InEpicor
    <3> QED BY <1>3, <2>1, <3>1, <3>2
  <2> QED BY <1>1, <1>4, <1>10, <2>1, ImportingKeeps DEF SalesInv, Complete, InEpicor
<1>12. Kept'
  <2>1. x.owes \subseteq InEpicor("closed") /\ \A o \in x.owes : Prompt(o) => o \in closed'
    BY <1>2, <1>9 DEF RunGood, InEpicor
  <2> QED BY <1>1, <1>4, <2>1, ImportingKeeps
          DEF SalesInv, Kept, PromptClosuresRecorded, InEpicor
<1> QED BY <1>4, <1>6, <1>7, <1>8, <1>11, <1>12 DEF SalesInv, Importing

LEMMA FailKeeps ==
  ASSUME SalesInv, NEW r \in Runs, Fail(r)
  PROVE  SalesInv'
<1>1. /\ imp' \in [Runs -> Run] /\ imp'[r] = Idle
      /\ \A q \in Runs : q # r => imp'[q] = imp[q]
  BY IdleTyped, RunsApart DEF SalesInv, Fail
<1>2. Importing /\ UNCHANGED <<open, closed, last, crossed, promised>>
  BY <1>1 DEF SalesInv, TypeOK, Fail, Importing
<1>3. \A q \in Runs : RunGood(q)'
  BY <1>1, <1>2, RunStays, RunOver DEF SalesInv
<1> QED BY <1>2, <1>3, TableStays DEF SalesInv, Importing

-----------------------------------------------------------------------------
(***************************************************************************)
(* The specification.                                                      *)
(***************************************************************************)
LEMMA InitHolds == ASSUME Init PROVE SalesInv
<1>1. TypeOK
  <2>1. epicor \in [Orders -> Order]
    BY DaysAreIntegers DEF Init, Order
  <2>2. today \in 0 .. MaxTime /\ last \in Days
    BY DaysAreIntegers, SalesAssumption DEF Init
  <2>3. imp \in [Runs -> Run]
    BY IdleTyped DEF Init
  <2>4. crossed \in BOOLEAN /\ steady \in BOOLEAN
    BY Zenon DEF Init
  <2> QED BY <2>1, <2>2, <2>3, <2>4 DEF Init, TypeOK
<1>2. InEpicor("closed") = {} /\ InEpicor("open") = {}
  BY DEF Init, InEpicor
<1>3. last <= today /\ Scheduled
  BY DaysAreIntegers, SalesAssumption DEF Init, Scheduled
<1>4. \A r \in Runs : RunGood(r)
  BY IdleTyped DEF Init, RunGood, At, Closing
<1> QED BY <1>1, <1>2, <1>3, <1>4
        DEF Init, SalesInv, Apart, NotTwice, DatesGood, Complete, Kept, PromptClosuresRecorded

LEMMA StepKeeps == ASSUME SalesInv, [Next]_vars PROVE SalesInv'
<1>1. CASE UNCHANGED vars
  BY <1>1 DEF vars, SalesInv, TypeOK, Apart, NotTwice, DatesGood, Complete, Kept, RunGood,
     Secured, Closing, At, Prompt, Scheduled, InEpicor, PromptClosuresRecorded
<1>2. CASE Outside
  BY <1>2, NextDayKeeps, PlaceKeeps, CloseKeeps DEF Outside
<1>3. ASSUME NEW r \in Runs, Importer(r) PROVE SalesInv'
  BY <1>3, FetchOpenKeeps, CommitOpenKeeps, StartClosedKeeps, StartClosedForKeeps,
     FetchClosedKeeps, CommitClosedKeeps, FailKeeps DEF Importer
<1> QED BY <1>1, <1>2, <1>3 DEF Next

(***************************************************************************)
(* However many runs of the two importers overlap, by hand or not, an      *)
(* order is in the table as open and as closed only while its open rows    *)
(* come from a run of sales_open that a run of sales_closed overtook; the  *)
(* next run of sales_open that is not overtaken removes them.              *)
(***************************************************************************)
THEOREM TwiceOnlyByCrossing == Spec => []NotTwice
<1>1. SalesInv => NotTwice
  BY DEF SalesInv, Apart
<1> QED BY <1>1, InitHolds, StepKeeps, PTL DEF Spec

(***************************************************************************)
(* An order of this year that closes within the overlap of its date is     *)
(* recorded by the next automatic run of sales_closed that succeeds, as    *)
(* long as the schedule is kept, whatever runs beside it, for any overlap  *)
(* and lookback.                                                           *)
(***************************************************************************)
THEOREM ClosuresRecorded == Spec => []PromptClosuresRecorded
<1>1. SalesInv => PromptClosuresRecorded
  BY DEF SalesInv, Kept
<1> QED BY <1>1, InitHolds, StepKeeps, PTL DEF Spec
=============================================================================
