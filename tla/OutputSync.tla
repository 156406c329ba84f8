----------------------------- MODULE OutputSync -----------------------------
(***************************************************************************)
(* The production output importer (ProductionOutputImporter in             *)
(* app/core/epicor_importers.py, with _fetch_records of epicor_sync.py):   *)
(* each run asks for the days after the newest one in the table, at most   *)
(* MaxDays of them, fetches them in chunks of Chunk days, and replaces the *)
(* rows of those days.  The run life cycle around it is module BaqImport's.*)
(*                                                                         *)
(* Day 0 is HISTORY_START.  Output is recorded in Epicor on its own day    *)
(* and only counted here.                                                  *)
(***************************************************************************)
EXTENDS Integers

CONSTANTS
  MaxDays,     \* MAX_DAYS_PER_RUN
  Chunk,       \* CHUNK_DAYS
  Backlog,     \* the day the importer is first used
  MaxTime,     \* bound on the clock
  MaxOutput,   \* bound on the output of a day
  MaxFaults    \* bound on the runs that fail

ASSUME OutputAssumption ==
  /\ MaxDays \in Nat \ {0} /\ Chunk \in Nat \ {0}
  /\ Backlog \in Nat /\ MaxTime \in Nat /\ Backlog <= MaxTime
  /\ MaxOutput \in Nat /\ MaxFaults \in Nat

VARIABLES
  today,
  epicor,   \* output recorded for each day
  table,    \* output the production_output table holds for each day
  run,      \* the run in progress
  faults

vars == <<today, epicor, table, run, faults>>

-----------------------------------------------------------------------------
Days  == 0 .. MaxTime
Count == [Days -> 0 .. MaxOutput]

\* next is the first day of the next chunk, got the output fetched so far.
Run == [pc : {"idle", "fetch"}, from : Int, to : Int, next : Int, got : Count]

Empty == [d \in Days |-> 0]

Idle == [pc |-> "idle", from |-> 0, to |-> 0, next |-> 0, got |-> Empty]

Earlier(a, b) == IF a <= b THEN a ELSE b

\* The newest clock_in_date in the table.
Stored == {d \in Days : table[d] > 0}
NewestDay == CHOOSE d \in Stored : \A e \in Stored : e <= d

\* Mutant: the day after the newest one is left out.
WindowFromLate == IF Stored = {} THEN 0 ELSE Earlier(NewestDay + 2, today)

\* get_dynamic_params: today again when there is nothing newer.
WindowFrom == IF Stored = {} THEN 0 ELSE Earlier(NewestDay + 1, today)

\* Mutant: the cap is a day short.
WindowToShort == Earlier(today, WindowFrom + MaxDays - 2)

WindowTo == Earlier(today, WindowFrom + MaxDays - 1)

Init == /\ today = Backlog
        /\ epicor \in {c \in Count : \A d \in Days : d > Backlog => c[d] = 0}
        /\ table = Empty
        /\ run = Idle
        /\ faults = 0

-----------------------------------------------------------------------------
Record == /\ epicor[today] < MaxOutput
          /\ epicor' = [epicor EXCEPT ![today] = @ + 1]
          /\ UNCHANGED <<today, table, run, faults>>

NextDay == /\ today < MaxTime
           /\ today' = today + 1
           /\ UNCHANGED <<epicor, table, run, faults>>

Begin(from, to) ==
  /\ run.pc = "idle"
  /\ run' = [Idle EXCEPT !.pc = "fetch", !.from = from, !.to = to, !.next = from]
  /\ UNCHANGED <<today, epicor, table, faults>>

\* A run without parameters, and one with DateFrom and DateTo given.
Start            == Begin(WindowFrom, WindowTo)
StartFor(from, to) == Begin(from, to)

ChunkEnd == Earlier(run.next + Chunk - 1, run.to)

\* One chunk of _fetch_records.
FetchChunk ==
  /\ run.pc = "fetch" /\ run.next <= run.to
  /\ run' = [run EXCEPT
               !.next = ChunkEnd + 1,
               !.got = [d \in Days |-> IF d \in run.next .. ChunkEnd
                                         THEN epicor[d] ELSE @[d]]]
  /\ UNCHANGED <<today, epicor, table, faults>>

\* _sync_records deletes the whole range asked for and inserts; the commit.
Save ==
  /\ run.pc = "fetch" /\ run.next > run.to
  /\ table' = [d \in Days |-> IF d \in run.from .. run.to THEN run.got[d] ELSE table[d]]
  /\ run' = Idle
  /\ UNCHANGED <<today, epicor, faults>>

Fail == /\ run.pc = "fetch"
        /\ faults < MaxFaults
        /\ faults' = faults + 1
        /\ run' = Idle
        /\ UNCHANGED <<today, epicor, table>>

-----------------------------------------------------------------------------
Next == \/ Record \/ NextDay
        \/ Start \/ FetchChunk \/ Save \/ Fail
        \/ \E from, to \in Days : from <= to /\ to <= today /\ StartFor(from, to)

Spec == Init /\ [][Next]_vars

(***************************************************************************)
(* The circumstances the incremental window is made for: no manual range,  *)
(* never MaxDays days in a row without output, and every day's output is   *)
(* imported before midnight or not yet imported at all.                    *)
(***************************************************************************)
NoGap == \A d \in Days : d + MaxDays - 1 <= today =>
           \E e \in d .. (d + MaxDays - 1) : epicor[e] > 0

DayDone == run.pc = "idle" /\ table[today] \in {0, epicor[today]}

SteadyNext == \/ Record
              \/ NoGap /\ DayDone /\ NextDay
              \/ Start \/ FetchChunk \/ Save \/ Fail

SteadyInit == Init /\ NoGap

\* The scheduler keeps starting the importer, and a run ends.
SteadySpec == /\ SteadyInit /\ [][SteadyNext]_vars
              /\ WF_vars(Start) /\ WF_vars(FetchChunk) /\ WF_vars(Save)

\* The same with days off of any length.
IdleSpec == Init /\ [][Record \/ NextDay \/ Start \/ FetchChunk \/ Save \/ Fail]_vars

-----------------------------------------------------------------------------
(***************************************************************************)
(* Types.                                                                  *)
(***************************************************************************)
TypeOK == /\ today \in Days
          /\ epicor \in Count /\ table \in Count
          /\ run \in Run
          /\ faults \in 0 .. MaxFaults

(***************************************************************************)
(* The days behind the newest one in the table, which no later run will    *)
(* ask for again, are complete (get_dynamic_params: "fetch only dates not  *)
(* yet in the database").                                                  *)
(***************************************************************************)
BehindIsComplete ==
  Stored # {} => \A d \in Days : d < NewestDay \/ (d = NewestDay /\ d < today) => table[d] = epicor[d]

(***************************************************************************)
(* A run that did not reach today moves the window: "each run advances the *)
(* window forward by up to MAX_DAYS_PER_RUN days" (get_dynamic_params).    *)
(***************************************************************************)
EachRunAdvances ==
  [][Save /\ run.to < today => WindowFrom' > run.from]_vars

(***************************************************************************)
(* The backlog is worked off: again and again the table has all output of  *)
(* the days before today.                                                  *)
(***************************************************************************)
CatchesUp == []<>(\A d \in Days : d < today => table[d] = epicor[d])
=============================================================================
