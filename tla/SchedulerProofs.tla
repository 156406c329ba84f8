-------------------------- MODULE SchedulerProofs --------------------------
(***************************************************************************)
(* Theorems about the scheduler: its types, for the whole system, and, in  *)
(* the circumstances TickerSpec states, the one owner per job and the      *)
(* lease it implements.                                                    *)
(***************************************************************************)
EXTENDS SchedulerProperties, TLAPS

-----------------------------------------------------------------------------
(***************************************************************************)
(* Types.                                                                  *)
(***************************************************************************)

\* The reset UPDATE yields rows, whatever it matches.
LEMMA ResetRowsType ==
  ASSUME row \in [Jobs -> Row], NEW t \in Nat, NEW force \in BOOLEAN
  PROVE  ResetRows(t, force) \in [Jobs -> Row]
BY DEF ResetRows, Row, Timestamp, Statuses

\* A time, and a time plus an interval, is a timestamp.
LEMMA Later ==
  ASSUME NEW t \in Nat, NEW i \in Intervals
  PROVE  t \in Timestamp /\ t + i \in Timestamp
BY SchedulerAssumption DEF Timestamp

\* A row that is finished is a row.
LEMMA FinishedType ==
  ASSUME NEW old \in Row, NEW t \in Nat, NEW s \in Statuses
  PROVE  [old EXCEPT !.running = FALSE, !.lastRun = t, !.status = s] \in Row
<1>1. t \in Timestamp
  BY DEF Timestamp
<1> QED BY <1>1 DEF Row

\* Whatever the tickers, threads, routes and failures do, every column and
\* every local keeps its type.
LEMMA TypeStep == TypeOK /\ [Next]_vars => TypeOK'
<1> SUFFICES ASSUME TypeOK, [Next]_vars PROVE TypeOK'
  OBVIOUS
<1> USE DEF TypeOK, Busy
<1>1. ASSUME NEW w \in Workers, TickStep(w) PROVE TypeOK'
  <2>1. CASE TickBegin(w)    BY <2>1 DEF TickBegin, Ticker
  <2>2. CASE Watchdog(w)
    <3>1. tick[w].at \in Nat BY DEF Ticker
    <3>2. row' \in [Jobs -> Row] BY <2>2, <3>1, ResetRowsType DEF Watchdog
    <3>3. tick' \in [Workers -> Ticker] BY <2>2 DEF Watchdog, Ticker
    <3> QED BY <2>2, <3>2, <3>3 DEF Watchdog
  <2>3. CASE SelectDue(w)    BY <2>3 DEF SelectDue, Ticker
  <2>4. CASE ClaimRowGone(w) BY <2>4 DEF ClaimRowGone, IdleTicker, Ticker
  <2>5. ASSUME NEW j \in Jobs, ClaimWon(w, j) PROVE TypeOK'
    <3>1. tick[w].at \in Nat BY DEF Ticker
    <3>2. ClaimedRow(j, tick[w].at) \in Row
      <4>1. row[j].interval \in Intervals BY DEF Row
      <4>2. tick[w].at \in Timestamp /\ tick[w].at + row[j].interval \in Timestamp
        BY <3>1, <4>1, Later
      <4> QED BY <4>2 DEF ClaimedRow, Row
    <3>3. row' \in [Jobs -> Row] BY <2>5, <3>2 DEF ClaimWon
    <3>4. tick' \in [Workers -> Ticker] BY <2>5, ZenonT(60) DEF ClaimWon, Ticker
    <3> QED BY <2>5, <3>3, <3>4 DEF ClaimWon
  <2>6. ASSUME NEW j \in Jobs, ClaimLost(w, j) PROVE TypeOK'
    BY <2>6 DEF ClaimLost, Ticker
  <2>7. CASE ClaimsDone(w)   BY <2>7 DEF ClaimsDone, Ticker
  <2>8. ASSUME NEW j \in Jobs, NEW r \in Runs, Spawn(w, j, r) PROVE TypeOK'
    <3>1. NewThread(w, j) \in Thread BY DEF NewThread, Thread
    <3>2. run' = [run EXCEPT ![r] = NewThread(w, j)] BY <2>8 DEF Spawn
    <3>3. tick' \in [Workers -> Ticker] BY <2>8 DEF Spawn, Ticker
    <3>4. NewThread(w, j).job \in Jobs /\ NewThread(w, j).worker \in Workers
      BY DEF NewThread
    <3> QED BY <2>8, <3>1, <3>2, <3>3, <3>4 DEF Spawn
  <2>9. CASE TickEnd(w)      BY <2>9 DEF TickEnd, IdleTicker, Ticker
  <2> QED BY <1>1, <2>1, <2>2, <2>3, <2>4, <2>5, <2>6, <2>7, <2>8, <2>9 DEF TickStep
<1>2. ASSUME NEW w \in Workers, TickFault(w) PROVE TypeOK'
  <2>1. faults' \in Nat BY <1>2 DEF TickFault, WatchdogFails, TickAborts, ClaimFails, Fault
  <2>2. tick' \in [Workers -> Ticker]
    BY <1>2 DEF TickFault, WatchdogFails, TickAborts, ClaimFails, IdleTicker, Ticker
  <2> QED BY <1>2, <2>1, <2>2 DEF TickFault, WatchdogFails, TickAborts, ClaimFails
<1>3. ASSUME NEW w \in Workers, Crash(w) PROVE TypeOK'
  <2>1. tick' \in [Workers -> Ticker] BY <1>3 DEF Crash, IdleTicker, Ticker
  <2>2. FreeThread \in Thread /\ FreeThread.pc = "free" BY DEF FreeThread, Thread
  <2>3. ASSUME NEW i \in Intervals
        PROVE  FreeRequest(i) \in Request /\ FreeRequest(i).pc = "free"
    BY <2>3 DEF FreeRequest, Request
  <2>4. \A q \in Requests : req[q].interval \in Intervals BY DEF Request
  <2> QED BY <1>3, <2>1, <2>2, <2>3, <2>4 DEF Crash
<1>4. ASSUME NEW w \in Workers, BootReset(w) PROVE TypeOK'
  <2>1. row' \in [Jobs -> Row] BY <1>4, ResetRowsType DEF BootReset
  <2>2. tick' \in [Workers -> Ticker] BY <1>4 DEF BootReset, IdleTicker, Ticker
  <2> QED BY <1>4, <2>1, <2>2 DEF BootReset
<1>5. ASSUME NEW w \in Workers, BootResetFails(w) PROVE TypeOK'
  BY <1>5 DEF BootResetFails, IdleTicker, Fault, Ticker
<1>6. ASSUME NEW r \in Runs, RunStep(r) PROVE TypeOK'
  <2>f. FreeThread \in Thread /\ FreeThread.pc = "free" BY DEF FreeThread, Thread
  <2>s. ASSUME NEW j \in Jobs, NEW s \in Statuses PROVE FinishedRow(j, s) \in Row
    <3>1. row[j] \in Row /\ now \in Nat
      OBVIOUS
    <3> QED BY <2>s, <3>1, FinishedType DEF FinishedRow
  <2>1. CASE RunStart(r)
    <3>1. CASE Present(run[r].job)
      <4>1. items[run[r].job] \subseteq Items BY <2>1 DEF RunStart
      <4>2. [run[r] EXCEPT !.pc = "first", !.todo = items[run[r].job]] \in Thread
        BY <4>1 DEF Thread
      <4>3. run' \in [Runs -> Thread] BY <2>1, <3>1, <4>2 DEF RunStart
      <4> QED BY <2>1, <3>1, <4>3 DEF RunStart, Thread
    <3>2. CASE ~Present(run[r].job) BY <2>1, <2>f, <3>2 DEF RunStart
    <3> QED BY <3>1, <3>2
  <2>2. CASE RunFinish(r)
    <3>1. FinalStatus(run[r].outcomes) \in Statuses BY DEF FinalStatus, Statuses
    <3> QED BY <2>2, <2>f, <2>s, <3>1 DEF RunFinish
  <2>3. CASE RunRaises(r)
    BY <2>3, <2>f, <2>s DEF RunRaises, Statuses
  <2>4. ASSUME NEW i \in Items, RunItem(r, i) PROVE TypeOK'
    <3>1. run' \in [Runs -> Thread] BY <2>4 DEF RunItem, Thread
    <3> QED BY <2>4, <3>1 DEF RunItem, Thread
  <2> QED BY <1>6, <2>1, <2>2, <2>3, <2>4 DEF RunStep
<1>7. ASSUME NEW r \in Runs, RunResultLost(r) PROVE TypeOK'
  BY <1>7 DEF RunResultLost, FreeThread, Thread, Fault
<1>8. ASSUME Admin PROVE TypeOK'
  <2>1. row' \in [Jobs -> Row]
    <3>1. now \in Timestamp /\ Null \in Timestamp BY DEF Timestamp
    <3>2. ASSUME NEW i \in Intervals PROVE NewRow(i) \in Row
      BY <3>1 DEF NewRow, Row, Statuses
    <3>3. ASSUME NEW j \in Jobs, NEW i \in Intervals, JobCreate(j, i)
          PROVE  row' \in [Jobs -> Row]
      BY <3>2, <3>3 DEF JobCreate
    <3>4. ASSUME NEW j \in Jobs, NEW i \in Intervals, SetInterval(j, i)
          PROVE  row' \in [Jobs -> Row]
      <4>1. now + i \in Timestamp BY Later
      <4> QED BY <3>4, <4>1, ZenonT(60) DEF SetInterval, Row
    <3>5. ASSUME NEW j \in Jobs, NEW b \in BOOLEAN, SetEnabled(j, b)
          PROVE  row' \in [Jobs -> Row]
      BY <3>1, <3>5, ZenonT(60) DEF SetEnabled, Row
    <3>6. ASSUME NEW j \in Jobs, NEW s \in {"success", "failed", "partial"},
                 RecordLiveRun(j, s)
          PROVE  row' \in [Jobs -> Row]
      <4>1. row[j].interval \in Intervals BY DEF Row
      <4>2. now + row[j].interval \in Timestamp BY <4>1, Later
      <4>3. s \in Statuses BY DEF Statuses
      <4> DEFINE next == IF row[j].enabled THEN now + row[j].interval ELSE row[j].nextRun
                 rec  == [row[j] EXCEPT !.status = s, !.lastRun = now, !.nextRun = next]
      <4>4. next \in Timestamp BY <4>2 DEF Row
      <4>5. rec \in Row BY <3>1, <4>3, <4>4, ZenonT(60) DEF Row
      <4>6. row' = [row EXCEPT ![j] = rec] BY <3>6 DEF RecordLiveRun
      <4> QED BY <4>5, <4>6
    <3>7. ASSUME NEW j \in Jobs, JobDelete(j) PROVE row' \in [Jobs -> Row]
      <4>1. row[j].interval \in Intervals BY DEF Row
      <4>2. [NewRow(row[j].interval) EXCEPT !.state = "deleted"] \in Row
        BY <3>2, <4>1 DEF Row
      <4> QED BY <3>7, <4>2 DEF JobDelete
    <3>8. ASSUME NEW j \in Jobs, NEW i \in Items, ItemDelete(j, i)
          PROVE  row' \in [Jobs -> Row]
      BY <3>8 DEF ItemDelete
    <3> QED BY <1>8, <3>3, <3>4, <3>5, <3>6, <3>7, <3>8 DEF Admin
  <2>2. items' \in [Jobs -> SUBSET Items]
    BY <1>8 DEF Admin, JobCreate, SetEnabled, SetInterval, RecordLiveRun, JobDelete,
       ItemDelete
  <2> QED BY <1>8, <2>1, <2>2 DEF Admin, JobCreate, SetEnabled, SetInterval,
       RecordLiveRun, JobDelete, ItemDelete
<1>9. ASSUME NEW q \in Requests, RunNow(q) PROVE TypeOK'
  <2>1. ASSUME NEW w \in Workers, NEW j \in Jobs, RunNowCheck(q, w, j) PROVE TypeOK'
    <3>1. row[j].enabled \in BOOLEAN /\ row[j].interval \in Intervals BY DEF Row
    <3> QED BY <2>1, <3>1 DEF RunNowCheck, Request
  <2>2. ASSUME NEW r \in Runs, RunNowCommit(q, r) PROVE TypeOK'
    <3> DEFINE j == req[q].job
    <3>1. j \in Jobs /\ req[q].worker \in Workers BY <2>2 DEF RunNowCommit
    <3>2. row' \in [Jobs -> Row]
      <4>1. req[q].interval \in Intervals BY DEF Request
      <4>2. now + req[q].interval \in Timestamp BY <4>1, Later
      <4> QED BY <2>2, <3>1, <4>2, ZenonT(60) DEF RunNowCommit, Row
    <3>3. NewThread(req[q].worker, j) \in Thread
      BY <3>1 DEF NewThread, Thread
    <3>4. FreeRequest(req[q].interval) \in Request
      BY DEF FreeRequest, Request
    <3> QED BY <2>2, <3>1, <3>2, <3>3, <3>4 DEF RunNowCommit, NewThread, FreeRequest
  <2>3. CASE RunNowFails(q) BY <2>3 DEF RunNowFails, FreeRequest, Request, Fault
  <2> QED BY <1>9, <2>1, <2>2, <2>3 DEF RunNow
<1>10. CASE Clock BY <1>10 DEF Clock
<1>11. CASE UNCHANGED vars BY <1>11 DEF vars
<1> HIDE DEF TypeOK, Busy
<1> QED BY <1>1, <1>2, <1>3, <1>4, <1>5, <1>6, <1>7, <1>8, <1>9, <1>10, <1>11
        DEF Next, Core

LEMMA TypeInit == Init => TypeOK
<1> SUFFICES ASSUME Init PROVE TypeOK
  OBVIOUS
<1>1. PICK i \in Intervals :
        /\ row = [j \in Jobs |-> [NewRow(i) EXCEPT !.state = "unborn"]]
        /\ req = [q \in Requests |-> FreeRequest(i)]
  BY DEF Init
<1>2. row \in [Jobs -> Row] BY <1>1 DEF NewRow, Row, Timestamp, Statuses
<1>3. req \in [Requests -> Request] BY <1>1 DEF FreeRequest, Request
<1>4. tick \in [Workers -> Ticker] BY DEF Init, IdleTicker, Ticker
<1>5. run \in [Runs -> Thread] BY DEF Init, FreeThread, Thread
<1>6. \A r \in Runs : ~Busy(r) BY DEF Init, FreeThread, Busy
<1>7. \A q \in Requests : req[q].pc = "free" BY <1>1 DEF FreeRequest
<1>8. now \in Nat /\ faults \in Nat /\ crashes \in Nat /\ items \in [Jobs -> SUBSET Items]
  BY DEF Init
<1> QED BY <1>2, <1>3, <1>4, <1>5, <1>6, <1>7, <1>8 DEF TypeOK

\* Type correctness of the whole system: tickers, threads, routes, crashes.
THEOREM TypeCorrect == Spec => []TypeOK
BY TypeInit, TypeStep, PTL DEF Spec

-----------------------------------------------------------------------------
(***************************************************************************)
(* One owner per job.                                                      *)
(***************************************************************************)

\* The restricted environment only removes behaviours.
LEMMA TickerIsNext == [TickerNext]_vars => [Next]_vars
BY DEF TickerNext, Next

\* What a row must look like while its job is owned.
Leased(j) == Owned(j) => /\ row[j].state # "unborn"
                         /\ Present(j) => /\ row[j].running
                                          /\ row[j].lastRun # Null
                                          /\ row[j].lastRun + StaleAfter > now

LEMMA OneOwnerParts ==
  OneOwner <=> SingleExecution /\ TicksAreFresh /\ \A j \in Jobs : Leased(j)
BY DEF OneOwner, OwnedMeansRunning, OwnedIsFresh, OwnedWasCreated, Leased

\* A step in which nobody becomes an owner preserves single execution.
LEMMA NoNewOwner ==
  ASSUME SingleExecution,
         \A j \in Jobs : Executing(j)' \subseteq Executing(j),
         \A j \in Jobs : Claimants(j)' \subseteq Claimants(j)
  PROVE  SingleExecution' /\ \A j \in Jobs : Owned(j)' => Owned(j)
BY DEF SingleExecution, Owned

\* A reset driven by a tick leaves every leased row as it is.
LEMMA ResetSparesLeased ==
  ASSUME TypeOK, NEW t \in Nat, t <= now, NEW j \in Jobs, Leased(j), Owned(j), Present(j)
  PROVE  ResetRows(t, FALSE)[j] = row[j]
<1>1. row[j].lastRun \in Nat BY DEF Leased, TypeOK, Row, Timestamp
<1>2. ~Stale(j, t) BY <1>1, SchedulerAssumption DEF Leased, Stale, TypeOK
<1> QED BY <1>2 DEF ResetRows, Resettable

\* The same for a step that touches neither the rows nor the clock.
LEMMA SameRows ==
  ASSUME \A j \in Jobs : Leased(j), UNCHANGED <<row, now>>,
         \A j \in Jobs : Owned(j)' => Owned(j)
  PROVE  \A j \in Jobs : Leased(j)'
BY DEF Leased, Present

LEMMA OwnerStep == TypeOK /\ TypeOK' /\ OneOwner /\ [TickerNext]_vars => OneOwner'
<1> SUFFICES ASSUME TypeOK, TypeOK', OneOwner, [TickerNext]_vars PROVE OneOwner'
  OBVIOUS
<1>a. SingleExecution /\ TicksAreFresh /\ \A j \in Jobs : Leased(j) BY OneOwnerParts
<1>b. SUFFICES SingleExecution' /\ TicksAreFresh' /\ \A j \in Jobs : Leased(j)'
  BY DEF OneOwner, OwnedMeansRunning, OwnedIsFresh, OwnedWasCreated, Leased
<1>c. ASSUME UNCHANGED <<run, row, now>>, NEW w \in Workers,
             tick' = [tick EXCEPT ![w] = tick'[w]],
             tick'[w].claimed \subseteq tick[w].claimed
      PROVE  SingleExecution' /\ \A j \in Jobs : Leased(j)'
  <2>1. \A j \in Jobs : Executing(j)' \subseteq Executing(j)
    BY <1>c DEF Executing, Busy
  <2>2. \A j \in Jobs : Claimants(j)' \subseteq Claimants(j)
    BY <1>c DEF Claimants, TypeOK
  <2>3. SingleExecution' /\ \A j \in Jobs : Owned(j)' => Owned(j)
    BY <1>a, <2>1, <2>2, NoNewOwner
  <2> QED BY <1>a, <1>c, <2>3, SameRows
<1>d. ASSUME UNCHANGED <<run, row, now>>, NEW w \in Workers,
             tick' = [tick EXCEPT ![w] = IdleTicker]
      PROVE  SingleExecution' /\ TicksAreFresh' /\ \A j \in Jobs : Leased(j)'
  <2>1. tick'[w] = IdleTicker /\ \A v \in Workers \ {w} : tick'[v] = tick[v]
    BY <1>d DEF TypeOK
  <2>2. IdleTicker.phase = "idle" /\ IdleTicker.claimed = {} BY DEF IdleTicker
  <2>3. tick' = [tick EXCEPT ![w] = tick'[w]] /\ tick'[w].claimed \subseteq tick[w].claimed
    BY <1>d, <2>1, <2>2
  <2>4. TicksAreFresh' BY <1>a, <1>d, <2>1, <2>2 DEF TicksAreFresh, Ticking
  <2> QED BY <1>c, <1>d, <2>3, <2>4
<1>1. ASSUME NEW w \in Workers, TickStep(w)
      PROVE SingleExecution' /\ TicksAreFresh' /\ \A j \in Jobs : Leased(j)'
  <2>1. CASE TickBegin(w)
    <3>1. TicksAreFresh'
      BY <2>1, <1>a, SchedulerAssumption DEF TickBegin, TicksAreFresh, Ticking, TypeOK, Ticker
    <3>2. tick' = [tick EXCEPT ![w] = tick'[w]] /\ tick'[w].claimed = tick[w].claimed
      BY <2>1 DEF TickBegin, TypeOK, Ticker
    <3> QED BY <2>1, <3>1, <3>2, <1>c DEF TickBegin
  <2>2. CASE Watchdog(w)
    <3>1. tick[w].at \in Nat /\ tick[w].at <= now
      BY <2>2, <1>a DEF Watchdog, TicksAreFresh, Ticking, TypeOK, Ticker
    <3>2. TicksAreFresh'
      BY <2>2, <1>a DEF Watchdog, TicksAreFresh, Ticking, TypeOK, Ticker
    <3>3. \A j \in Jobs : Claimants(j)' = Claimants(j) /\ Executing(j)' = Executing(j)
      BY <2>2 DEF Watchdog, Claimants, Executing, Busy, TypeOK, Ticker
    <3>4. SingleExecution' /\ \A j \in Jobs : Owned(j)' => Owned(j)
      BY <1>a, <3>3, NoNewOwner
    <3>5. ASSUME NEW j \in Jobs, Owned(j) PROVE row'[j] = row[j]
      <4>1. CASE Present(j) BY <2>2, <1>a, <3>1, <3>5, <4>1, ResetSparesLeased DEF Watchdog
      <4>2. CASE ~Present(j) BY <2>2, <4>2 DEF Watchdog, ResetRows, Resettable
      <4> QED BY <4>1, <4>2
    <3> QED BY <1>a, <2>2, <3>2, <3>4, <3>5 DEF Leased, Present, Watchdog
  <2>3. CASE SelectDue(w)
    <3>0. PICK D \in SUBSET Jobs :
            tick' = [tick EXCEPT ![w].phase = "claim", ![w].due = D]
      BY <2>3 DEF SelectDue
    <3>d. tick[w].phase = "select" /\ UNCHANGED <<run, row, now>> BY <2>3 DEF SelectDue
    <3>1. TicksAreFresh'
      BY <3>0, <3>d, <1>a DEF TicksAreFresh, Ticking, TypeOK, Ticker
    <3>2. tick' = [tick EXCEPT ![w] = tick'[w]] /\ tick'[w].claimed = tick[w].claimed
      BY <3>0, <3>d DEF TypeOK, Ticker
    <3> QED BY <3>d, <3>1, <3>2, <1>c
  <2>4. CASE ClaimRowGone(w) BY <2>4, <1>d DEF ClaimRowGone
  <2>5. ASSUME NEW j \in Jobs, ClaimWon(w, j)
        PROVE SingleExecution' /\ TicksAreFresh' /\ \A k \in Jobs : Leased(k)'
    <3>1. TicksAreFresh'
      BY <2>5, <1>a DEF ClaimWon, TicksAreFresh, Ticking, TypeOK, Ticker
    <3>2. Present(j) /\ ~row[j].running BY <2>5 DEF ClaimWon, Claimable
    <3>3. ~Owned(j) BY <1>a, <3>2 DEF Leased
    <3>4. \A k \in Jobs : Executing(k)' = Executing(k)
      BY <2>5 DEF ClaimWon, Executing, Busy
    <3>5. Claimants(j)' \subseteq {w}
      BY <2>5, <3>3 DEF ClaimWon, Claimants, Owned, TypeOK, Ticker
    <3>6. \A k \in Jobs \ {j} : Claimants(k)' = Claimants(k)
      BY <2>5 DEF ClaimWon, Claimants, TypeOK, Ticker
    <3>7. SingleExecution'
      BY <1>a, <3>3, <3>4, <3>5, <3>6 DEF SingleExecution, Owned
    <3>8. ASSUME NEW k \in Jobs \ {j} PROVE Leased(k)'
      BY <2>5, <1>a, <3>4, <3>6 DEF ClaimWon, Leased, Owned, Present
    <3>9. Leased(j)'
      <4>1. tick[w].at \in Nat /\ tick[w].at + StaleAfter > now
        BY <2>5, <1>a DEF ClaimWon, TicksAreFresh, Ticking, TypeOK, Ticker
      <4>2. row'[j] = ClaimedRow(j, tick[w].at) BY <2>5 DEF ClaimWon, TypeOK
      <4>3. /\ row'[j].state = row[j].state
            /\ row'[j].running
            /\ row'[j].lastRun = tick[w].at
        BY <4>2 DEF ClaimedRow, TypeOK, Row
      <4> QED BY <2>5, <3>2, <4>1, <4>3 DEF Leased, Null, ClaimWon, Present
    <3> QED BY <3>1, <3>7, <3>8, <3>9
  <2>6. ASSUME NEW j \in Jobs, ClaimLost(w, j)
        PROVE SingleExecution' /\ TicksAreFresh' /\ \A k \in Jobs : Leased(k)'
    <3>1. TicksAreFresh'
      BY <2>6, <1>a DEF ClaimLost, TicksAreFresh, Ticking, TypeOK, Ticker
    <3>2. tick' = [tick EXCEPT ![w] = tick'[w]] /\ tick'[w].claimed = tick[w].claimed
      BY <2>6 DEF ClaimLost, TypeOK, Ticker
    <3> QED BY <2>6, <3>1, <3>2, <1>c DEF ClaimLost
  <2>7. CASE ClaimsDone(w)
    <3>1. TicksAreFresh'
      BY <2>7, <1>a DEF ClaimsDone, TicksAreFresh, Ticking, TypeOK, Ticker
    <3>2. tick' = [tick EXCEPT ![w] = tick'[w]] /\ tick'[w].claimed = tick[w].claimed
      BY <2>7 DEF ClaimsDone, TypeOK, Ticker
    <3> QED BY <2>7, <3>1, <3>2, <1>c DEF ClaimsDone
  <2>8. ASSUME NEW j \in Jobs, NEW r \in Runs, Spawn(w, j, r)
        PROVE SingleExecution' /\ TicksAreFresh' /\ \A k \in Jobs : Leased(k)'
    <3>1. TicksAreFresh'
      BY <2>8, <1>a DEF Spawn, TicksAreFresh, Ticking, TypeOK, Ticker
    <3>2. w \in Claimants(j) /\ Executing(j) = {} /\ \A v \in Claimants(j) : v = w
      BY <2>8, <1>a DEF Spawn, Claimants, SingleExecution
    <3>3. Claimants(j)' = {}
      BY <2>8, <3>2 DEF Spawn, Claimants, TypeOK, Ticker
    <3>4. Executing(j)' = {r}
      BY <2>8, <3>2 DEF Spawn, Executing, Busy, NewThread, TypeOK
    <3>5. \A k \in Jobs \ {j} : /\ Claimants(k)' = Claimants(k)
                                /\ Executing(k)' = Executing(k)
      BY <2>8 DEF Spawn, Claimants, Executing, Busy, NewThread, TypeOK, Ticker
    <3>6. SingleExecution' BY <1>a, <3>3, <3>4, <3>5 DEF SingleExecution
    <3>7. \A k \in Jobs : Owned(k)' => Owned(k)
      BY <3>2, <3>5 DEF Owned
    <3> QED BY <1>a, <2>8, <3>1, <3>6, <3>7, SameRows DEF Spawn
  <2>9. CASE TickEnd(w) BY <2>9, <1>d DEF TickEnd
  <2> QED BY <1>1, <2>1, <2>2, <2>3, <2>4, <2>5, <2>6, <2>7, <2>8, <2>9 DEF TickStep
<1>2. ASSUME NEW w \in Workers, TickFault(w)
      PROVE SingleExecution' /\ TicksAreFresh' /\ \A j \in Jobs : Leased(j)'
  <2>1. CASE WatchdogFails(w)
    <3>1. TicksAreFresh'
      BY <2>1, <1>a DEF WatchdogFails, TicksAreFresh, Ticking, TypeOK, Ticker
    <3>2. tick' = [tick EXCEPT ![w] = tick'[w]] /\ tick'[w].claimed = tick[w].claimed
      BY <2>1 DEF WatchdogFails, TypeOK, Ticker
    <3> QED BY <2>1, <3>1, <3>2, <1>c DEF WatchdogFails
  <2>2. CASE TickAborts(w) BY <2>2, <1>d DEF TickAborts
  <2>3. ASSUME NEW j \in Jobs, ClaimFails(w, j)
        PROVE SingleExecution' /\ TicksAreFresh' /\ \A k \in Jobs : Leased(k)'
    <3>1. TicksAreFresh'
      BY <2>3, <1>a DEF ClaimFails, TicksAreFresh, Ticking, TypeOK, Ticker
    <3>2. tick' = [tick EXCEPT ![w] = tick'[w]] /\ tick'[w].claimed = tick[w].claimed
      BY <2>3 DEF ClaimFails, TypeOK, Ticker
    <3> QED BY <2>3, <3>1, <3>2, <1>c DEF ClaimFails
  <2> QED BY <1>2, <2>1, <2>2, <2>3 DEF TickFault
<1>3. ASSUME NEW w \in Workers, Crash(w)
      PROVE SingleExecution' /\ TicksAreFresh' /\ \A j \in Jobs : Leased(j)'
  <2>1. tick' = [tick EXCEPT ![w] = [IdleTicker EXCEPT !.phase = "down"]]
    BY <1>3 DEF Crash
  <2>2. TicksAreFresh'
    BY <1>3, <1>a, <2>1 DEF Crash, IdleTicker, TicksAreFresh, Ticking, TypeOK
  <2>3. \A j \in Jobs : Claimants(j)' \subseteq Claimants(j)
    BY <2>1 DEF IdleTicker, Claimants, TypeOK
  <2>4. \A j \in Jobs : Executing(j)' \subseteq Executing(j)
    BY <1>3 DEF Crash, Executing, Busy, FreeThread, TypeOK
  <2>5. SingleExecution' /\ \A j \in Jobs : Owned(j)' => Owned(j)
    BY <1>a, <2>3, <2>4, NoNewOwner
  <2> QED BY <1>3, <1>a, <2>2, <2>5, SameRows DEF Crash
<1>4. ASSUME NEW w \in Workers, BootResetFails(w)
      PROVE SingleExecution' /\ TicksAreFresh' /\ \A j \in Jobs : Leased(j)'
  BY <1>4, <1>d DEF BootResetFails
<1>5. ASSUME NEW w \in Workers, Quiescent, BootReset(w)
      PROVE SingleExecution' /\ TicksAreFresh' /\ \A j \in Jobs : Leased(j)'
  <2>1. TicksAreFresh'
    BY <1>5, <1>a DEF BootReset, IdleTicker, TicksAreFresh, Ticking, TypeOK
  <2>2. \A j \in Jobs : /\ Claimants(j)' \subseteq Claimants(j)
                        /\ Executing(j)' \subseteq Executing(j)
    BY <1>5 DEF BootReset, IdleTicker, Claimants, Executing, Busy, TypeOK
  <2>3. SingleExecution' /\ \A j \in Jobs : Owned(j)' => Owned(j)
    BY <1>a, <2>2, NoNewOwner
  <2> QED BY <1>5, <2>1, <2>3 DEF Quiescent, Leased
<1>6. ASSUME NEW r \in Runs, UNCHANGED <<tick, now>>,
             run' = [run EXCEPT ![r] = FreeThread], Busy(r),
             \A j \in Jobs \ {run[r].job} : row'[j] = row[j]
      PROVE SingleExecution' /\ TicksAreFresh' /\ \A j \in Jobs : Leased(j)'
  <2>1. TicksAreFresh' BY <1>6, <1>a DEF TicksAreFresh, Ticking
  <2>2. \A j \in Jobs : Claimants(j)' = Claimants(j) BY <1>6 DEF Claimants
  <2>3. \A j \in Jobs : Executing(j)' \subseteq Executing(j) \ {r}
    BY <1>6 DEF Executing, Busy, FreeThread, TypeOK
  <2>4. SingleExecution' /\ \A j \in Jobs : Owned(j)' => Owned(j)
    BY <1>a, <2>2, <2>3, NoNewOwner
  <2>5. PICK j \in Jobs : j = run[r].job BY <1>6 DEF TypeOK
  <2>6. r \in Executing(j) BY <1>6, <2>5 DEF Executing
  <2>7. ~Owned(j)'
    BY <1>a, <2>2, <2>3, <2>5, <2>6 DEF SingleExecution, Owned
  <2>8. ASSUME NEW k \in Jobs, k # j PROVE Leased(k)'
    BY <1>6, <1>a, <2>4, <2>5, <2>8 DEF Leased, Present
  <2>9. Leased(j)' BY <2>7 DEF Leased
  <2> QED BY <2>1, <2>4, <2>8, <2>9
<1>7. ASSUME NEW r \in Runs, RunStep(r)
      PROVE SingleExecution' /\ TicksAreFresh' /\ \A j \in Jobs : Leased(j)'
  <2>0. ASSUME UNCHANGED <<row, tick, now>>,
               \A j \in Jobs : Executing(j)' \subseteq Executing(j)
        PROVE SingleExecution' /\ TicksAreFresh' /\ \A j \in Jobs : Leased(j)'
    <3>1. \A j \in Jobs : Claimants(j)' = Claimants(j) BY <2>0 DEF Claimants
    <3>2. SingleExecution' /\ \A j \in Jobs : Owned(j)' => Owned(j)
      BY <1>a, <2>0, <3>1, NoNewOwner
    <3>3. TicksAreFresh' BY <1>a, <2>0 DEF TicksAreFresh, Ticking
    <3> QED BY <1>a, <2>0, <3>2, <3>3, SameRows
  <2>1. CASE RunStart(r)
    <3>1. \A j \in Jobs : Executing(j)' \subseteq Executing(j)
      BY <2>1 DEF RunStart, Executing, Busy, FreeThread, TypeOK, Thread
    <3> QED BY <2>0, <2>1, <3>1 DEF RunStart
  <2>2. CASE RunFinish(r)
    BY <1>6, <2>2 DEF RunFinish, Busy, TypeOK
  <2>3. CASE RunRaises(r)
    BY <1>6, <2>3 DEF RunRaises, Busy, TypeOK
  <2>4. ASSUME NEW i \in Items, RunItem(r, i)
        PROVE SingleExecution' /\ TicksAreFresh' /\ \A j \in Jobs : Leased(j)'
    <3>1. \A j \in Jobs : Executing(j)' \subseteq Executing(j)
      BY <2>4 DEF RunItem, Executing, Busy, TypeOK, Thread
    <3> QED BY <2>0, <2>4, <3>1 DEF RunItem
  <2> QED BY <1>7, <2>1, <2>2, <2>3, <2>4 DEF RunStep
<1>8. ASSUME NEW r \in Runs, RunResultLost(r)
      PROVE SingleExecution' /\ TicksAreFresh' /\ \A j \in Jobs : Leased(j)'
  BY <1>6, <1>8 DEF RunResultLost, Busy
<1>9. ASSUME Admin
      PROVE SingleExecution' /\ TicksAreFresh' /\ \A j \in Jobs : Leased(j)'
  <2>1. UNCHANGED <<tick, run, now>>
    BY <1>9 DEF Admin, JobCreate, SetEnabled, SetInterval, RecordLiveRun, JobDelete,
       ItemDelete
  <2>2. \A j \in Jobs : Claimants(j)' = Claimants(j) /\ Executing(j)' = Executing(j)
    BY <2>1 DEF Claimants, Executing, Busy
  <2>3. TicksAreFresh' BY <1>a, <2>1 DEF TicksAreFresh, Ticking
  <2>4. SingleExecution' /\ \A j \in Jobs : Owned(j)' => Owned(j)
    BY <1>a, <2>2, NoNewOwner
  <2>5. ASSUME NEW k \in Jobs, Owned(k) PROVE Leased(k)'
    <3>1. row[k].state # "unborn" BY <1>a, <2>5 DEF Leased
    <3>2. CASE \/ row'[k].state = "deleted"
               \/ /\ row'[k].state = row[k].state
                  /\ row'[k].running = row[k].running
                  /\ row'[k].lastRun \in {row[k].lastRun, now}
      BY <1>a, <2>1, <2>5, <3>1, <3>2, SchedulerAssumption
         DEF Leased, Present, TypeOK, Null
    <3>3. ASSUME NEW j \in Jobs, NEW i \in Intervals, JobCreate(j, i) PROVE Leased(k)'
      BY <3>1, <3>2, <3>3 DEF JobCreate, TypeOK
    <3>4. ASSUME NEW j \in Jobs, NEW i \in Intervals, SetInterval(j, i) PROVE Leased(k)'
      BY <3>2, <3>4 DEF SetInterval, TypeOK, Row
    <3>5. ASSUME NEW j \in Jobs, NEW b \in BOOLEAN, SetEnabled(j, b) PROVE Leased(k)'
      BY <3>2, <3>5 DEF SetEnabled, TypeOK, Row
    <3>6. ASSUME NEW j \in Jobs, NEW s \in {"success", "failed", "partial"},
                 RecordLiveRun(j, s)
          PROVE  Leased(k)'
      BY <3>2, <3>6 DEF RecordLiveRun, TypeOK, Row
    <3>7. ASSUME NEW j \in Jobs, JobDelete(j) PROVE Leased(k)'
      BY <3>2, <3>7 DEF JobDelete, NewRow, TypeOK
    <3>8. ASSUME NEW j \in Jobs, NEW i \in Items, ItemDelete(j, i) PROVE Leased(k)'
      BY <3>2, <3>8 DEF ItemDelete
    <3> QED BY <1>9, <3>3, <3>4, <3>5, <3>6, <3>7, <3>8 DEF Admin
  <2> QED BY <2>3, <2>4, <2>5 DEF Leased
<1>10. CASE RunsKeepTime /\ Clock
  <2>1. \A j \in Jobs : Claimants(j)' = Claimants(j) /\ Executing(j)' = Executing(j)
    BY <1>10 DEF Clock, Claimants, Executing, Busy
  <2>2. SingleExecution' BY <1>a, <2>1, NoNewOwner
  <2>3. TicksAreFresh'
    BY <1>10, <1>a DEF RunsKeepTime, Clock, TicksAreFresh, Ticking, TypeOK, Ticker
  <2>4. \A j \in Jobs : Leased(j)'
    BY <1>10, <1>a, <2>1 DEF RunsKeepTime, Clock, Leased, Owned, Present
  <2> QED BY <2>2, <2>3, <2>4
<1>11. CASE UNCHANGED vars
  BY <1>11, <1>a DEF vars, SingleExecution, TicksAreFresh, Ticking, Leased, Owned,
     Claimants, Executing, Busy, Present
<1> QED BY <1>1, <1>2, <1>3, <1>4, <1>5, <1>7, <1>8, <1>9, <1>10, <1>11
        DEF TickerNext, Core

LEMMA OwnerInit == Init => OneOwner
<1> SUFFICES ASSUME Init PROVE OneOwner
  OBVIOUS
<1>1. \A j \in Jobs : ~Owned(j)
  BY DEF Init, Owned, Executing, Claimants, Busy, FreeThread, IdleTicker
<1>2. TicksAreFresh BY DEF Init, TicksAreFresh, Ticking, IdleTicker
<1>3. SingleExecution BY <1>1 DEF SingleExecution, Owned
<1> QED BY <1>1, <1>2, <1>3 DEF OneOwner, OwnedMeansRunning, OwnedIsFresh, OwnedWasCreated

\* The inductive invariant, for any number of workers, jobs, threads and
\* failures.
THEOREM OneOwnerAlways == TickerSpec => [](TypeOK /\ OneOwner)
<1>1. Init => TypeOK /\ OneOwner BY TypeInit, OwnerInit
<1>2. TypeOK /\ OneOwner /\ [TickerNext]_vars => (TypeOK /\ OneOwner)'
  BY TypeStep, TickerIsNext, OwnerStep
<1> QED BY <1>1, <1>2, PTL DEF TickerSpec

\* When only tickers start jobs, nothing takes an hour and a starting worker
\* finds nobody at work, the claiming UPDATE does prevent double execution.
THEOREM NoDoubleExecution == TickerSpec => []SingleExecution
<1>1. OneOwner => SingleExecution BY DEF OneOwner
<1> QED BY <1>1, OneOwnerAlways, PTL

-----------------------------------------------------------------------------
(***************************************************************************)
(* The lease.                                                              *)
(***************************************************************************)
\* What the lease of a job is, when at most one owner holds it.
LeaseAt(j) == IF ~Present(j) THEN "gone"
              ELSE IF Owned(j) THEN "held"
              ELSE IF row[j].running THEN "orphan" ELSE "free"

Leases == [j \in Jobs |-> LeaseOf(j)]

LEMMA LeasesNow == OneOwner => Leases = [j \in Jobs |-> LeaseAt(j)]
<1> SUFFICES ASSUME OneOwner, NEW j \in Jobs PROVE LeaseOf(j) = LeaseAt(j)
  BY DEF Leases
<1>1. SingleExecution /\ (Present(j) /\ Owned(j) => row[j].running)
  BY DEF OneOwner, OwnedMeansRunning
<1>2. CASE ~Present(j)
  BY <1>2 DEF LeaseOf, LeaseAt
<1>3. CASE Present(j) /\ ~Owned(j) /\ ~row[j].running
  BY <1>3 DEF LeaseOf, LeaseAt
<1>4. CASE Present(j) /\ ~Owned(j) /\ row[j].running
  BY <1>4 DEF LeaseOf, LeaseAt
<1>5. CASE Present(j) /\ Owned(j)
  BY <1>1, <1>5 DEF LeaseOf, LeaseAt
<1> QED BY <1>2, <1>3, <1>4, <1>5

LEMMA LeasesNext == OneOwner' => Leases' = [j \in Jobs |-> LeaseAt(j)']
<1> SUFFICES ASSUME OneOwner', NEW j \in Jobs PROVE LeaseOf(j)' = LeaseAt(j)'
  BY DEF Leases
<1>1. SingleExecution' /\ (Present(j)' /\ Owned(j)' => row'[j].running)
  BY DEF OneOwner, OwnedMeansRunning
<1>2. CASE ~Present(j)'
  BY <1>2 DEF LeaseOf, LeaseAt
<1>3. CASE Present(j)' /\ ~Owned(j)' /\ ~row'[j].running
  BY <1>3 DEF LeaseOf, LeaseAt
<1>4. CASE Present(j)' /\ ~Owned(j)' /\ row'[j].running
  BY <1>4 DEF LeaseOf, LeaseAt
<1>5. CASE Present(j)' /\ Owned(j)'
  BY <1>1, <1>5 DEF LeaseOf, LeaseAt
<1> QED BY <1>2, <1>3, <1>4, <1>5

\* Owners go, nothing else changes: their leases are orphaned.
LEMMA OwnersGo ==
  ASSUME OneOwner, OneOwner',
         \A j \in Jobs : /\ Present(j)' <=> Present(j)
                         /\ Present(j) => (row'[j].running <=> row[j].running)
                         /\ Present(j) /\ Owned(j)' => Owned(j)
  PROVE  Lease!Next
<1> DEFINE S == {j \in Jobs : Present(j) /\ Owned(j) /\ ~Owned(j)'}
           before == [j \in Jobs |-> LeaseAt(j)]
           after  == [j \in Jobs |-> LeaseAt(j)']
<1>1. \A j \in S : before[j] = "held"
  BY DEF LeaseAt
<1>2. \A j \in Jobs : after[j] = IF j \in S THEN "orphan" ELSE before[j]
  BY DEF LeaseAt, OneOwner, OwnedMeansRunning
<1>3. Leases = before /\ Leases' = after
  BY LeasesNow, LeasesNext
<1>4. Leases' = [j \in Jobs |-> IF j \in S THEN "orphan" ELSE Leases[j]]
  BY <1>2, <1>3
<1>5. Lease!Abandon(S)
  BY <1>1, <1>3, <1>4 DEF Lease!Abandon, Leases
<1> QED BY <1>5 DEF Lease!Next

\* Rows nobody owns are reset: their leases are taken back.
LEMMA OrphansReset ==
  ASSUME OneOwner, OneOwner', NEW t, NEW force, row' = ResetRows(t, force), TypeOK,
         \A j \in Jobs : Owned(j)' <=> Owned(j),
         \A j \in Jobs : Owned(j) => row'[j] = row[j]
  PROVE  Lease!Next
<1> DEFINE S == {j \in Jobs : Resettable(j, t, force)}
           before == [j \in Jobs |-> LeaseAt(j)]
           after  == [j \in Jobs |-> LeaseAt(j)']
<1>1. ASSUME NEW j \in S
      PROVE  /\ Present(j) /\ row[j].running /\ ~Owned(j)
             /\ Present(j)' /\ ~row'[j].running
  <2>1. Present(j) /\ row[j].running
    BY DEF Resettable
  <2>2. row'[j] = [row[j] EXCEPT !.running = FALSE, !.status = "failed", !.nextRun = t]
    BY DEF ResetRows
  <2>3. row'[j].state = row[j].state /\ row'[j].running = FALSE
    BY <2>2 DEF TypeOK, Row
  <2> QED BY <2>1, <2>3 DEF Present
<1>2. \A j \in Jobs \ S : row'[j] = row[j]
  BY DEF ResetRows
<1>3. \A j \in S : before[j] = "orphan"
  BY <1>1 DEF LeaseAt
<1>4. \A j \in Jobs : after[j] = IF j \in S THEN "free" ELSE before[j]
  BY <1>1, <1>2 DEF LeaseAt, Present
<1>5. Leases = before /\ Leases' = after
  BY LeasesNow, LeasesNext
<1>6. Leases' = [j \in Jobs |-> IF j \in S THEN "free" ELSE Leases[j]]
  BY <1>4, <1>5
<1>7. Lease!Reclaim(S)
  BY <1>3, <1>5, <1>6 DEF Lease!Reclaim, Leases
<1> QED BY <1>7 DEF Lease!Next

\* One lease moves, the others stay.
LEMMA OneMoves ==
  ASSUME OneOwner, OneOwner', NEW j \in Jobs,
         \A k \in Jobs \ {j} : LeaseAt(k)' = LeaseAt(k),
         \/ LeaseAt(j) = "gone" /\ LeaseAt(j)' = "free"
         \/ LeaseAt(j) = "free" /\ LeaseAt(j)' = "held"
         \/ LeaseAt(j) = "held" /\ LeaseAt(j)' = "free"
         \/ LeaseAt(j) # "gone" /\ LeaseAt(j)' = "gone"
  PROVE  Lease!Next
<1> DEFINE before == [k \in Jobs |-> LeaseAt(k)]
           after  == [k \in Jobs |-> LeaseAt(k)']
<1>1. Leases = before /\ Leases' = after
  BY LeasesNow, LeasesNext
<1>2. after = [before EXCEPT ![j] = LeaseAt(j)']
  OBVIOUS
<1>3. Leases' = [Leases EXCEPT ![j] = LeaseAt(j)'] /\ Leases[j] = LeaseAt(j)
  BY <1>1, <1>2
<1>4. Lease!Create(j) \/ Lease!Grant(j) \/ Lease!Release(j) \/ Lease!Delete(j)
  BY <1>3 DEF Lease!Create, Lease!Grant, Lease!Release, Lease!Delete, Leases
<1> QED BY <1>4 DEF Lease!Next

\* Who owns what depends on the threads and the claims.
LEMMA OwnersShrink ==
  ASSUME \A j \in Jobs : Executing(j)' \subseteq Executing(j),
         \A j \in Jobs : Claimants(j)' \subseteq Claimants(j)
  PROVE  \A j \in Jobs : Owned(j)' => Owned(j)
BY DEF Owned

\* Rows as they are, and no new owner.
LEMMA RowsStay ==
  ASSUME OneOwner, OneOwner', row' = row, \A j \in Jobs : Present(j) /\ Owned(j)' => Owned(j)
  PROVE  Lease!Next
BY OwnersGo DEF Present

\* A ticker that claims nothing, and no thread.
LEMMA TickerMoves ==
  ASSUME TypeOK, OneOwner, OneOwner', UNCHANGED <<row, run>>, NEW w \in Workers, NEW t \in Ticker,
         tick' = [tick EXCEPT ![w] = t], t.claimed \subseteq tick[w].claimed
  PROVE  Lease!Next
<1>1. \A j \in Jobs : Executing(j)' \subseteq Executing(j)
  BY DEF Executing, Busy
<1>2. \A j \in Jobs : Claimants(j)' \subseteq Claimants(j)
  BY DEF Claimants, TypeOK
<1> QED BY <1>1, <1>2, OwnersShrink, RowsStay

LEMMA IdleIsTicker ==
  /\ IdleTicker \in Ticker /\ IdleTicker.claimed = {}
  /\ [IdleTicker EXCEPT !.phase = "down"] \in Ticker
  /\ [IdleTicker EXCEPT !.phase = "down"].claimed = {}
BY DEF IdleTicker, Ticker

LEMMA TickLeases ==
  ASSUME TypeOK, TypeOK', OneOwner, OneOwner', NEW w \in Workers, TickStep(w) \/ TickFault(w)
  PROVE  Lease!Next
<1>1. CASE TickBegin(w) \/ SelectDue(w) \/ ClaimsDone(w) \/ WatchdogFails(w)
           \/ \E j \in Jobs : ClaimLost(w, j) \/ ClaimFails(w, j)
  <2>1. /\ UNCHANGED <<row, run>>
        /\ \E u \in Ticker : tick' = [tick EXCEPT ![w] = u] /\ u.claimed = tick[w].claimed
    <3>1. UNCHANGED <<row, run>>
      BY <1>1 DEF TickBegin, SelectDue, ClaimsDone, WatchdogFails, ClaimLost, ClaimFails
    <3>2. tick' = [tick EXCEPT ![w] = tick'[w]] /\ tick'[w] \in Ticker
      BY <1>1 DEF TickBegin, SelectDue, ClaimsDone, WatchdogFails, ClaimLost, ClaimFails, TypeOK
    <3>3. tick'[w].claimed = tick[w].claimed
      BY <1>1 DEF TickBegin, SelectDue, ClaimsDone, WatchdogFails, ClaimLost, ClaimFails,
                  TypeOK, Ticker
    <3> QED BY <3>1, <3>2, <3>3
  <2> QED BY <2>1, TickerMoves
<1>2. CASE ClaimRowGone(w) \/ TickAborts(w) \/ TickEnd(w)
  BY <1>2, IdleIsTicker, TickerMoves DEF ClaimRowGone, TickAborts, TickEnd
<1>3. CASE Watchdog(w)
  <2>1. tick[w].at \in Nat /\ tick[w].at <= now
    BY <1>3 DEF Watchdog, OneOwner, TicksAreFresh, Ticking, TypeOK, Ticker
  <2>2. \A j \in Jobs : Owned(j)' <=> Owned(j)
    BY <1>3 DEF Watchdog, Owned, Claimants, Executing, Busy, TypeOK, Ticker
  <2>3. ASSUME NEW j \in Jobs, Owned(j) PROVE row'[j] = row[j]
    <3>1. Leased(j)
      BY OneOwnerParts
    <3>2. CASE Present(j)
      BY <1>3, <2>1, <2>3, <3>1, <3>2, ResetSparesLeased DEF Watchdog
    <3>3. CASE ~Present(j)
      BY <1>3, <3>3 DEF Watchdog, ResetRows, Resettable
    <3> QED BY <3>2, <3>3
  <2> QED BY <1>3, <2>2, <2>3, OrphansReset DEF Watchdog
<1>4. ASSUME NEW j \in Jobs, ClaimWon(w, j) PROVE Lease!Next
  <2>1. Present(j) /\ ~row[j].running
    BY <1>4 DEF ClaimWon, Claimable
  <2>2. row'[j].state = row[j].state
    BY <1>4 DEF ClaimWon, ClaimedRow, TypeOK, Row
  <2>3. w \in Claimants(j)'
    BY <1>4 DEF ClaimWon, Claimants, TypeOK, Ticker
  <2>4. LeaseAt(j) = "free" /\ LeaseAt(j)' = "held"
    BY <2>1, <2>2, <2>3 DEF LeaseAt, Present, Owned, OneOwner, OwnedMeansRunning
  <2>5. ASSUME NEW k \in Jobs \ {j} PROVE LeaseAt(k)' = LeaseAt(k)
    <3>1. Executing(k)' = Executing(k) /\ row'[k] = row[k]
      BY <1>4 DEF ClaimWon, Executing, Busy, TypeOK
    <3>2. Claimants(k)' = Claimants(k)
      BY <1>4 DEF ClaimWon, Claimants, TypeOK, Ticker
    <3> QED BY <3>1, <3>2 DEF LeaseAt, Present, Owned
  <2> QED BY <2>4, <2>5, OneMoves
<1>5. ASSUME NEW j \in Jobs, NEW r \in Runs, Spawn(w, j, r) PROVE Lease!Next
  <2>1. w \in Claimants(j)
    BY <1>5 DEF Spawn, Claimants
  <2>2. \A k \in Jobs \ {j} : Claimants(k)' = Claimants(k) /\ Executing(k)' = Executing(k)
    BY <1>5 DEF Spawn, Claimants, Executing, Busy, NewThread, TypeOK, Ticker
  <2>3. \A k \in Jobs : Owned(k)' => Owned(k)
    BY <2>1, <2>2 DEF Owned
  <2> QED BY <1>5, <2>3, RowsStay DEF Spawn
<1> QED
  BY <1>1, <1>2, <1>3, <1>4, <1>5 DEF TickStep, TickFault

\* The thread that ends was the only owner.
LEMMA RunEnds ==
  ASSUME TypeOK, OneOwner, OneOwner', NEW r \in Runs, Busy(r), tick' = tick,
         run' = [run EXCEPT ![r] = FreeThread]
  PROVE  /\ run[r].job \in Jobs /\ Owned(run[r].job)
         /\ \A k \in Jobs : k # run[r].job => (Owned(k)' <=> Owned(k))
         /\ \A k \in Jobs : k = run[r].job => ~Owned(k)'
<1>1. PICK j \in Jobs : j = run[r].job
  BY DEF TypeOK
<1>2. r \in Executing(j) /\ \A k \in Jobs : Claimants(k)' = Claimants(k)
  BY <1>1 DEF Executing, Claimants
<1>3. \A k \in Jobs : Executing(k)' = Executing(k) \ {r}
  BY DEF Executing, Busy, FreeThread, TypeOK
<1>4. \A k \in Jobs \ {j} : Executing(k)' = Executing(k)
  BY <1>1, <1>3 DEF Executing
<1>5. Executing(j)' = {} /\ Claimants(j)' = {}
  BY <1>2, <1>3 DEF OneOwner, SingleExecution
<1> QED BY <1>1, <1>2, <1>4, <1>5 DEF Owned

\* A result that is saved releases the lease of a job that is still there.
LEMMA ResultReleases ==
  ASSUME TypeOK, OneOwner, OneOwner', NEW r \in Runs, Busy(r), tick' = tick,
         run' = [run EXCEPT ![r] = FreeThread], NEW s,
         Present(run[r].job), row' = [row EXCEPT ![run[r].job] = FinishedRow(run[r].job, s)]
  PROVE  Lease!Next
<1>1. PICK j \in Jobs : j = run[r].job
  BY DEF TypeOK
<1>2. Owned(j) /\ ~Owned(j)' /\ \A k \in Jobs \ {j} : Owned(k)' <=> Owned(k)
  BY <1>1, RunEnds
<1>3. row'[j].state = row[j].state /\ ~row'[j].running
  BY <1>1 DEF FinishedRow, TypeOK, Row
<1>4. \A k \in Jobs \ {j} : row'[k] = row[k]
  BY <1>1 DEF TypeOK
<1>5. LeaseAt(j) = "held" /\ LeaseAt(j)' = "free"
  BY <1>1, <1>2, <1>3 DEF LeaseAt, Present
<1>6. \A k \in Jobs \ {j} : LeaseAt(k)' = LeaseAt(k)
  BY <1>2, <1>4 DEF LeaseAt, Present
<1> QED BY <1>5, <1>6, OneMoves

LEMMA RunLeases ==
  ASSUME TypeOK, TypeOK', OneOwner, OneOwner', NEW r \in Runs, RunStep(r) \/ RunResultLost(r)
  PROVE  Lease!Next
<1>0. ASSUME UNCHANGED <<row, tick>>, \A j \in Jobs : Executing(j)' \subseteq Executing(j)
      PROVE  Lease!Next
  <2>1. \A j \in Jobs : Claimants(j)' \subseteq Claimants(j)
    BY <1>0 DEF Claimants
  <2> QED BY <1>0, <2>1, OwnersShrink, RowsStay
<1>1. CASE RunStart(r)
  <2>1. \A j \in Jobs : Executing(j)' \subseteq Executing(j)
    BY <1>1 DEF RunStart, Executing, Busy, FreeThread, TypeOK, Thread
  <2> QED BY <1>0, <1>1, <2>1 DEF RunStart
<1>2. ASSUME NEW i \in Items, RunItem(r, i) PROVE Lease!Next
  <2>1. \A j \in Jobs : Executing(j)' \subseteq Executing(j)
    BY <1>2 DEF RunItem, Executing, Busy, TypeOK, Thread
  <2> QED BY <1>0, <1>2, <2>1 DEF RunItem
<1>3. CASE RunFinish(r)
  BY <1>3, ResultReleases DEF RunFinish, Busy
<1>4. CASE RunRaises(r) /\ Present(run[r].job)
  BY <1>4, ResultReleases DEF RunRaises, Busy
<1>5. CASE (RunRaises(r) /\ ~Present(run[r].job)) \/ RunResultLost(r)
  <2>1. UNCHANGED <<row, tick>> /\ run' = [run EXCEPT ![r] = FreeThread]
    BY <1>5 DEF RunRaises, RunResultLost
  <2>2. \A j \in Jobs : Executing(j)' \subseteq Executing(j)
    BY <2>1 DEF Executing, Busy, FreeThread, TypeOK
  <2> QED BY <1>0, <2>1, <2>2
<1> QED
  BY <1>1, <1>2, <1>3, <1>4, <1>5 DEF RunStep

LEMMA AdminLeases ==
  ASSUME TypeOK, OneOwner, OneOwner', Admin
  PROVE  Lease!Next
<1>1. UNCHANGED <<tick, run>>
  BY DEF Admin, JobCreate, SetEnabled, SetInterval, RecordLiveRun, JobDelete, ItemDelete
<1>2. \A j \in Jobs : Owned(j)' <=> Owned(j)
  BY <1>1 DEF Owned, Claimants, Executing, Busy
<1>3. ASSUME NEW j \in Jobs, NEW i \in Intervals, JobCreate(j, i) PROVE Lease!Next
  <2>1. row'[j].state = "present" /\ ~row'[j].running /\ row[j].state = "unborn"
    BY <1>3 DEF JobCreate, NewRow, TypeOK
  <2>2. ~Owned(j)
    BY <2>1 DEF OneOwner, OwnedWasCreated
  <2>3. LeaseAt(j) = "gone" /\ LeaseAt(j)' = "free"
    BY <1>2, <2>1, <2>2 DEF LeaseAt, Present
  <2>4. \A k \in Jobs \ {j} : LeaseAt(k)' = LeaseAt(k)
    BY <1>2, <1>3 DEF JobCreate, LeaseAt, Present, TypeOK
  <2> QED BY <2>3, <2>4, OneMoves
<1>4. ASSUME NEW j \in Jobs, JobDelete(j) PROVE Lease!Next
  <2>1. Present(j) /\ row'[j].state = "deleted"
    BY <1>4 DEF JobDelete, NewRow, TypeOK
  <2>2. LeaseAt(j) # "gone" /\ LeaseAt(j)' = "gone"
    BY <2>1 DEF LeaseAt, Present
  <2>3. \A k \in Jobs \ {j} : LeaseAt(k)' = LeaseAt(k)
    BY <1>2, <1>4 DEF JobDelete, LeaseAt, Present, TypeOK
  <2> QED BY <2>2, <2>3, OneMoves
<1>5. ASSUME \A k \in Jobs : /\ row'[k].state = row[k].state
                             /\ row'[k].running = row[k].running
      PROVE  Lease!Next
  <2>1. \A k \in Jobs : Present(k)' <=> Present(k)
    BY <1>5 DEF Present
  <2> QED BY <1>2, <1>5, <2>1, OwnersGo
<1>6. ASSUME NEW j \in Jobs, NEW i \in Intervals, SetInterval(j, i) PROVE Lease!Next
  BY <1>5, <1>6 DEF SetInterval, TypeOK, Row
<1>7. ASSUME NEW j \in Jobs, NEW b \in BOOLEAN, SetEnabled(j, b) PROVE Lease!Next
  BY <1>5, <1>7 DEF SetEnabled, TypeOK, Row
<1>8. ASSUME NEW j \in Jobs, NEW s \in {"success", "failed", "partial"}, RecordLiveRun(j, s)
      PROVE  Lease!Next
  BY <1>5, <1>8 DEF RecordLiveRun, TypeOK, Row
<1>9. ASSUME NEW j \in Jobs, NEW i \in Items, ItemDelete(j, i) PROVE Lease!Next
  BY <1>5, <1>9 DEF ItemDelete
<1> QED
  BY <1>3, <1>4, <1>6, <1>7, <1>8, <1>9 DEF Admin

\* Every step of the scheduler grants, releases, orphans, takes back, creates
\* or deletes leases, or leaves them alone.
LEMMA LeaseStep ==
  ASSUME TypeOK, TypeOK', OneOwner, OneOwner', [TickerNext]_vars
  PROVE  [Lease!Next]_Leases
<1>1. ASSUME NEW w \in Workers, TickStep(w) \/ TickFault(w) PROVE Lease!Next
  BY <1>1, TickLeases
<1>2. ASSUME NEW w \in Workers, Crash(w) PROVE Lease!Next
  <2>1. \A j \in Jobs : Claimants(j)' \subseteq Claimants(j)
    BY <1>2 DEF Crash, IdleTicker, Claimants, TypeOK
  <2>2. \A j \in Jobs : Executing(j)' \subseteq Executing(j)
    BY <1>2 DEF Crash, Executing, Busy, FreeThread, TypeOK
  <2> QED BY <1>2, <2>1, <2>2, OwnersShrink, RowsStay DEF Crash
<1>3. ASSUME NEW w \in Workers, BootResetFails(w) PROVE Lease!Next
  BY <1>3, IdleIsTicker, TickerMoves DEF BootResetFails
<1>4. ASSUME NEW w \in Workers, Quiescent, BootReset(w) PROVE Lease!Next
  <2>1. \A j \in Jobs : /\ Claimants(j)' \subseteq Claimants(j)
                        /\ Executing(j)' \subseteq Executing(j)
    BY <1>4 DEF BootReset, IdleTicker, Claimants, Executing, Busy, TypeOK
  <2>2. \A j \in Jobs : ~Owned(j) /\ ~Owned(j)'
    BY <1>4, <2>1, OwnersShrink DEF Quiescent
  <2> QED BY <1>4, <2>2, OrphansReset DEF BootReset
<1>5. ASSUME NEW r \in Runs, RunStep(r) \/ RunResultLost(r) PROVE Lease!Next
  BY <1>5, RunLeases
<1>6. CASE Clock
  <2>1. \A j \in Jobs : Owned(j)' <=> Owned(j)
    BY <1>6 DEF Clock, Owned, Claimants, Executing, Busy
  <2> QED BY <1>6, <2>1, RowsStay DEF Clock
<1>7. CASE UNCHANGED vars
  <2>1. \A j \in Jobs : Owned(j)' <=> Owned(j)
    BY <1>7 DEF vars, Owned, Claimants, Executing, Busy
  <2> QED BY <1>7, <2>1, RowsStay DEF vars
<1> QED
  BY <1>1, <1>2, <1>3, <1>4, <1>5, <1>6, <1>7, AdminLeases DEF TickerNext, Core

\* The scheduler implements the lease.
THEOREM ImplementsLease == TickerSpec => LeaseSpec
<1>1. Init => Lease!Init
  <2> SUFFICES ASSUME Init, NEW j \in Jobs PROVE LeaseOf(j) = "gone"
    BY DEF Lease!Init
  <2>1. ~Present(j)
    BY DEF Init, NewRow, Present
  <2> QED BY <2>1 DEF LeaseOf
<1>2. TypeOK /\ OneOwner /\ (TypeOK /\ OneOwner)' /\ [TickerNext]_vars
        => [Lease!Next]_Leases
  BY LeaseStep
<1> QED
  BY <1>1, <1>2, OneOwnerAlways, PTL DEF TickerSpec, LeaseSpec, Lease!Spec, Leases

\* The watchdog spares what is executed: it takes back orphans only.
THEOREM LiveRunsSpared == TickerSpec => WatchdogSparesLiveRuns
<1>1. TypeOK /\ OneOwner /\ [TickerNext]_vars =>
        [\A w \in Workers : Watchdog(w) =>
           \A j \in Jobs : row[j].running /\ ~row'[j].running =>
             \A r \in Executing(j) : run[r].began + StaleAfter <= now]_vars
  <2> SUFFICES ASSUME TypeOK, OneOwner, NEW w \in Workers, Watchdog(w), NEW j \in Jobs,
                      row'[j] # row[j], Executing(j) # {}
               PROVE  FALSE
    OBVIOUS
  <2>1. tick[w].at \in Nat /\ tick[w].at <= now
    BY DEF Watchdog, OneOwner, TicksAreFresh, Ticking, TypeOK, Ticker
  <2>2. Leased(j) /\ Owned(j)
    BY OneOwnerParts DEF Owned
  <2>3. CASE Present(j)
    BY <2>1, <2>2, <2>3, ResetSparesLeased DEF Watchdog
  <2>4. CASE ~Present(j)
    BY <2>4 DEF Watchdog, ResetRows, Resettable
  <2> QED BY <2>3, <2>4
<1> QED
  BY <1>1, OneOwnerAlways, PTL DEF TickerSpec, WatchdogSparesLiveRuns

-----------------------------------------------------------------------------
(***************************************************************************)
(* Saved results.                                                          *)
(***************************************************************************)

\* A thread that finishes or raises is one of those executing its job, and it
\* is gone after the step; the other rows keep their status.
LEMMA EndingThread ==
  ASSUME TypeOK, NEW r \in Runs, RunFinish(r) \/ RunRaises(r),
         NEW j \in Jobs, row'[j].status # row[j].status
  PROVE  ThreadEnded(j)
<1>1. Busy(r) /\ run'[r].pc = "free"
  BY DEF RunFinish, RunRaises, Busy, FreeThread, TypeOK
<1>2. run[r].job = j
  BY DEF RunFinish, RunRaises, TypeOK
<1> QED BY <1>1, <1>2 DEF ThreadEnded, Executing

\* Routes: only the page that ran the items itself writes a status; a created
\* row is new and a deleted one is gone.
LEMMA RoutesKeepStatus ==
  ASSUME TypeOK, Admin, NEW j \in Jobs, Present(j), Present(j)',
         row'[j].status # row[j].status
  PROVE  LiveRunRecorded(j)
<1>1. PICK k \in Jobs :
        \/ \E i \in Intervals : JobCreate(k, i) \/ SetInterval(k, i)
        \/ \E b \in BOOLEAN : SetEnabled(k, b)
        \/ \E s \in {"success", "failed", "partial"} : RecordLiveRun(k, s)
        \/ JobDelete(k)
        \/ \E i \in Items : ItemDelete(k, i)
  BY DEF Admin
<1>2. ASSUME NEW i \in Intervals, JobCreate(k, i) PROVE FALSE
  BY <1>2 DEF JobCreate, Present, TypeOK
<1>3. ASSUME NEW i \in Intervals, SetInterval(k, i) PROVE FALSE
  BY <1>3 DEF SetInterval, TypeOK, Row
<1>4. ASSUME NEW b \in BOOLEAN, SetEnabled(k, b) PROVE FALSE
  BY <1>4 DEF SetEnabled, TypeOK, Row
<1>5. ASSUME NEW s \in {"success", "failed", "partial"}, RecordLiveRun(k, s)
      PROVE  LiveRunRecorded(j)
  <2>1. j = k
    BY <1>5 DEF RecordLiveRun, TypeOK
  <2> QED BY <1>5, <2>1 DEF LiveRunRecorded, Statuses
<1>6. CASE JobDelete(k)
  BY <1>6 DEF JobDelete, Present, NewRow, TypeOK
<1>7. ASSUME NEW i \in Items, ItemDelete(k, i) PROVE FALSE
  BY <1>7 DEF ItemDelete
<1> QED BY <1>1, <1>2, <1>3, <1>4, <1>5, <1>6, <1>7

\* A saved result stands, in the whole system: whatever resets, claims, routes,
\* crashes and failures do, a status changes only while its job is marked
\* running, when a thread executing it ends or when the live run's own outcome
\* is recorded.
THEOREM ResultStands == Spec => FinishedResultStands
<1> DEFINE Stands == \A j \in Jobs :
       Present(j) /\ Present(j)' /\ row'[j].status # row[j].status =>
          row[j].running \/ ThreadEnded(j) \/ LiveRunRecorded(j)
<1>1. TypeOK /\ [Next]_vars => [Stands]_vars
  <2> SUFFICES ASSUME TypeOK, Next, NEW j \in Jobs, Present(j), Present(j)',
                      row'[j].status # row[j].status, ~row[j].running
               PROVE  ThreadEnded(j) \/ LiveRunRecorded(j)
    OBVIOUS
  <2>a. ASSUME NEW t, NEW force, row' = ResetRows(t, force) PROVE FALSE
    BY <2>a DEF ResetRows, Resettable
  <2>1. ASSUME NEW w \in Workers, TickStep(w) PROVE FALSE
    <3>1. CASE Watchdog(w)
      BY <2>a, <3>1 DEF Watchdog
    <3>2. ASSUME NEW k \in Jobs, ClaimWon(w, k) PROVE FALSE
      BY <3>2 DEF ClaimWon, ClaimedRow, TypeOK, Row
    <3> QED BY <2>1, <3>1, <3>2 DEF TickStep, TickBegin, SelectDue, ClaimRowGone, ClaimLost,
               ClaimsDone, Spawn, TickEnd
  <2>2. ASSUME NEW w \in Workers, TickFault(w) \/ Crash(w) \/ BootResetFails(w) PROVE FALSE
    BY <2>2 DEF TickFault, WatchdogFails, TickAborts, ClaimFails, Crash, BootResetFails
  <2>3. ASSUME NEW w \in Workers, BootReset(w) PROVE FALSE
    BY <2>a, <2>3 DEF BootReset
  <2>4. ASSUME NEW r \in Runs, RunStep(r) PROVE ThreadEnded(j)
    BY <2>4, EndingThread DEF RunStep, RunStart, RunItem
  <2>5. ASSUME NEW r \in Runs, RunResultLost(r) PROVE FALSE
    BY <2>5 DEF RunResultLost
  <2>6. CASE Admin
    BY <2>6, RoutesKeepStatus
  <2>7. ASSUME NEW q \in Requests, RunNow(q) PROVE FALSE
    <3>1. ASSUME NEW r \in Runs, RunNowCommit(q, r) PROVE FALSE
      BY <3>1 DEF RunNowCommit, TypeOK, Row
    <3> QED BY <2>7, <3>1 DEF RunNow, RunNowCheck, RunNowFails
  <2>8. CASE Clock
    BY <2>8 DEF Clock
  <2> QED BY <2>1, <2>2, <2>3, <2>4, <2>5, <2>6, <2>7, <2>8 DEF Next, Core
<1> QED
  BY <1>1, TypeCorrect, PTL DEF Spec, FinishedResultStands
=============================================================================
