SPECIFICATION TickerSpec
CONSTANTS
  Workers = {w1, w2}
  Jobs = {j1}
  Items = {i1}
  Registered = {i1}
  Runs = {r1, r2}
  Requests = {}
  NoOne = NoOne
  Intervals = {1}
  StaleAfter = 2
  MaxTime = 2
  MaxFaults = 1
  MaxCrashes = 1
INVARIANTS SingleExecution OneOwner
PROPERTIES LeaseSpec WatchdogSparesLiveRuns
SYMMETRY Symmetry
