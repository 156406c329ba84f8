SPECIFICATION ManualSpec
CONSTANTS
  Workers = {w1}
  Jobs = {j1}
  Items = {i1}
  Registered = {i1}
  Runs = {r1, r2}
  Requests = {q1}
  NoOne = NoOne
  Intervals = {1}
  StaleAfter = 2
  MaxTime = 0
  MaxFaults = 0
  MaxCrashes = 0
INVARIANT SingleExecution

