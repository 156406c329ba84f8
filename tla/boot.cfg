SPECIFICATION BootSpec
CONSTANTS
  Workers = {w1, w2}
  Jobs = {j1}
  Items = {i1}
  Registered = {i1}
  Runs = {r1, r2}
  Requests = {}
  NoOne = NoOne
  Intervals = {1}
  StaleAfter = 2
  MaxTime = 0
  MaxFaults = 0
  MaxCrashes = 0
INVARIANT SingleExecution

