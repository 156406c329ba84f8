SPECIFICATION RecoverySpec
CONSTANTS
  Workers = {w1, w2}
  Jobs = {j1}
  Items = {}
  Registered = {}
  Runs = {r1}
  Requests = {}
  NoOne = NoOne
  Intervals = {1}
  StaleAfter = 1
  MaxTime = 2
  MaxFaults = 1
  MaxCrashes = 1
PROPERTIES OrphanRecovered DueJobRuns

