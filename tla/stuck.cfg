SPECIFICATION FairSpec
CONSTANTS
  Workers = {w1}
  Jobs = {j1}
  Items = {}
  Registered = {}
  Runs = {r1}
  Requests = {q1}
  NoOne = NoOne
  Intervals = {1}
  StaleAfter = 1
  MaxTime = 3
  MaxFaults = 1
  MaxCrashes = 0
PROPERTY EveryOrphanRecovered

