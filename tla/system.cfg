SPECIFICATION Spec
CONSTANTS
  Workers = {w1}
  Jobs = {j1}
  Items = {i1}
  Registered = {i1}
  Runs = {r1, r2}
  Requests = {q1}
  NoOne = NoOne
  Intervals = {1}
  StaleAfter = 1
  MaxTime = 1
  MaxFaults = 1
  MaxCrashes = 1
INVARIANTS TypeOK
PROPERTY FinishedResultStands
SYMMETRY Symmetry
