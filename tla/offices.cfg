SPECIFICATION DeskSpec
CONSTANTS
  Loads = {l1}
  Releases = {r1, r2}
  Importers = {p, q}
  Slices = 2
  Engine = "sqlite"
  MaxMoves = 3
  MaxFaults = 1
  JobItems = {i1, i2, i3, i4}
  ItemRequests = {k1}
  LoginWorkers = {w1}
  Identifiers = {a, b, c}
  LoginThreads = {t1}
  MaxAttempts = 2
  LockoutMinutes = 2
  MaxTracked = 2
  MaxMinutes = 2
  MaxFailures = 3
CHECK_DEADLOCK FALSE
INVARIANT LockoutIsExact
PROPERTIES ContentsObserved HistoryCatchesUp OrderAsAsked
