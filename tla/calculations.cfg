SPECIFICATION PagesSpec
CHECK_DEADLOCK FALSE
INVARIANTS NettingSound WhatIfIsExact ReportsAgree BoardAddsUp WorkListsAgree ClearIsEarned
CONSTANTS
  NoDate = NoDate
  None = None
  NoModel = NoModel
  NoOrder = NoOrder
  NoWeek = NoWeek
  NoOp = NoOp
  NoDept = NoDept
  Raw = Raw
  Mixed = Mixed
  Unknown = Unknown
  Loads = {l1, l2}
  Releases = {r1, r2}
  MaxQty = 2
  Weekday = 2
  MaxBundle = 2
  MaxCandidates = 2
