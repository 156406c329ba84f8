SPECIFICATION FairSpec
CONSTANTS
  Importers = {p1, p2}
  Keys = {k1, k2}
  Database = "sqlite"
  UniqueKey = FALSE
  KeepNewest = 2
  MaxBatch = 4
  MaxFaults = 1
INVARIANTS OneSnapshot TableIsLastSuccess
PROPERTIES NotWiped ShownSpec EveryRunEnds
CHECK_DEADLOCK FALSE
