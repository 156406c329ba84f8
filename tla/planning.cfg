SPECIFICATION PlanningSpec
CONSTANTS
  Planners = {p, q}
  None = None
  Overlap = FALSE
  Database = "postgres"
  MaxRows = 4
  Weeks = {w1, w2}
  PerDay = {0, 2}
  DayCounts = {0, 2, 4}
  Groups = {g1, g2}
  ShownGroups = {g1}
  Caps = {0, 1}
  Customers = {c1, c2}
  Sessions = {s1, s2}
  Jobs = {1, 2}
  Orders = {{1, 2}}
  PlanWeeks = {w1}
  MaxImports = 1
  Slots = {d1, d2}
  Hours = {7, 8}
CHECK_DEADLOCK FALSE
PROPERTIES GridAsSaved MovedNotLost WholeOrderMoved ManualHoursStand
