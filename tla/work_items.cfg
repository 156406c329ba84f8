SPECIFICATION Spec
CONSTANTS
  Projects = {p1}
  Activities = {}
  Tasks = {t1, t2}
  Requests = {q1, q2}
  NoParent = NoParent
INVARIANTS ClosingKept TreeKept
PROPERTY HistoryRespected
SYMMETRY Symmetry
CHECK_DEADLOCK FALSE
