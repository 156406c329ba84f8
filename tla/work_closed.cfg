SPECIFICATION Spec
CONSTANTS
  Projects = {p1}
  Activities = {}
  Tasks = {t1, t2}
  Requests = {q1, q2}
  NoParent = NoParent
INVARIANT ClosedAllTheWay
SYMMETRY Symmetry
CHECK_DEADLOCK FALSE
