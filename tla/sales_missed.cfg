SPECIFICATION Spec
CONSTANTS
  Orders = {o1, o2}
  Runs = {i1}
  Overlap = 1
  Lookback = 5
  OldDays = 1
  ByHand = {}
  MaxTime = 4
INVARIANT NeverMissed
CHECK_DEADLOCK FALSE
