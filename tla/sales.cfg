SPECIFICATION Spec
CONSTANTS
  Orders = {o1, o2}
  Runs = {i1, i2}
  Overlap = 1
  Lookback = 3
  OldDays = 1
  ByHand = {0}
  MaxTime = 3
INVARIANTS NotTwice PromptClosuresRecorded
SYMMETRY Symmetry
CHECK_DEADLOCK FALSE
