SPECIFICATION SteadySpec
CONSTANTS
  MaxDays = 3
  Chunk = 2
  Backlog = 4
  MaxTime = 6
  MaxOutput = 1
  MaxFaults = 1
INVARIANT BehindIsComplete
PROPERTIES EachRunAdvances CatchesUp
CHECK_DEADLOCK FALSE
