SPECIFICATION BatchSpec
CONSTANTS
  Releases = {r1, r2}
  Users = {u1, u2}
  MemoSize = 1
INVARIANT OneStagedGroup
CHECK_DEADLOCK FALSE
