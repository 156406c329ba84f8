SPECIFICATION CalmSpec
CONSTANTS
  Releases = {r1, r2}
  Users = {u1}
  MemoSize = 1
INVARIANTS OneStagedGroup ReceivedDropsOff MemoFresh
PROPERTIES Lifecycle NothingRemovedUnseen
CHECK_DEADLOCK FALSE
