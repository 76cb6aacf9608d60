SPECIFICATION Spec
CONSTANTS
  Orders = {o1, o2}
  Rebuilds = {r1}
  Null = Null
  LastDay = 3
  ChunkDays = 1
  MaxTries = 2
  MaxViews = 1
  Outages = FALSE
INVARIANT RebuildRecovers
CHECK_DEADLOCK FALSE
