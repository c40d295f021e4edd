SPECIFICATION Spec
CONSTANTS
  Ids = {x, y, z}
  MaxTasks = 2
  MaxFaults = 0
INVARIANTS OnlyBadEdgesLost
CHECK_DEADLOCK FALSE
