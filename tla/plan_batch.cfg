SPECIFICATION Spec
CONSTANTS
  Ids = {x, y, z, u}
  MaxTasks = 3
  MaxFaults = 1
INVARIANTS TypeOK AllOrNone OneCutIsFound WorkIsKept
SYMMETRY IdSymmetry
CHECK_DEADLOCK FALSE
