SPECIFICATION Spec
CONSTANTS
  LineCap = 3
  FrameCap = 2
  DiffCap = 1
  VP = 2
  Cap = 3
  Frames <- MCFrames
  MaxLines = 3
  MaxEvents = 2
  MaxStreams = 1
CHECK_DEADLOCK FALSE
INVARIANTS TypeOK StoredOnce SentOnce ShownIsFound EndsOfHistory SearchIsWhole
