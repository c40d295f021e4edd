SPECIFICATION FairSpec
CONSTANTS
  c1 = c1
  c2 = c2
  c3 = c3
  Callers = {c1, c2, c3}
  Medium <- MCMedium
  Cap = 2
  MaxAttempts = 2
  MaxRestarts = 1
CHECK_DEADLOCK FALSE
INVARIANTS TypeOK InOrder OwnReply
PROPERTIES EveryCallEnds
