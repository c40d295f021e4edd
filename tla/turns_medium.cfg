SPECIFICATION Spec
CONSTANTS
  c1 = c1
  c2 = c2
  c3 = c3
  Callers = {c1, c2}
  Medium <- MCMedium
  Cap = 2
  MaxAttempts = 2
  MaxRestarts = 0
CHECK_DEADLOCK FALSE
INVARIANTS Speakable
