SPECIFICATION FairSpec
CONSTANTS
  Records <- MCRecords
  Noise = {"$"}
  SseCap = 2
  DeltaCap = 2
  MinSpeak = 2
  MaxTime = 4
  MaxStarts = 2
CHECK_DEADLOCK FALSE
INVARIANTS TypeOK OneLoop EndIsLast ToldOnce
PROPERTIES GapHeld StoppedEnds
