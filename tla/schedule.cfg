SPECIFICATION FairSpec
CONSTANTS
  Ids = {i1, i2, i3}
  Works = {w1}
  None = None
  MaxFaults = 1
INVARIANTS TypeOK OneLife NothingVanishes NoTwins
PROPERTIES DueIsHandled CronComesBack
