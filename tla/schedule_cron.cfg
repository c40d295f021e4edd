SPECIFICATION FairSpec
CONSTANTS
  Ids = {i1}
  Works = {w1}
  None = None
  MaxFaults = 0
PROPERTIES CronFires
