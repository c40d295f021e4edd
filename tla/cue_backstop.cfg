SPECIFICATION FairSpec
CONSTANTS
  a = a
  b = b
  c = c
  s = s
  n1 = n1
  n2 = n2
  Spawn = Spawn
  Absent = Absent
  None = None
  NoKey = ""
  Tasks = {a}
  Sessions = {s}
  SpawnIds = {}
  Statuses = {"idle", "running", "awaiting_user"}
  Target <- MCTarget
  Deps <- MCDeps
  Rank <- MCRank
  DedupeKey <- MCDedupeKey
  PerSession = 1
  Global = 1
  MaxSpawns = 1
  DryRuns = {FALSE}
  MaxPerHour = 1
  TTL = TRUE
  MaxFaults = 0
CHECK_DEADLOCK FALSE
PROPERTIES BackstopReclaims
