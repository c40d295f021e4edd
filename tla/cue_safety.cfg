SPECIFICATION Spec
CONSTANTS
  a = a
  b = b
  c = c
  s = s
  n1 = n1
  n2 = n2
  Spawn = Spawn
  Absent = Absent
  None = None
  NoKey = ""
  Tasks = {a, b, c}
  Sessions = {s, n1, n2}
  SpawnIds = {n1, n2}
  Statuses = {"idle", "running", "failed"}
  Target <- MCTarget
  Deps <- MCDeps
  Rank <- MCRank
  DedupeKey <- MCDedupeKey
  PerSession = 1
  Global = 0
  MaxSpawns = 1
  DryRuns = {TRUE, FALSE}
  MaxPerHour = 2
  TTL = TRUE
  MaxFaults = 1
CHECK_DEADLOCK FALSE
INVARIANTS TypeOK DepsDoneFirst CapsHold DeliveredOnce DoneWasWorked HourlyCap
PROPERTIES KeepsPromise
SYMMETRY SpawnSymmetry
