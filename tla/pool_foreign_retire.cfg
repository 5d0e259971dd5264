SPECIFICATION Spec
CONSTANTS
  Session = {s1, s2}
  NoSession = NoSession
  Task = {t1, t2}
  NoTask = NoTask
  MaxWorkers = 2
  MinWorkers = 1
  IdleReap = TRUE
  SpawnMayFail = TRUE
  ServerStops = FALSE
  MaxSpawns = 3
  MaxGeneration = 1
  MaxInFlight = 2
  MaxDrops = 1
SYMMETRY Interchangeable
INVARIANT RetireTargetsOwnLease
CHECK_DEADLOCK FALSE
