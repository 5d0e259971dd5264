SPECIFICATION Spec
CONSTANTS
  Session = {s1}
  NoSession = NoSession
  Task = {t1, t2}
  NoTask = NoTask
  MaxWorkers = 2
  MinWorkers = 1
  IdleReap = TRUE
  SpawnMayFail = TRUE
  ServerStops = FALSE
  MaxSpawns = 3
  MaxGeneration = 2
  MaxInFlight = 2
  MaxDrops = 0
SYMMETRY Interchangeable
INVARIANT BoundCallOnItsLease
CHECK_DEADLOCK FALSE
