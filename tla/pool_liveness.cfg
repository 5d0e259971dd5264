SPECIFICATION FairSpec
CONSTANTS
  Session = {s1}
  NoSession = NoSession
  Task = {t1, t2}
  NoTask = NoTask
  MaxWorkers = 1
  MinWorkers = 1
  IdleReap = FALSE
  SpawnMayFail = TRUE
  ServerStops = TRUE
  MaxSpawns = 4
  MaxGeneration = 1
  MaxInFlight = 2
  MaxDrops = 1
PROPERTY DroppedSessionReleases
PROPERTY ShutdownStopsChildren
 
CHECK_DEADLOCK FALSE
