SPECIFICATION Spec
CONSTANTS
  Session = {s1, s2}
  NoSession = NoSession
  Task = {t1, t2}
  NoTask = NoTask
  MaxWorkers = 1
  MinWorkers = 0
  IdleReap = TRUE
  SpawnMayFail = TRUE
  ServerStops = FALSE
  MaxSpawns = 2
  MaxGeneration = 2
  MaxInFlight = 2
  MaxDrops = 1
SYMMETRY Interchangeable
INVARIANT Capacity
INVARIANT HandleOwnsSlot
INVARIANT DispatchIsolated
INVARIANT ProcessHasOwner
INVARIANT ReservationHasOwner
PROPERTY LeaseKeepsOwner
CHECK_DEADLOCK FALSE
