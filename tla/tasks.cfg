SPECIFICATION Spec
CONSTANTS
  Session = {s1}
  Runtime = Runtime
  Key = {k1, k2, k3}
  NoKey = NoKey
  MaxEntries = 2
  Ttl = 2
  MaxTasks = 3
  MaxClock = 2
SYMMETRY Symmetry
INVARIANT OneRunningPerKey
INVARIANT CancelReachesJob
PROPERTY EvictsOnlyOldest
PROPERTY ImplementsLifecycle
CHECK_DEADLOCK FALSE
