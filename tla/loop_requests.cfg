SPECIFICATION FairSpec
CONSTANTS
  Client = {c1, c2}
  NoClient = NoClient
  Path = {p1, p2}
  NoPath = NoPath
  QueueCapacity = 1
  MaxGeneration = 2
  Startup = {"deferred", "ready", "mismatch"}
INVARIANT OneRequestPerWait
PROPERTY NobodyOpensForTheDead
PROPERTY BoundCallOnItsLifetime
PROPERTY ImplementsLifetimes
PROPERTY Answered
CHECK_DEADLOCK FALSE
