SPECIFICATION FairSpec
CONSTANTS
  Client = {c1}
  NoClient = NoClient
  Path = {p1}
  NoPath = NoPath
  QueueCapacity = 1
  MaxGeneration = 1
  Startup = {"deferred"}
PROPERTY ShutdownEndsLoop
CHECK_DEADLOCK FALSE
