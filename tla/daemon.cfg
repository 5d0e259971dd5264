SPECIFICATION FairSpec
CONSTANTS
    NRouters = 2
    NConns = 2
    LoadRequest <- MCLoadRequest
    None = None
    StaleFile = StaleFile
    MaxTargets = 2
    QueueCapacity = 1
    MaxRequests = 3
    MaxOverlap = 1
    MaxFaults = 1
 
INVARIANT OpenTwiceOnlyWhileStopping
INVARIANT WorkerHasOwner
 
 
PROPERTY RequestEnds
CHECK_DEADLOCK FALSE
