\* Two clients of one IDA thread, started in each way of MCSetups.  The queue
\* holds 2 requests so that it fills; a pooled session has at most 2 streams.
CONSTANTS
    Sessions = {"s1", "s2"}
    Setups <- MCSetups
    QueueCapacity = 2
    MaxStreams = 2
SPECIFICATION Spec
\* Clients may fall silent, and the process may have exited.
CHECK_DEADLOCK FALSE
INVARIANT ActiveOperationRuns
INVARIANT LeaseHasDatabase
INVARIANT UnsuccessfulDscLeavesNothingOpen
 
INVARIANT ReadOnlyNeverWrites
INVARIANT RequestIsWhatWasAsked
PROPERTY ReconnectKeepsSession
 
PROPERTY AbandonedSessionCloses
 
 
