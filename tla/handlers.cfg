SPECIFICATION Spec
CONSTANTS
    Bytes <- MCBytes
    ChunkSize = 2
    MaxLimit = 3
    Requests <- MCRequests
INVARIANT FindBytesComplete
INVARIANT CallgraphIsNeighbourhood
INVARIANT PagesPartitionListing
CHECK_DEADLOCK FALSE
