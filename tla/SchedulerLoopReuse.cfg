SPECIFICATION Spec
CONSTANTS
    Capacity = 4
    BlockSize = 2
    MaxNumSeqs = 2
    MaxBatchedTokens = 4
    MaxSeqLen = 8
    ChunkSize = 4
    Kinds <- MCKindsReuse
    MaxRequests = 3
    MaxClock = 10
INVARIANT ReuseIsExclusive
CHECK_DEADLOCK FALSE
