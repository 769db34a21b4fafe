SPECIFICATION FairSpec
CONSTANTS
    Capacity = 4
    BlockSize = 2
    MaxNumSeqs = 2
    MaxBatchedTokens = 3
    MaxSeqLen = 8
    ChunkSize = 4
    Kinds <- MCKinds
    MaxRequests = 4
    MaxClock = 14
INVARIANT ScheduleIsSound
PROPERTY SequencesFinish
CHECK_DEADLOCK FALSE
