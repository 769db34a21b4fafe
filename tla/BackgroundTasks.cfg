SPECIFICATION FairSpec
CONSTANTS
    Nobody = Nobody
    Workers = {w1, w2}
    Producers = {p1, p2}
    PyProducers = {p1}
    GilEnabled = FALSE
    MaxTotal = 1
    MaxBatch = 2
    Wrap = 16
INVARIANT QueueIsSound
PROPERTY AcceptedTaskRuns
CHECK_DEADLOCK FALSE
