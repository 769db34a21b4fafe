SPECIFICATION FairSpec
CONSTANTS
    Nobody = Nobody
    Workers = {w1, w2}
    Producers = {p1, p2}
    PyProducers = {p1}
    GilEnabled = TRUE
    MaxTotal = 1
    MaxBatch = 1
    Wrap = 16
PROPERTY AcceptedTaskRuns
CHECK_DEADLOCK FALSE
