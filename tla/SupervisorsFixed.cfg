SPECIFICATION MCSpec
CONSTANTS
    Parts = {"prefork"}
    Count = 2
    MinWorkers = 1
    MaxWorkers = 4
    Step = 1
    Loads = {"low"}
    MaxSpawns = 3
INVARIANT FleetStaysFixed
CHECK_DEADLOCK FALSE
