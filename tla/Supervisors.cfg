SPECIFICATION MCSpec
CONSTANTS
    Parts = {"prefork", "fleet", "jobs", "graph"}
    Count = 2
    MinWorkers = 1
    MaxWorkers = 3
    Step = 2
    Loads = {"low", "mid", "high"}
    MaxSpawns = 4
PROPERTIES
    FleetIsBooked
    FleetIsKept
    ShutdownReturns
    FleetConverges
    TasksAreSound
    FiresUnlessDeadlocked
    OutcomeIsDetermined
CHECK_DEADLOCK FALSE
