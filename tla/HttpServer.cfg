SPECIFICATION MCSpec
CONSTANTS
    c1 = c1
    c2 = c2
    c3 = c3
    p1 = p1
    p2 = p2
    Servers <- MCServers
    Conns = {c1, c2, c3}
    Plugins = {p1, p2}
    MaxConnections = 2
    MaxRequests = 3
    MaxIn = 2
    MaxOut = 2
INVARIANTS
    ServerIsSound
    StreamsInOrder
PROPERTIES
    ShutdownTerminates
    EndsReachTheOtherSide
CHECK_DEADLOCK FALSE
