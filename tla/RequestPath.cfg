SPECIFICATION Spec
CONSTANTS
    Clients = {c1}
    Inputs <- MCInputs
    Palette <- MCMiddleware
    CustomRoutes <- MCCustomRoutes
    Mounts <- MCMounts
    CacheCapacity = 1
    Buckets <- MCBuckets
    Burst = 1
    FirstTable <- MCFirstTable
    DirFiles <- MCDirFiles
    Edits <- MCEdits
    MaxCalls = 3
    MaxRequests = 2
    MaxRefills = 1
    MaxActs = 6
INVARIANT PathIsSound
PROPERTIES
    EveryRequestAnswered
    GatewayConverges
CHECK_DEADLOCK FALSE
