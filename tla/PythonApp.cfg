SPECIFICATION Spec
CONSTANTS
    Plugins <- MCPlugins
    Preludes <- MCPreludes
    Calls <- MCCalls
    MaxCalls = 1
    MaxRuns = 2
    Jwt <- MCJwt
    CorsMw <- MCCors
    Clients <- MCClients
    Inputs <- MCInputs
    MaxRequests <- MCMaxRequests
    Probes <- MCProbes
    Returned <- MCReturned
    Awaited <- MCAwaited
    Hangs <- MCHangs
    MaxRoutes = 4
    GilCapacity = 1
    MaxBatch = 2
    Rows <- MCRows
INVARIANT ApplicationIsSound
PROPERTY ServedDespiteHanging
CHECK_DEADLOCK FALSE
