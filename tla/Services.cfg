SPECIFICATION SvcSpec
CONSTANTS
    Requests = {"r1", "r2", "r3", "r4"}
    FailureThreshold = 2
    SuccessThreshold = 2
    HalfOpenMax = 1
    Clients = {"c1", "c2", "c3"}
    PathOf <- MCPathOf
    Fallbacks <- MCFallbacks
    Default = {}
    MaxConcurrent = 2
    MaxBreakers = 1
    Chaos <- MCChaos
    Processes = {"p", "q"}
    Directories <- MCDirectories
    Strict = {1}
    Scripted = {2}
    MaxCalls = 4
    MaxCrashes = 1
INVARIANTS
    CallsAreSound
    MigrationsAreSound
    EndpointsAreExact
    RefusalsAreEarned
PROPERTIES
    OpensAfterConsecutiveFailures
    HalfOpenEnds
    PoliciesHold
    CallersAreAnswered
\* Requests, calls, edits and probes are bounded.
CHECK_DEADLOCK FALSE
