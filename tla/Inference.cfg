SPECIFICATION InfSpec
CONSTANTS
    BlockSize = 2
    Prompts <- MCPrompts
    Queries <- MCQueries
    MaxClock = 4
    MaxBlocks = 6
INVARIANTS
    OnePoolOneOwner
    RoutingIsFaithful
    StreamsAreWhole
    ResponsesAreExact
PROPERTIES
    CacheIsExact
    PoolIsSound
    RequestsFinish
    TableFollowsCluster
    StreamsEnd
    CompletionEnds
\* Requests, calls and clocks are bounded.
CHECK_DEADLOCK FALSE
