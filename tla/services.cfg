SPECIFICATION Spec
SYMMETRY KeySymmetry
CONSTANTS
    RateKeys = {k1, k2, k3}
    None = None
    MaxRestarts = 1
    RestartWindow = 6
    Backoff = 1
    MaxBackoff = 2
    SupervisorTime = 15
    Receivers = {ida, joe, kim}
    Asyncs = {joe, kim}
    Filtered = {ida}
    MaxSends = 1
    Callers = {ida, joe}
    CacheKeys = {1, 2, 3}
    MaxEntries = 2
    Ttl = 2
    MaxNow = 3
    Items = 3
    MaxPings = 2
    Peers = {ida}
    StreamIds = {1, 2}
    MaxOpened = 2
    MaxWalks = 1
    RedisWorkers = {ida, joe, kim}
    Budget = 3
    WatchRetries = 2
    MaxCalls = 5
    Files = {ida}
    MaxEdits = 4
    MaxSpawns = 2
    MtimeSteps = {1}
    SlowBoot = TRUE
    MaxSignals = 1
    NMsg = 3
    MaxDeps = 2
    MaxDepth = 2
    MaxRounds = 1
    MaxAsks = 1
    AskAfterEof = FALSE
    TestUsers = {ida, joe, kim}
    SyncUsers = {kim}
    MaxChunks = 2
    Links = {ida, joe, kim}
    OwnLinks = {ida}
    BodyLen = 3
    BodyLimits = {1, 2, 3}
    Readers = {ida, joe, kim}
    Chunks <- ThreeChunks
    ReadLimits = {2, 3}
    Modes = {"in turn", "together", "streaming"}
    Clients = {ida, joe}
    Refreshing = {ida, joe}
    Codes = {codeA, codeB}
    TokenCalls = {callA, callB}
    MaxTokens = 3
    Stores = {TRUE, FALSE}
CHECK_DEADLOCK FALSE
INVARIANTS AdmittedWithinLimits TripsOnTightLoopsOnly DeliveriesReachAll
    SharedBudgetHolds CacheKeepsItsBounds ServesWhatIsThere
    CallsKeepTheirPlace HarnessLeavesNoTrace BodiesAreWhole GrantsEnd
