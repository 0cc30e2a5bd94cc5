SPECIFICATION Spec
CONSTANTS
    s1 = s1
    j1 = j1
    j2 = j2
    d1 = d1
    d2 = d2
    Suggestions = {s1}
    Jobs = {j1, j2}
    Deciders = {d1, d2}
    MaxRegenRetries = 2
    MaxVersions = 2
    MaxRequests = 2
    MaxInFlight = 2
    u1 = u1
    u2 = u2
    Puts = {u1, u2}
    MaxRuns = 2
    MaxEdits = 2
    BtJobs = {"j1", "j2", "j3"}
    NoisyJobs = {"j2"}
    Workers = {"w1", "w2"}
    PoolSize = 1
    MaxJobsPerWorker = 2
    Updates = {"u1", "u2"}
    Routable = {"u1"}
    WebMessages = {"web"}
    h1 = h1
    h2 = h2
    Handlers = {h1, h2}
    ChatLimit = 1
    ApiLimit = 1
    MaxDeliveries = 3
INVARIANTS
    PaperTradingIsApproved
    PoolHolds
    PutBeforeAgentOnce
PROPERTIES
    SuggestionsResolve
    SchedulerHolds
    BacktestsEnd
    RepliesResolve
CHECK_DEADLOCK FALSE
