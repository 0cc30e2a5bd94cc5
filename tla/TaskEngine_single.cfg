SPECIFICATION FairSpec
CONSTANTS
    a = a
    b = b
    c = c
    p1 = p1
    p2 = p2
    x1 = x1
    x2 = x2
    Tasks = {a, b, c}
    Deps <- JoinDeps
    Safe = {a, b}
    Research = {c}
    Agents = {x1, x2}
    FirstAgent = x1
    Procs = {p1}
    Primary = p1
    PoolSize = 2
    MaxRetries = 1
    MaxStarts = 1
    MaxToggles = 2
    MaxApprovals = 2
    Cancellable = FALSE
INVARIANTS
    FailurePropagates
PROPERTIES
    CompletedIsFinal
    CompletionIsEarned
    LoopReturns
CHECK_DEADLOCK FALSE
