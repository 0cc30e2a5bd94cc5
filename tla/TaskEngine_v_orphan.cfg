SPECIFICATION Spec
CONSTANTS
    a = a
    b = b
    c = c
    p1 = p1
    p2 = p2
    x1 = x1
    x2 = x2
    Tasks = {a, b}
    Deps <- PairDeps
    Safe = {a}
    Research = {}
    Agents = {x1}
    FirstAgent = x1
    Procs = {p1}
    Primary = p1
    PoolSize = 2
    MaxRetries = 1
    MaxStarts = 0
    MaxToggles = 0
    MaxApprovals = 0
    Cancellable = FALSE
PROPERTIES
    FailedIsFinal
CHECK_DEADLOCK FALSE
