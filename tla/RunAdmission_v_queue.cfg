SPECIFICATION FairSpec
CONSTANTS
    r1 = r1
    r2 = r2
    r3 = r3
    p1 = p1
    Runs = {r1, r2}
    Procs = {p1}
    Primary = p1
    Cap = 1
    MaxAttempts = 2
    MaxRequests = 1
    MaxStarts = 0
    Cancellable = FALSE
PROPERTIES
    QueuedRunStarts
CHECK_DEADLOCK FALSE
