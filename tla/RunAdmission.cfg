SPECIFICATION Spec
CONSTANTS
    r1 = r1
    r2 = r2
    r3 = r3
    p1 = p1
    Runs = {r1, r2, r3}
    Procs = {p1}
    Primary = p1
    Cap = 1
    MaxAttempts = 2
    MaxRequests = 2
    MaxStarts = 1
    Cancellable = TRUE
SYMMETRY Interchangeable
INVARIANTS
    PlanBeforeRun
    PlanningIsDriven
    OvershootIsBounded
PROPERTIES
    OldestFirst
CHECK_DEADLOCK FALSE
