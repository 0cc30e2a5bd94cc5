SPECIFICATION Spec
CONSTANTS
    s1 = s1
    r1 = r1
    Signals = {s1}
    Requests = {}
    FailureThreshold = 3
    MaxRetries = 3
    MaxPolls = 1
    MaxTrips = 1
    MaxCancels = 1
    MaxRestarts = 0
INVARIANTS
    NoDuplicatePlacement
