SPECIFICATION FairSpec
CONSTANTS
    s1 = s1
    r1 = r1
    Signals = {s1}
    Requests = {r1}
    FailureThreshold = 2
    MaxRetries = 2
    MaxPolls = 1
    MaxTrips = 1
    MaxCancels = 1
    MaxRestarts = 1
INVARIANTS
    CircuitMatchesFailures
    TerminalRowIsTrue
PROPERTIES
    NeverRepeatsAKnownOrder
    CallsSettle
