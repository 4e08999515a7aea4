SPECIFICATION FairSpec
CONSTANTS
    c1 = c1
    c2 = c2
    c3 = c3
    Calls = {c1, c2, c3}
    Timeout = 2
    MaxFailures = 2
    HalfOpenRequests = 2
    FailureWindow = 3
    MaxConcurrentHalfOpenRequests = 2
INVARIANTS
    HalfOpenBound
    ClosedBelowThreshold
PROPERTIES
    ClosesInTheEnd
