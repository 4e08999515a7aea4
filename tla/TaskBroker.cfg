SPECIFICATION Spec
CONSTANTS
    q1 = q1
    q2 = q2
    w1 = w1
    w2 = w2
    l1 = l1
    None = None
    Requests = {q1, q2}
    Runners = {w1}
    Launchers = {}
    RequestType <- OneRequestType
    RunnerType <- OneRunnerType
    maxConcurrency = 2
    MaxOffers = 3
    InternalMode = TRUE
INVARIANTS
    OffersCanBeHonoured
    NoOrphanTask
    SettingsAreExpected
CHECK_DEADLOCK FALSE
