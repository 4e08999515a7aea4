SPECIFICATION FairSpec
CONSTANTS
    q1 = q1
    q2 = q2
    w1 = w1
    w2 = w2
    l1 = l1
    None = None
    Requests = {q1}
    Runners = {w1, l1}
    Launchers = {l1}
    RequestType <- OneRequestType
    RunnerType <- OneRunnerType
    maxConcurrency = 1
    MaxOffers = 1
    InternalMode = FALSE
INVARIANTS
    OnlyAwaitedTasksRun
    OneMatchPerRequest
PROPERTIES
    StartTaskSettles
    RunnerSlotsComeBack
CHECK_DEADLOCK FALSE
