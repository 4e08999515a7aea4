SPECIFICATION FairSpec
CONSTANTS
    n1 = n1
    n2 = n2
    r1 = r1
    r2 = r2
    e1 = e1
    e2 = e2
    None = None
    Calls = {n1, r1, r2}
    Executions = {e1}
    NewCalls = {n1}
    MayWait = {e1}
    MayMerge = {e1}
    MayStop = {e1}
    MayShutDown = TRUE
    ExecutionOf <- MCExecutionOf
    ModeOf <- MCModeOf
    ConfiguredLimit <- MCLimit
INVARIANTS
    SlotAndEntryFollowPromise
    WaitingIsAtRest
    OneEngine
    OnlyWaitingRunsAreForgotten
PROPERTIES
    OnlyWaitersSettleOthers
    SlotsComeBack
