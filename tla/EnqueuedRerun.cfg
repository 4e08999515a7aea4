SPECIFICATION Spec
CONSTANTS
    n1 = n1
    n2 = n2
    r1 = r1
    r2 = r2
    e1 = e1
    e2 = e2
    None = None
    Calls = {n1, n2, r1}
    Executions = {e1, e2}
    NewCalls = {n1, n2}
    MayWait = {e1}
    MayMerge = {}
    MayStop = {}
    MayShutDown = TRUE
    ExecutionOf <- MCExecutionOf
    ModeOf <- MCModeOf
    ConfiguredLimit <- MCLimit
INVARIANT EnqueuedAreRerun
