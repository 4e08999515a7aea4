SPECIFICATION FairSpec
CONSTANTS
    t = t
    a = a
    b = b
    c = c
    d = d
    j = j
    k = k
    None = None
    Nodes = {t, a, b, c, d, j, k}
    Workflows <- AllWorkflows
    MaxRestarts = 2
INVARIANTS
    EveryPacketOnce
    LeftWaitingLacksInput
    ReportedOnce
    OnlySharedInputsRepeat
PROPERTIES
    MissingDataNeverComes
    ExecutionEnds
CHECK_DEADLOCK FALSE
