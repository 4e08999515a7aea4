SPECIFICATION FairSpec
CONSTANTS
    m1 = m1
    m2 = m2
    w1 = w1
    w2 = w2
    e1 = e1
    NoJob = NoJob
    Mains = {m1, m2}
    Workers = {w1, w2}
    Executions = {e1}
INVARIANTS
    RunAtMostOnce
    CompletedIsSaved
PROPERTIES
    EveryExecutionEnds
    EntryIsRemoved
