SPECIFICATION FairSpec
CONSTANTS
    m1 = m1
    m2 = m2
    e1 = e1
    NoEntry = NoEntry
    Mains = {m1, m2}
    Executions = {e1}
    Merged = {}
    MaxWaits = 1
    Stoppable = {m1}
    WebhookMains = {m2}
    StopMains = {m2}
INVARIANT
    OneResumptionPerWait
PROPERTY
    TrackedIsResumed
