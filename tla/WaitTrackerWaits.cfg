SPECIFICATION Spec
CONSTANTS
    m1 = m1
    m2 = m2
    e1 = e1
    NoEntry = NoEntry
    Mains = {m1}
    Executions = {e1}
    Merged = {e1}
    MaxWaits = 2
    Stoppable = {}
    WebhookMains = {}
    StopMains = {m1}
INVARIANT
    OneResumptionPerWait
PROPERTY
    EndedStaysEnded
