SPECIFICATION FairSpec
CONSTANTS
    m1 = m1
    m2 = m2
    None = None
    Mains = {m1, m2}
    TTL = 2
    MaxPipeline = 2
    Stoppable = {m1}
INVARIANTS
    TimelyLeaderHoldsKey
PROPERTIES
    ImplementsLeadership
    OneLeaderInTheEnd
