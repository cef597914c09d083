CONSTANTS
    a = a
    b = b
    c = c
    n1 = n1
    n2 = n2
    Ids = {a, b, c}
    Nodes = {n1, n2}
    Events <- MCEvents
    Needs <- MCNeeds
    Timestamp <- MCTimestamp
    Rank <- MCRank
    NoEvent = NoEvent
    NeverSynced = NeverSynced
    MaxInFlight = 1
SPECIFICATION FairSpec
INVARIANTS
    
    
    MergesConverge
PROPERTIES
    StoresConverge
