CONSTANTS
    a = a
    b = b
    c = c
    Ids = {a, b, c}
    Events <- MCEvents
    Needs <- MCNeeds
    Subscribers = {s1, s2}
    NoState = NoState
    NoEvent = NoEvent
    MaxDepth = 6
SYMMETRY SubscriberSymmetry
SPECIFICATION Spec
INVARIANTS
    NoMutualAncestors
    GraphMatchesStore
    ReplayVerified
    ObserversCurrent
    SortFailsOnlyOnSelfEdges
    IndexIsAncestry
PROPERTIES
    ImportRoundTrip
    LogSpec
