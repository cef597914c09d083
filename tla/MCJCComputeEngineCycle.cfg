CONSTANTS
    a = a
    b = b
    c = c
    Ids = {a, b, c}
    Events <- MCEvents
    Needs <- MCNeeds
    Subscribers = {s1}
    NoState = NoState
    NoEvent = NoEvent
    MaxDepth = 3
SPECIFICATION Spec
INVARIANT
    CyclesRejected
