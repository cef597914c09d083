CONSTANTS
    c1 = c1
    c2 = c2
    c3 = c3
    Calls = {c1, c2, c3}
    failureThreshold = 2
    successThreshold = 2
    halfOpenMaxCalls = 3
    maxAttempts = 2
    MaxFailures = 6
    MaxHandlers = 2
SPECIFICATION FairShutdownSpec
INVARIANTS
    ClosedBelowThreshold
    ExitsDrained
PROPERTIES
    RecoversOrEnds
    
CHECK_DEADLOCK FALSE
