CONSTANTS
    p1 = p1
    p2 = p2
    Nodes = {p1, p2}
    quorumSize = 2
    maxHistory = 2
    minStdDevMs = 1
    Deviations = 1
    MaxTime = 9
SPECIFICATION Spec
INVARIANTS
    DeadAreSuspected
    PunctualAreLive
    QuorumLossNoticed
CHECK_DEADLOCK FALSE
