CONSTANTS
    v1 = v1
    v2 = v2
    v3 = v3
    v4 = v4
    Validators = {v1, v2, v3, v4}
    Order <- MCOrder4
    Stake <- MCStakeOne
    Links <- MCHalves
    MaxBlocks = 2
    MaxView = 2
SPECIFICATION Spec
INVARIANT
    Agreement
CHECK_DEADLOCK FALSE
