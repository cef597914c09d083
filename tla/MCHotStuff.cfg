CONSTANTS
    v1 = v1
    v2 = v2
    v3 = v3
    v4 = v4
    Validators = {v1, v2}
    Order <- MCOrder2
    Stake <- MCStakeThree
    Links <- MCAllLinks
    MaxBlocks = 2
    MaxView = 3
SPECIFICATION Spec
INVARIANTS
    PhasesInOrder
    CommitsCertified
    LocksCertified
    ParentsCertified
    NoHeightGaps
CHECK_DEADLOCK FALSE
