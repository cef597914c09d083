CONSTANTS
    k1 = k1
    k2 = k2
    c1 = c1
    c2 = c2
    Keys = {k1, k2}
    Clients = {c1}
    KeysOf <- MCOneCaller
    Tombstone = Tombstone
    Absent = Absent
    Garbled = Garbled
    Binary = {2}
    HashBits <- MCHashBits
    MemtableSize = 2
    CompactionThreshold = 2
    MergeWidth = 2
    Faults = {"crash", "write", "unlink"}
    MaxPuts = 3
    MaxSegments = 4
SPECIFICATION Spec
INVARIANTS
    TypeOK
    ReadsLatest
    DiskHoldsLatest
CHECK_DEADLOCK FALSE
