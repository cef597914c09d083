CONSTANTS
    k1 = k1
    k2 = k2
    c1 = c1
    c2 = c2
    Keys = {k1, k2}
    Clients = {c1, c2}
    KeysOf <- MCKeyEach
    Tombstone = Tombstone
    Absent = Absent
    Garbled = Garbled
    Binary = {}
    HashBits <- MCHashBits
    MemtableSize = 2
    CompactionThreshold = 2
    MergeWidth = 5
    Faults = {"crash"}
    MaxPuts = 3
    MaxSegments = 4
SPECIFICATION Spec
INVARIANT
    Durability
CHECK_DEADLOCK FALSE
