CONSTANTS
    Nodes = {n1, n2, n3}
    MaxPeers = 1
    MaxConns = 4
SPECIFICATION Spec
SYMMETRY Symmetry
INVARIANTS
    OnlyReplacedLost
PROPERTIES
    GlareSticks
CHECK_DEADLOCK FALSE
