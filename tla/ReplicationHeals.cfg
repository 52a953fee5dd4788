SPECIFICATION FairSpec
CONSTANTS
    Node = {n1, n2, n3}
    None = None
    Worker = {w1}
    ReplicationFactor = 3
    MaxFaults = 2
    MaxRepairs = 1
INVARIANTS
    TypeOK
    NoneLeftShort
PROPERTY Heals
CHECK_DEADLOCK FALSE
