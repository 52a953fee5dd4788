SPECIFICATION Spec
CONSTANTS
    Node = {n1, n2}
    Chunk = {c1, c2}
    Upload = {u1, u2}
    None = None
    ReplicationFactor = 2
    MaxTask = 1
    MaxFail = 1
SYMMETRY Symmetry
CONSTRAINT NothingExcepted
INVARIANTS
    TypeOK
    ListsTrue
    GetExact
    CompleteCommits
CHECK_DEADLOCK FALSE
