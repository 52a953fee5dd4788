SPECIFICATION FairSpec
CONSTANTS
    File = {f1}
    Node = {n1, n2}
    None = None
    Putter = {p1, p2}
    Reporter = {r1}
    MaxChunks = 2
INVARIANTS
    TypeOK
    CountTracksCopies
PROPERTIES
    CommitMissesEmptied
    DeletedStaysDeleted
    AbandonedUploadEnds
