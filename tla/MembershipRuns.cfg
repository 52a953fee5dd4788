SPECIFICATION FairSpec
CONSTANTS
    Node = {n1, n2, n3}
    PromptBeats = FALSE
INVARIANT
    TypeOK
PROPERTIES
    RunningNodeRejoins
    DeadNodeEvicted
