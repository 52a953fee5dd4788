SPECIFICATION FairSpec
CONSTANTS
    Node = {n1, n2}
    Me = Me
    NoFile = NoFile
    Data <- MCData
    Bad = 9
    Role <- AllRoles
    Full = TRUE
    MaxBreaks = 1
    MaxDisturb = 2
INVARIANTS
    TypeOK
    Framed
    Delivered
    NothingPartial
    StoredOnce
PROPERTY
    ExchangeEnds
CHECK_DEADLOCK FALSE
