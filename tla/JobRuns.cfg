SPECIFICATION FairSpec
CONSTANTS
    w1 = w1
    w2 = w2
    t1 = t1
    t2 = t2
    Task <- MCTask
    Reducer = {r1}
    Worker <- MCWorker
    Hosts <- MCHosts
    None = None
    Limit = 3
    Clash <- OneClash
    Local <- Prefix
    Kinds = {"stop", "cut", "disk"}
    MaxFaults = 1
INVARIANTS TypeOK ReportedDataKept  RetriesAreSafe
PROPERTY JobEnds
CHECK_DEADLOCK FALSE
