SPECIFICATION Spec
CONSTANTS
    w1 = w1
    w2 = w2
    t1 = t1
    t2 = t2
    Task <- MCTask
    Reducer = {r1}
    Worker <- MCWorker
    Hosts <- MCHosts
    None = None
    Limit = 3
    Clash <- NoClash
    Local <- Distinct
    Kinds = {"stop"}
    MaxFaults = 1
INVARIANT SuccessIsWhole
CHECK_DEADLOCK FALSE
