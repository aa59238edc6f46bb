SPECIFICATION Spec
CONSTANTS
    s1 = s1
    s2 = s2
    s3 = s3
    s4 = s4
    a1 = a1
    a2 = a2
    NoReq = NoReq
    SyncReqs = {s1, s2}
    AsyncReqs = {}
    NumTasks = 1
    MaxSync = 5
    MaxAsync = 5
    TxQSize = 5
    RxQSize = 3
    TxSemMax = 10
    UidMod = 8
    MayTimeout = {s1}
    MayFail = {}
    MayStarve = {}
    MayDrop = {}
INVARIANTS
    ResponseMatchesRequest
CHECK_DEADLOCK FALSE
