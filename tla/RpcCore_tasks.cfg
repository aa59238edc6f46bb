SPECIFICATION Spec
CONSTANTS
    s1 = s1
    s2 = s2
    s3 = s3
    s4 = s4
    a1 = a1
    a2 = a2
    NoReq = NoReq
    SyncReqs = {s1, s2, s3}
    AsyncReqs = {}
    NumTasks = 3
    MaxSync = 2
    MaxAsync = 1
    TxQSize = 2
    RxQSize = 1
    TxSemMax = 2
    UidMod = 8
    MayTimeout = {}
    MayFail = {}
    MayStarve = {}
    MayDrop = {}
SYMMETRY SyncSymmetry
INVARIANTS
    TxAccounting
    OneOwner
CHECK_DEADLOCK FALSE
