SPECIFICATION FairSpec
CONSTANTS
    s1 = s1
    s2 = s2
    s3 = s3
    s4 = s4
    a1 = a1
    a2 = a2
    NoReq = NoReq
    SyncReqs = {s1, s2}
    AsyncReqs = {a1, a2}
    NumTasks = 1
    MaxSync = 1
    MaxAsync = 1
    TxQSize = 1
    RxQSize = 1
    TxSemMax = 2
    UidMod = 4
    MayTimeout = {s1, s2, a1}
    MayFail = {s1, a1}
    MayStarve = {s1, a2}
    MayDrop = {a1}
INVARIANTS
    TypeOK
    WokenFindsElement
    SlotsBelongToOpenCalls
    StrayResponseExplained
PROPERTIES
    EveryRequestEnds
CHECK_DEADLOCK FALSE
