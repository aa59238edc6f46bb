SPECIFICATION FairSpec
CONSTANTS
    MaxRequests = 3
    MaxEvents = 2
    ReqFrags = 3
    RspFrags = 2
    EvtFrags = 2
    Frags <- MCFrags
    BufferSize = 3
    ReqQSize = 2
    SerialQSize = 2
    ReadMax = 2
INVARIANTS
    TypeOK
    NoOverrun
    MessagesIntact
PROPERTIES
    EveryMessageArrives
CHECK_DEADLOCK FALSE
