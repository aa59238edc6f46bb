SPECIFICATION FairSpec
CONSTANTS
    HostSerial = 0
    HostOthers = 3
    SlaveSerial = 0
    SlaveOthers = 2
    HostMax <- MCHostMax
    SlaveMax <- MCSlaveMax
    ToSlaveSize = 2
    FromSlaveSize = 2
    SendQueueSize = 2
    RxBuffers = 2
    TxMod = 3
    RxMod = 3
    Retries = 2
    ThrottleHigh = 40
    ThrottleLow = 30
INVARIANTS
    TypeOK
    CountsMatch
    CountersTrue
    BuffersSeparate
PROPERTIES
    LinkOrdered
    LinkDrains
CHECK_DEADLOCK FALSE
