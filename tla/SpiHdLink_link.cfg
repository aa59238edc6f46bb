SPECIFICATION FairSpec
CONSTANTS
    HostSerial = 0
    HostOthers = 3
    SlaveSerial = 0
    SlaveOthers = 1
    HostMax <- MCHostMax
    SlaveMax <- MCSlaveMax
    ToSlaveSize = 2
    FromSlaveSize = 1
    QueueSize = 2
    TxMod = 3
    RxMod = 3
    Retries = 2
    ThrottleHigh = 40
    ThrottleLow = 30
INVARIANTS
    TypeOK
    RegistersTrue
    FlowTold
PROPERTIES
    LinkOrdered
    LinkDrains
CHECK_DEADLOCK FALSE
