SPECIFICATION FairSpec
CONSTANTS
    HostSerial = 0
    HostOthers = 2
    SlaveSerial = 1
    SlaveOthers = 2
    HostMax <- MCHostMax
    SlaveMax <- MCSlaveMax
    PayloadUnits = 1
    DriverBuffer = 3
    Leftover = 2
    ToSlaveSize = 2
    FromSlaveSize = 1
    RxQueueSize = 1
INVARIANTS
    TypeOK
    InStep
PROPERTIES
    LinkOrdered
    EveryPacketArrives
CHECK_DEADLOCK FALSE
