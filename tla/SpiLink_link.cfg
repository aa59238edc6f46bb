SPECIFICATION FairSpec
CONSTANTS
    HostSerial = 1
    HostOthers = 0
    SlaveSerial = 0
    SlaveOthers = 2
    HostMax <- MCHostMax
    SlaveMax <- MCSlaveMax
    MaxStartups = 1
    SendEarly = FALSE
    MaxMissed = 1
    ToSlaveSize = 1
    FromSlaveSize = 1
    SpiTxSize = 2
    SpiRxSize = 1
    SpiQueueSize = 3
    ThrottleHigh = 80
    ThrottleLow = 60
INVARIANTS
    TypeOK
    CountsMatch
    EmptyTransferExplained
PROPERTIES
    LinkOrdered
    EveryHostPacketArrives
CHECK_DEADLOCK FALSE
