SPECIFICATION FairSpec
CONSTANTS
    HostSerial = 0
    HostOthers = 0
    SlaveSerial = 0
    SlaveOthers = 2
    HostMax <- MCHostMax
    SlaveMax <- MCSlaveMax
    MaxStartups = 1
    SendEarly = FALSE
    MaxMissed = 0
    ToSlaveSize = 1
    FromSlaveSize = 1
    SpiTxSize = 2
    SpiRxSize = 1
    SpiQueueSize = 3
    ThrottleHigh = 80
    ThrottleLow = 60
PROPERTIES
    EverySlavePacketArrives
CHECK_DEADLOCK FALSE
