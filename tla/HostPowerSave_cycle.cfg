SPECIFICATION FairSpec
CONSTANTS
    t1 = t1
    t2 = t2
    Tasks = {t1, t2}
    MaxPackets = 2
    MaxSleeps = 2
    MaxLost = 1
INVARIANTS
    PowerTypeOK
    TokenTellsAwake
PROPERTIES
    RunningHostStays
    WaiterReleased
    HostConnects
CHECK_DEADLOCK FALSE
