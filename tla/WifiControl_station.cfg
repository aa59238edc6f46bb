SPECIFICATION Spec
CONSTANTS
    a = a
    b = b
    Configs = {a, b}
    NoConfig = NoConfig
    Stored = {NoConfig, a}
    TwoCores = TRUE
    ReqQSize = 10
    MaxActs = 4
INVARIANTS
    TypeOK
    SettledAgree
    HostToldOfLoss
CHECK_DEADLOCK FALSE
