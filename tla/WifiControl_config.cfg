SPECIFICATION Spec
CONSTANTS
    a = a
    b = b
    Configs = {a, b}
    NoConfig = NoConfig
    Stored = {NoConfig, a}
    TwoCores = FALSE
    ReqQSize = 10
    MaxActs = 4
INVARIANTS
    ConfigKept
CHECK_DEADLOCK FALSE
