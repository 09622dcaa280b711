SPECIFICATION FairSpec
CONSTANTS
    SecMax = 4
    U32 = 16
    AuthAfter = 1
    ResendAfter = 2
    Addr = {c1, c2}
    NoAddr = NoAddr
    Expiry = {0, 8}
    Embedder = FALSE
    T0 = 3
    MaxTime = 8
    MaxStall = 1
    PingAfter = 1
    UdpAuthAfter = 2
    TokenAfter = 1
    KeepAliveAfter = 2
    ExpirySoon = 3
    PongAfter = 1
    ReloadAfter = 1
    RecvMax = 2
    TimeoutMax = 2
INVARIANTS
    FeedNeverRead
    LeakBounded
    OnlyReloadEndsAgent
PROPERTIES
    TargetsOnlyGrow
    InterruptEndsProcess
CHECK_DEADLOCK FALSE
