SPECIFICATION Spec
CONSTANTS
    SecMax = 3
    U32 = 16
    AuthAfter = 1
    ResendAfter = 2
    Addr = {c1, c2}
    NoAddr = NoAddr
    Expiry = {0, 8}
    Embedder = TRUE
    T0 = 3
    MaxTime = 6
    MaxStall = 1
    PingAfter = 1
    UdpAuthAfter = 2
    TokenAfter = 1
    KeepAliveAfter = 2
    ExpirySoon = 3
    PongAfter = 1
    ReloadAfter = 1
    RecvMax = 2
    TimeoutMax = 2
SYMMETRY Symmetry
INVARIANTS
    TypeOK
    InvalidatedSessionStaysDead
    PongOnlyAtHandshake
PROPERTIES
    KeepAliveNeedsZeroExpiry
    ExpiredUntilNewAddress
CHECK_DEADLOCK FALSE
