SPECIFICATION Spec
CONSTANTS
    PingAfter = 1
    PongAfter = 2
    ReloadAfter = 3
    AuthPause = 2
    U64 = 1000
    T0 = 5
    MaxReal = 9
    MaxSteps = 2
INVARIANTS
    PingsGoOn
    ReloadsAreSpaced
    ExpiryIsTimely
CHECK_DEADLOCK FALSE
