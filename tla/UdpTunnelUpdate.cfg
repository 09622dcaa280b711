SPECIFICATION Spec
CONSTANTS
    SecMax = 3
    U32 = 8
    AuthAfter = 1
    ResendAfter = 2
    a1 = a1
    a2 = a2
    t1 = t1
    Proc = {g1, g2}
    Addr4 = {a1, a2}
    Addr6 = {b1}
    Token = {t1, t2}
    Data = Data
    HasUdp6 = FALSE
    Preset = NoChannel
    PresetHistory <- MCNoHistory
    NoChannel = NoChannel
    NoDatagram = NoDatagram
    NoProc = NoProc
INVARIANT
    ChannelIsUpdated
CHECK_DEADLOCK FALSE
