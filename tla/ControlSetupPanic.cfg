SPECIFICATION Spec
CONSTANTS
    c1 = c1
    c2 = c2
    c3 = c3
    Address <- MCAddress
    NoAddr = NoAddr
    Stranger = Stranger
    Session = {s1, s2}
    NoSession = NoSession
    PingMax = 3
    AuthMax = 5
    ReadMax = 5
INVARIANT
    NoPanicWithoutResponse
CHECK_DEADLOCK FALSE
