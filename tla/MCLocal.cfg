SPECIFICATION MCSpec

CONSTANTS
    Bits = 8
    Factor = 243
    Sample = {0, 1, 127, 200, 255}
    Peer <- MCPeer
    LocalOf <- MCLocalOf
    Loopback <- MCLoopback
    MaxSockets = 2
    IP = {ip1, ip2}
    Local = {server}
    LocalHost = localhost
    Proto = {tcp, both}
    Ports = 2
    MaxOverrides = 2
    MaxLookups = 2

INVARIANTS
    UdpFailsByFamilyOrSystem
    ClientsSpreadEvenly
    RangeIsNotServed

PROPERTY
    AddressSurvivesRestart

CHECK_DEADLOCK FALSE
