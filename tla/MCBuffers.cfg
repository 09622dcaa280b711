SPECIFICATION MCSpec

CONSTANTS
    Chunk = 4
    Request = {2, 3}
    Datagram = {1, 2, 4, 6, 9}
    MaxOps = 5
    Size = 25
    MaxRelayOps = 3

INVARIANTS
    MessageIsStale
    FlowIsStale

CHECK_DEADLOCK FALSE
