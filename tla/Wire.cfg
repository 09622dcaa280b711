SPECIFICATION Spec
CONSTANT
    Sample <- MCSample
INVARIANTS
    RoundTrip
    CutOnlyZeroes
    PongExpiryIsZeroOrFar
CHECK_DEADLOCK FALSE
