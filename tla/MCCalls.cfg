SPECIFICATION MCSpec

CONSTANTS
    MaxDials = 3
    Caller = {c1, c2}
    MaxCalls = 5
    Creator = {c1, c2}
    MaxCreates = 2

INVARIANTS
    NoStreamLeaks
    ReplacedOnlyByOverlap
    ExchangeNeedsConsent
    NilMeansDecided
    PanicNeedsDeletion

PROPERTY
    CallsReturn

CHECK_DEADLOCK FALSE
