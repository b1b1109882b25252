SPECIFICATION Spec
CONSTANTS
    first = first
    second = second
    incoming = incoming
    Nobody = nobody
    Calls <- ThreeCalls
    Asks <- ThreeAsks
INVARIANTS
    OneInference
    PermitHasItsScan
    GapsAreTrue
    NoSilentMiss
PROPERTIES
    OutboundIsAnswered
CHECK_DEADLOCK FALSE
