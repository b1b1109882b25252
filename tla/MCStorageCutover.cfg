SPECIFICATION FairSpec
CONSTANTS
    Rows = {a, b, c}
    MaxCrashes = 3
INVARIANTS
    OneStore
    ActiveIsComplete
PROPERTIES
    RefusalHasCause
    FencedIsPublished
CHECK_DEADLOCK FALSE
