SPECIFICATION FairSpec
CONSTANTS
    Daemons = {d1, d2}
    Epochs = {e1, e2}
    Absent = Absent
    Legacy = Legacy
    NoOne = NoOne
    Repairer = Repairer
    Older = Older
    MaxTroubles = 4
INVARIANTS
    QuietWhileMoving
PROPERTIES
    ServingIsReachable
    WritesAreSelected
    ServesAgain
CHECK_DEADLOCK FALSE
