CONSTANTS
    Daemons = {d1, d2}
    Epochs = {e1, e2}
    Absent = Absent
    Legacy = Legacy
    NoOne = NoOne
    Repairer = Repairer
    Older = Older
    MaxTroubles = 2
SPECIFICATION Spec
SYMMETRY Symmetry
INVARIANT NoKeyOutlivesOwnership
CHECK_DEADLOCK FALSE
