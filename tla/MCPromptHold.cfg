SPECIFICATION Spec
CONSTANTS
    Requests = {r1, r2, r3}
    DeliveryKeys = {k1, k2, k3}
    Credentials = {c1, c2}
    MinGap = 1
    Window = 1
    MaxTime = 2
    MaxGates = 2
    NoVerdict = NoVerdict
SYMMETRY Symmetry
INVARIANTS
    AllowedWasConfirmedAndRecorded
    AdmittedOnlyAfterWarning
    OneHoldOneConfirmation
    ReservationHasOwner
PROPERTIES
    FailureTakesNothing
CHECK_DEADLOCK FALSE
