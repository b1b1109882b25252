SPECIFICATION Spec
CONSTANTS
    FreshFor = 1
    MaxDaemons = 2
    MaxReadings = 3
    MaxToggles = 1
INVARIANTS
    VouchesForOwnReadings
PROPERTIES
    Fades
CHECK_DEADLOCK FALSE
