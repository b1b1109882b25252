SPECIFICATION Spec
CONSTANTS
    Rows = {a}
    MaxCrashes = 0
PROPERTIES
    RecheckedBeforeRetirement
CHECK_DEADLOCK FALSE
