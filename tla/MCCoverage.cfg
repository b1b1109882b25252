SPECIFICATION Spec
CONSTANTS
    first = first
    second = second
    Calls <- TwoCalls
    Asks <- TwoAsks
    Rules <- TwoRules
    Inherits = TRUE
    MaxDaemons = 2
    MaxConsents = 1
    MaxSalts = 2
INVARIANTS
    VerifiedIsUncontradicted
CHECK_DEADLOCK FALSE
