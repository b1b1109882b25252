SPECIFICATION Spec
CONSTANTS
    s1 = s1
    s2 = s2
    Subjects = {s1, s2}
    Nobody = Nobody
    Findings <- MCFindings
    Reports <- MCReports
    MaxHooks = 3
INVARIANTS
    ResolvedIsExplained
    EngineRecordsAreValid
PROPERTIES
    LostKeyFreezesOutcomes
CHECK_DEADLOCK FALSE
