SPECIFICATION Spec
CONSTANTS
    Deliveries = {d1, d2, d3}
    Lifecycle = Lifecycle
    v1 = v1
    v2 = v2
    t1 = t1
    t2 = t2
    to1 = to1
    to2 = to2
    Unnamed = Unnamed
    Values = {v1, v2}
    Destinations = {to1, to2, Unnamed}
    DataTypes = {t1, t2}
    Score <- MCScore
    Batches <- ThreeBatches
    MaxProcesses = 3
SYMMETRY Symmetry
INVARIANTS
    SameAnswerForever
    PercentIsExact
    OneNamespace
    OpenRecordsWatched
    ErasedAtEnd
PROPERTIES
    NoWriteAborts
    Implements
CHECK_DEADLOCK FALSE
