CONSTANTS
    a = a
    b = b
    none = none
    NumRuns = 3
    Feature <- Addresses
    NoFeature = none
    Files <- NestedFiles
    Initial <- There
    BatchSize = 1
    Faults = {"query", "crash", "late"}
SPECIFICATION CalmSpec
INVARIANTS FileLanded MissingOnlyWhileStaged
CHECK_DEADLOCK FALSE
