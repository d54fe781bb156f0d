CONSTANTS
    Inputs <- Strings
    CompareLists <- Lists
    Space = " "
    Dash = "-"
    Excluded <- JustA
    Threshold = 65
    PartialThreshold = 50
    Limit = 1
    Similarity <- SameStart
    PartialSimilarity <- Agreeing
SPECIFICATION Spec
INVARIANTS BestOfEach LaterStagesFindMore EveryStretchCombined PartialExplained
CHECK_DEADLOCK FALSE
