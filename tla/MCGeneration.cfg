CONSTANTS
    Issues <- WithPm
    Limit = 2
    MaxRetry = 2
SPECIFICATION FairSpec
INVARIANTS
    BudgetHolds
    FailedRepairIsFinal
    StageFailureKeepsArtifacts
PROPERTIES
    CutOffIsNotRepeated
    RunEnds
CHECK_DEADLOCK FALSE
