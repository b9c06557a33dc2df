CONSTANTS
    i1 = i1
    i2 = i2
    p1 = p1
    p2 = p2
    Instances <- TwoInstances
    Pipelines <- OnePipeline
    Chunks = {1, 2}
    Oversized = {}
    MaxPublishRetry = 2
    MaxProcessRetry = 1
    PendingLimit = 1
    HasDlq = TRUE
    MaxFaults = 1
    MaxCrashes = 1
SPECIFICATION Spec
INVARIANTS
    CommittedIsSettled
    AllOrNothing
    AnswersAreTrue
    DuplicatesCostAFailure
PROPERTIES
    KeepsPromise
CHECK_DEADLOCK FALSE
