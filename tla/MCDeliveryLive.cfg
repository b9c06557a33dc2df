CONSTANTS
    i1 = i1
    i2 = i2
    p1 = p1
    p2 = p2
    Instances <- OneInstance
    Pipelines <- TwoPipelines
    Chunks = {1}
    Oversized = {p2}
    MaxPublishRetry = 2
    MaxProcessRetry = 2
    PendingLimit = 2
    HasDlq = FALSE
    MaxFaults = 2
    MaxCrashes = 2
SPECIFICATION FairSpec
PROPERTIES
    PublishSettles
CHECK_DEADLOCK FALSE
