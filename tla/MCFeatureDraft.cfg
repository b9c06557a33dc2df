CONSTANTS
    f1 = f1
    f2 = f2
    f3 = f3
    s1 = s1
    s3 = s3
    k1 = k1
    k2 = k2
    k3 = k3
    k4 = k4
    d1 = d1
    d2 = d2
    d3 = d3
    n1 = n1
    Ids = {f1, f2, f3}
    Sources = {s1, s3}
    NoSource = NoSource
    Keys = {k1, k2, k3, k4}
    Dtos = {d1, d2, d3, n1}
    Bodies = {0, 1}
    FirstDrafts <- OneDraft
    Bases <- TwoDrafts
    PatchOps <- SomeOps
    PatchDtos <- SomeDtos
    MaxPatchOps = 2
    MaxEntries = 2
    Findable <- SomeFaults
    MaxAttempts = 3
SPECIFICATION Spec
INVARIANTS
    UnnamedOperationsStay
    RetryKnowsBaseline
PROPERTIES
    PatchesAreContained
CHECK_DEADLOCK FALSE
