SPECIFICATION Spec
CONSTANTS
    Folded <- MCFolded
    NoTable = "none"
    Lost = "lost"
    Absent = Absent
    MaxTargetItems = 2
    MaxAddedItems = 2
    MaxRewriteItems = 2
    MaxRequests = 1
    Documents <- MCDocuments
    ItemAnswers <- MCItemAnswers
    NewItems <- MCNewItems
    ListAnswers <- MCListAnswers
CHECK_DEADLOCK FALSE
INVARIANTS
    ProposalsAreFaithful
    ReferencesFollow
