CONSTANTS
    r1 = r1
    r2 = r2
    s1 = s1
    Runs <- TwoRuns
    Streams <- OneStream
    BufferSize = 2
    MaxTerminal = 1
    Ttl = 1
    MaxEvents = 4
    MaxClock = 2
    MaxRestarts = 1
SPECIFICATION FairSpec
INVARIANTS
    StreamIsWhole
    NothingLeaks
    OutcomeIsKept
PROPERTIES
    StreamsEnd
CHECK_DEADLOCK FALSE
