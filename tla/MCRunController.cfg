CONSTANTS
    Runs = {r1, r2}
    Slots = 1
    MaxRestarts = 1
SPECIFICATION FairSpec
INVARIANTS
    AnswersAreSound
PROPERTIES
    KeepsPromise
    EveryRequestIsAnswered
CHECK_DEADLOCK FALSE
