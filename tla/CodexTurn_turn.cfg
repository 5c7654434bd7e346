\* Two runs of one lane, one fault; a managed server, a shared one, a kept connection.
SPECIFICATION FairSpec
CONSTANTS
    Modes <- MCModes
    MaxRuns = 2
    MaxInbox = 1
    MaxUpsets = 1
    ReadTimeout = 1
    StallTimeout = 1
    TurnTimeout = 2
INVARIANTS
    TypeOK
    ResultIsOwn
    GivenUpTurnIsTold
    ResumesOwnThread
PROPERTIES
    ReplaysOnlyLost
    TakesOnlyItsTurn
    RunEnds
CHECK_DEADLOCK FALSE
