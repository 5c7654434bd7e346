SPECIFICATION FairSpec
CONSTANTS
    MaxDispatch = 3
    MaxAttempts = 2
    MaxCrashes = 1
    Suspends = TRUE
INVARIANTS
    TypeOK
    CalmLaneHasOneActor
    LiveActorIsKnown
    RunsAgreeWithJournal
    RecordsComeFirst
    GuardAgreesWithRoute
    RedoIsBounded
PROPERTIES
    BusyLaneMovesOn
CHECK_DEADLOCK FALSE
