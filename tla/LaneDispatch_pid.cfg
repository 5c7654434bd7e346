SPECIFICATION Spec
CONSTANTS
    MaxDispatch = 3
    MaxAttempts = 3
    MaxCrashes = 1
    Suspends = FALSE
INVARIANTS
    OneActorPerLane
CHECK_DEADLOCK FALSE
