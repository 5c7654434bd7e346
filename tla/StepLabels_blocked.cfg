SPECIFICATION Spec
CONSTANTS
    MaxRounds = 0
    MaxEdits = 1
    HalfEdits = FALSE
PROPERTIES
    BlockedHolds
CHECK_DEADLOCK FALSE
