SPECIFICATION Spec
CONSTANTS
    MaxRounds = 1
    MaxEdits = 0
    HalfEdits = FALSE
PROPERTIES
    ReportedMoveIsMade
CHECK_DEADLOCK FALSE
