SPECIFICATION Spec
CONSTANTS
    MaxRounds = 0
    MaxEdits = 0
    HalfEdits = TRUE
INVARIANTS
    LaneIsNotLost
CHECK_DEADLOCK FALSE
