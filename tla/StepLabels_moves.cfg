SPECIFICATION Spec
CONSTANTS
    MaxRounds = 1
    MaxEdits = 2
    HalfEdits = TRUE
INVARIANTS
    TypeOK
    LedgerIsEarned
PROPERTIES
    MoveLeavesOneLabel
    UnreadLabelsStay
CHECK_DEADLOCK FALSE
