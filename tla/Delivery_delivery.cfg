\* Two pull requests, a review that may ask for changes, one fault, three upsets in all.
SPECIFICATION FairSpec
CONSTANTS
    Kinds = {"changes_requested"}
    AutoActivate = TRUE
    MaxPulls = 2
    MaxUpsets = 3
    MaxFaults = 1
INVARIANTS
    TypeOK
    OnePad
PROPERTIES
    DoneIsDelivered
    StepsAreServed
