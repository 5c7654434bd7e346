SPECIFICATION FairSpec
CONSTANTS
    Issue = {i1, i2}
    NoIssue = none
    MaxLanes = 1
    MaxRunners = 2
    MaxUpsets = 1
INVARIANTS
    TypeOK
    CapacityHolds
    LeaseFollowsLane
    PadBeforeWork
PROPERTIES
    TodoIsServed
