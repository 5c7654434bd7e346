\* Holders write their lease in time; processes die at any point.
SPECIFICATION FairSpecTimed
CONSTANTS
    Proc = {tick, worker}
    Call = {c1, c2}
    NoCall = NoCall
    NoOwner = NoOwner
    TTL = 4
    RenewEvery = 1
    WaitLimit = 2
    MaxGap = 2
INVARIANTS
    TypeOK
    MutualExclusion
    NoLostUpdate
PROPERTIES
    ImplementsMutex
    NobodyIsStuck
