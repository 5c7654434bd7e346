\* Two faults of any kind, or a second daemon beside the first.
SPECIFICATION FairSpec
CONSTANTS
    Lane = {l1}
    Daemon = {d1, d2}
    NoOwner = NoOwner
    MaxAttempts = 2
    InitialDelay = 1
    MaxDelay = 1
    TTL = 2
    ActiveInterval = 2
    IdleInterval = 2
    ErrorInterval = 1
    MaxRetrySleep = 2
    Jitter = 0
    MaxTick = 1
    MaxUpsets = 2
INVARIANTS
    TypeOK
    OneDaemonAwake
    TablesFollowFile
    TickIsAccounted
    WakesForRetry
PROPERTIES
    DueRetryIsTaken
    TicksGoOn
