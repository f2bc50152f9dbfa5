SPECIFICATION Spec
CONSTANTS
    Tag = {t1, t2}
    MaxGroup = 4
    HeartbeatInterval = 1
    StaleThreshold = 2
    RefreshInterval = 3
    MaxFaults = 1
    MaxChanges = 2
    StartsComplete = FALSE
    PartialFaults = TRUE
    GradualLoad = TRUE
    ListingFaults = TRUE
    SlowDiscovery = TRUE
    t1 = t1
    t2 = t2
INVARIANTS
    TypeOK
    MirrorInv
    WatchdogMeansDead
PROPERTIES
    NeverStranded
    SomethingIsHeard
    Converges
    Recovers
