SPECIFICATION BridgeSpec
CONSTANTS
    Tag = {t1, t2}
    MaxGroup = 2
    HeartbeatInterval = 1
    StaleThreshold = 2
    RefreshInterval = 1
    MaxFaults = 1
    MaxChanges = 2
    StartsComplete = TRUE
    PartialFaults = TRUE
    GradualLoad = FALSE
    ListingFaults = FALSE
    SlowDiscovery = FALSE
    Unshowable = {}
    Refused <- MCRefused
    Doubtful <- MCDoubtful
    MaxValue = 2
    MaxQueue = 1
    t1 = t1
    t2 = t2
INVARIANTS
    KnownAreShown
PROPERTIES
    NeverBack
    Follows
