SPECIFICATION Spec
CONSTANTS
    Tag = {t1, t2}
    MaxAttempts = 3
    Timeout = 1
    ReadSize = 1
    GroupSize = 1
    MaxFaults = 2
    LongCalls = TRUE
    Stoppable = TRUE
INVARIANTS
    NodesFirst
    HandsOver
PROPERTIES
    Decides
    Stops
    GoesLive
    NodesGetValues
CHECK_DEADLOCK FALSE
