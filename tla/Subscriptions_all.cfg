SPECIFICATION Spec
CONSTANTS
    Name = {g1, g2}
    Tag = {t1, t2}
    Batch = {{t1}, {t2}}
    MaxSubscribes = 3
    MaxConnects = 1
    MaxQueue = 1
    MaxFaults = 1
INVARIANTS
    HandleInv
    RightTag
    OneAtATime
PROPERTIES
    NoCallAfterClose
    EveryGroupHeard
CHECK_DEADLOCK FALSE
